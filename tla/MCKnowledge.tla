----------------------------- MODULE MCKnowledge -----------------------------
(***************************************************************************)
(* What keeps the wiki in order - memory operations, claims, digests,       *)
(* schema and quality, the conflict gate, the merge of pages, the audit     *)
(* log, the lint and the review view - in one run.  The parts share no      *)
(* state: a behaviour is one of one part (its chore), and z1, z2, ... are   *)
(* the variables of that part, in its order; those it has no use for are 0. *)
(***************************************************************************)
EXTENDS Integers

CONSTANTS NoValue   \* what the parts call None

VARIABLES chore, z1, z2, z3, z4, z5, z6, z7, z8, z9, z10, z11, z12, z13, z14, z15

knowledgeVars == <<chore, z1, z2, z3, z4, z5, z6, z7, z8, z9, z10, z11, z12, z13, z14, z15>>

\* Answers: a thin one, a long one that cites nothing, a short one that does.
Text(length, references, links, rich) ==
  [length |-> length, references |-> references, links |-> links, structure |-> rich, conclusion |-> FALSE,
   decision |-> rich, list |-> rich]
Texts == [t \in {"thin", "long", "short"} |->
  CASE t = "thin" -> Text(280, 2, 0, FALSE) [] t = "long" -> Text(600, 0, 1, TRUE) [] OTHER -> Text(120, 1, 0, FALSE)]

\* Claims of three pages, and three pages to write.
Claim(id, page, words, status, contradicts) ==
  [id |-> id, page |-> page, words |-> words, status |-> status, contradicts |-> contradicts, supersedes |-> {}]
Stock == {
  Claim(1, "a", {"x", "y"}, "ok", {}), Claim(2, "b", {"x", "z"}, "contradicted", {}), Claim(3, "c", {"u"}, "superseded", {}),
  Claim(4, "b", {"x", "y", "z", "u"}, "ok", {}), Claim(5, "c", {"v"}, "ok", {7})}
Candidate(target, title, texts, claims) == [target |-> target, title |-> title, texts |-> texts, claims |-> claims]
Candidates == {
  Candidate("a", "A", {{"x", "y"}}, {7}), Candidate("n", "N", {{"v"}, {"w"}}, {8}), Candidate("m", "B", {{"x", "z", "y"}}, {7, 8})}
Wiki == <<[path |-> "a", title |-> "A"], [path |-> "b", title |-> "B"]>>

\* Two pages with one base name, and the ways to refer to them.
Tree == <<[path |-> "c/x", base |-> "x", title |-> "X"], [path |-> "e/x", base |-> "x", title |-> "T"]>>
Link(full, base) == [full |-> full, base |-> base]
Links == {Link("e/x", "x"), Link("T", "T"), Link("z/y", "y"), Link("q/x", "x")}

\* Pages to merge: with lists that differ, a "]" in one, a title with a colon,
\* and front matter that is fenced, behind something else, or missing.
Doc(at, title, form, sources, body) ==
  [at |-> at, broken |-> FALSE, title |-> title, form |-> form, sources |-> sources, body |-> body]
Generated ==
  {Doc("top", "V", form, sources, body) : form \in {"inline", "block"}, sources \in {<<"A", "c">>, <<"p]", "b">>}, body \in {"long", "most"}}
  \cup {Doc(at, "V", "inline", <<"c">>, "most") : at \in {"fenced", "junk", "none"}}
Answered ==
  {Doc(at, "W", "inline", sources, body) : at \in {"top", "fenced"}, sources \in {<<"b">>, <<"p]">>}, body \in {"most", "short"}}
  \cup {Doc("none", "W", "inline", <<>>, "long")}
Edited ==
  {Doc("top", title, list[1], list[2], "long") : title \in {"T", "T: U"},
     list \in {<<"block", <<"a", "b">>>>, <<"block", <<"x,y">>>>, <<"inline", <<"p]", "b">>>>}}
Sources == {"a", "A", "b", "c", "x,y", "x", "y", "p]", "p"}

\* Three items to review: of a missing page, of a pair, and a suggestion whose
\* page would be the same file as that of the pair; two indexes, one without a
\* heading for queries, one that has more on the line of a heading.
OfItems(missing, pair, suggestion) ==
  [i \in {"missing", "pair", "suggestion"} |->
    CASE i = "missing" -> missing [] i = "pair" -> pair [] OTHER -> suggestion]
Page(name) == <<"concepts", name>>
HeadingOf(concepts) == [d \in {"concepts", "queries"} |-> IF d = "concepts" THEN concepts ELSE "none"]

Memory == INSTANCE MemoryOps WITH None <- NoValue, pages <- z1, audit <- z2, open <- z3, today <- z4, report <- z5,
  batch <- z6, events <- z7, patrols <- z8, touched <- z9, Pages <- {"p", "q"},
  Ghost <- "ghost", Stride <- 100, Sourced <- {"p"}, MaxDay <- 2, MaxEvents <- 2,
  MaxPatrols <- 1
ClaimFile == INSTANCE ClaimIndex WITH None <- NoValue, index <- z1, anchors <- z2, writing <- z3, sources <- z4,
  repair <- z5, scan <- z6, merge <- z7, rewrites <- z8, edits <- z9, clean <- z10, Claims <- {"c",
  "d"}, Files <- {"f", "g"}, MaxLines <- 2, MaxRewrites <- 2, MaxEdits <- 1
Digests == INSTANCE Crystallization WITH None <- NoValue, said <- z1, queue <- z2, planned <- z3, adds <- z4,
  updates <- z5, version <- z6, saves <- z7, pages <- z8, claims <- z9, listed <- z10,
  logged <- z11, held <- z12, updated <- z13, saved <- z14, mishaps <- z15, Contents <- DOMAIN
  Texts, Features <- Texts, Conversations <- {"v"}, MaxAnswers <- 3, MaxUpdates <- 1,
  MaxSaves <- 1, MaxMishaps <- 1
Schema == INSTANCE SchemaQuality WITH schema <- z1, pages <- z2, read <- z3, left <- z4,
  report <- z5, edits <- z6, scans <- z7, changed <- z8, mended <- z9, Pages <- {"p", "q"},
  Varied <- {"p"}, MaxEdits <- 1, MaxScans <- 1
Gate == INSTANCE ConflictGate WITH claims <- z1, pages <- z2, op <- z3, items <- z4,
  events <- z5, verdicts <- z6, moves <- z7, MaxClaims <- 3, MaxEvidence <- 2, MaxPages <- 2,
  MaxStock <- 3, MaxMoves <- 2
Audit == INSTANCE AuditTrail WITH file <- z1, open <- z2, writing <- z3, kept <- z4,
  reading <- z5, timeline <- z6, exported <- z7, counts <- z8, Times <- {0, 1},
  Categories <- {"c", "d"}, MaxEvents <- 3, MaxCrashes <- 1, MaxReads <- 1
Lint == INSTANCE LintView WITH links <- z1, listed <- z2, run <- z3, results <- z4,
  acting <- z5, fixingId <- z6, seen <- z7, dealt <- z8, gone <- z9, counts <- z10, MaxLinks <- 1,
  MaxRuns <- 1, MaxActs <- 1, MaxEdits <- 1
Merge == INSTANCE PageMerge WITH page <- z1, merge <- z2, backups <- z3, last <- z4, counts <- z5,
  Incoming <- Generated, Answers <- Answered, Edits <- Edited,
  Length <- [b \in {"long", "most", "short"} |-> CASE b = "long" -> 10 [] b = "most" -> 7 [] OTHER -> 5],
  Fold <- [s \in Sources |-> IF s = "A" THEN "a" ELSE s],
  Parts <- [s \in Sources |-> IF s = "x,y" THEN <<"x", "y">> ELSE <<s>>],
  Stump <- [s \in Sources |-> IF s = "p]" THEN "p" ELSE s], Awkward <- {"T: U"},
  MaxMerges <- 2, MaxEdits <- 1, MaxMishaps <- 1
Desk == INSTANCE ReviewDesk WITH items <- z1, pages <- z2, index <- z3, acts <- z4, research <- z5,
  sweep <- z6, since <- z7, told <- z8, counts <- z9, Order <- <<"missing", "pair", "suggestion">>,
  Kind <- OfItems("missing-page", "duplicate", "suggestion"),
  Labels <- OfItems({"Create Page", "Skip"}, {"Create Page", "open", "delete"}, {"Explore", "Create Page"}),
  Affected <- OfItems({}, {Page("b")}, {}), Wanted <- OfItems("x", "u", "t"), Title <- OfItems("x", "U", "T"),
  Slug <- OfItems("x-d", "t-d", "t-d"), Prefixed <- {"pair"}, 
  Wiki <- [p \in {Page("a"), Page("b")} |-> IF p = Page("a") THEN "a" ELSE "bee"],
  Foreign <- [p \in {Page("x")} |-> "x"], Searchable <- BOOLEAN, Headings <- {HeadingOf("plain"), HeadingOf("odd")},
  BatchSize <- 1, MaxBatches <- 2, MaxEvents <- 2, MaxSweeps <- 1

NoZ15 == z15 = 0
NoZ14 == z14 = 0 /\ NoZ15
NoZ13 == z13 = 0 /\ NoZ14
NoZ12 == z12 = 0 /\ NoZ13
NoZ11 == z11 = 0 /\ NoZ12
NoZ10 == z10 = 0 /\ NoZ11
NoZ9 == z9 = 0 /\ NoZ10
NoZ8 == z8 = 0 /\ NoZ9
NoZ6 == z6 = 0 /\ z7 = 0 /\ NoZ8
KnowledgeInit ==
  \/ chore = "MemoryOps" /\ Memory!Init /\ NoZ10
  \/ chore = "ClaimIndex" /\ ClaimFile!Init /\ NoZ11
  \/ chore = "Crystallization" /\ Digests!Init
  \/ chore = "SchemaQuality" /\ Schema!Init /\ NoZ10
  \/ chore = "ConflictGate" /\ Gate!Init /\ NoZ8
  \/ chore = "AuditTrail" /\ Audit!Init /\ NoZ9
  \/ chore = "LintView" /\ Lint!Init /\ NoZ11
  \/ chore = "PageMerge" /\ Merge!Init /\ NoZ6
  \/ chore = "ReviewDesk" /\ Desk!Init /\ NoZ10
KnowledgeNext ==
  \/ chore = "MemoryOps" /\ Memory!Next /\ UNCHANGED <<chore, z10, z11, z12, z13,
     z14, z15>>
  \/ chore = "ClaimIndex" /\ ClaimFile!Next /\ UNCHANGED <<chore, z11, z12, z13, z14,
     z15>>
  \/ chore = "Crystallization" /\ Digests!Next /\ UNCHANGED <<chore>>
  \/ chore = "SchemaQuality" /\ Schema!Next /\ UNCHANGED <<chore, z10, z11, z12,
     z13, z14, z15>>
  \/ chore = "ConflictGate" /\ Gate!Next /\ UNCHANGED <<chore, z8, z9, z10, z11,
     z12, z13, z14, z15>>
  \/ chore = "AuditTrail" /\ Audit!Next /\ UNCHANGED <<chore, z9, z10, z11, z12,
     z13, z14, z15>>
  \/ chore = "LintView" /\ Lint!Next /\ UNCHANGED <<chore, z11, z12, z13, z14,
     z15>>
  \/ chore = "PageMerge" /\ Merge!Next /\ UNCHANGED <<chore, z6, z7, z8, z9, z10, z11,
     z12, z13, z14, z15>>
  \/ chore = "ReviewDesk" /\ Desk!Next /\ UNCHANGED <<chore, z10, z11, z12, z13,
     z14, z15>>

KnowledgeSpec == KnowledgeInit /\ [][KnowledgeNext]_knowledgeVars

-----------------------------------------------------------------------------
\* Patrols, scores and the lint agree with what they read: applying what a
\* patrol proposes leaves nothing to propose (memory-ops-rules.ts), scores are
\* the same at the fourth scan (page-quality.ts), findings are so (lint.ts).
MaintenanceSettles ==
  /\ chore = "MemoryOps" => Memory!Settles
  /\ chore = "SchemaQuality" => Schema!ScoresSettle
  /\ chore = "LintView" => Lint!FindingsAreTrue

\* A patch takes no relation, count or date from a page that was not changed
\* since it was proposed (memory-ops-rules.ts), and the repair of a metadata
\* finding removes that finding and brings none (schema-drift.ts).  A rewrite
\* of the claim index keeps every claim, its sources and its own relations, and
\* a rebuild finds the claim of every anchor (claims.ts); a merge of pages keeps
\* the sources of both, the title and most of the body (page-merge.ts,
\* sources-merge.ts).
RepairsDoNoHarm ==
  [][/\ chore = "MemoryOps" => Memory!PatchesKeep
     /\ chore = "SchemaQuality" => Schema!RepairMends
     /\ chore = "ClaimIndex" => ClaimFile!CleanRewritesKeep /\ ClaimFile!RebuildsFind
     /\ chore = "PageMerge" => Merge!SourcesAreKept /\ Merge!TitlesAreKept /\ Merge!BodiesAreKept]_knowledgeVars

\* A write of the digest queue keeps what the user decided
\* (consolidation-queue.ts).  The sweep of the review items ends what is dealt
\* with, and no decision is taken over but by a sweep that had begun before
\* (sweep-reviews.ts).
DecisionsAreKept ==
  [][/\ chore = "Crystallization" => Digests!WritesKeepDecisions
     /\ chore = "ReviewDesk" => Desk!SweepIsJustified /\ Desk!DecisionsStand]_knowledgeVars

\* No digest is queued twice, and none is listed without a page
\* (crystallization-digest.ts); a review item leads to one page or one research
\* task, and its page is listed (review-view.tsx).
DigestsAreSound ==
  /\ chore = "Crystallization" => Digests!OneItemPerKey /\ Digests!ListedPagesExist
  /\ chore = "ReviewDesk" => Desk!CreatedPagesAreListed /\ Desk!DecidedOnce

\* A write that is let through meets no doubtful claim and no page of its
\* title among what the gate saw (prewrite-conflict.ts).
GateHolds == chore = "ConflictGate" => Gate!GateHolds

\* What was logged can be read, once, or is warned of, and what is exported
\* are the newest events that match (audit-timeline.ts, audit-timeline-ui.ts).
LogIsSound == chore = "AuditTrail" => Audit!EventsAreAccountedFor /\ Audit!ExportsAreTheNewest

\* Refuted: a write that has to do with no claim and no page is let through
\* (README.md:285, "safe writes continue").
UnrelatedWritesLand == chore = "ConflictGate" => Gate!UnrelatedWritesLand
=============================================================================

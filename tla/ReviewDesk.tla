------------------------------ MODULE ReviewDesk ------------------------------
(***************************************************************************)
(* The review view: what each button of an item does (review-view.tsx), the *)
(* page that a decision creates and lists (review-page.ts), and the sweep,   *)
(* which looks at the wiki page by page and resolves what has been dealt     *)
(* with, by rules and by asking a model batch by batch (sweep-reviews.ts).   *)
(* Decisions and the sweep run side by side, and so do ingests and           *)
(* deletions, which are one step here (IngestPipeline, WikiWriters).  The    *)
(* store and the change of projects are ProjectSession's, research is        *)
(* ResearchTasks', the rest of the conflict check ConflictGate's.  An option *)
(* "save:", which no code of the program offers, is left out.                *)
(***************************************************************************)
EXTENDS Integers, Sequences, FiniteSets, Functions

CONSTANTS
  Order,        \* the items, in their order; what follows is a function of them
  Kind,         \* of each item: "missing-page", "duplicate", "suggestion", "confirm"
  Labels,       \* of each item: the labels of its options
  Affected,     \* of each item: the pages it is about
  Wanted,       \* of each item: its title as the sweep looks for it
  Title, Slug,  \* of each item: the page that would be created for it
  Prefixed,     \* items that name their pages from the project, not from wiki/
  Wiki,         \* the pages at first: path -> title
  Foreign,      \* pages an ingest may write: path -> title
  Searchable,   \* whether an API for web search may be configured: a subset of BOOLEAN
  BatchSize, MaxBatches,  \* 40 and 5 in the code
  Headings,     \* of index.md: folder -> whether its heading is there and stands alone
  MaxEvents,    \* bound: buttons pressed, pages others write or delete, files that fail
  MaxSweeps     \* bound: sweeps

VARIABLES
  items,        \* each item: pending, resolved and how, or gone
  pages,        \* path -> [title, by]
  index,        \* index.md: the pages listed, and the heading of each folder
  acts,         \* decisions under way
  research,     \* each item: research tasks queued
  sweep,        \* the sweep under way, or Nothing
  since,        \* history: names seen and names missed since the sweep under way began
  told,         \* history: items shown, pressed twice, and what came in between
  counts        \* events and sweeps so far, and whether web search is configured

vars == <<items, pages, index, acts, research, sweep, since, told, counts>>

Nothing == [nothing |-> TRUE]
Items == Range(Order)

\* A path: folder and name without ".md".
Dir(i) == IF Kind[i] = "missing-page" THEN "concepts" ELSE "queries"
Target(i) == <<Dir(i), Slug[i]>>
Paths == DOMAIN Wiki \cup DOMAIN Foreign \cup {Target(i) : i \in Items} \cup UNION {Affected[i] : i \in Items}
Ids(ps) == {p[2] : p \in DOMAIN ps}
Names(ps) == Ids(ps) \cup {ps[p].title : p \in DOMAIN ps}

Init ==
  /\ items = [i \in Items |-> [state |-> "pending", how |-> "none"]]
  /\ pages = [p \in DOMAIN Wiki |-> [title |-> Wiki[p], by |-> "wiki"]]
  /\ \E heading \in Headings : index = [listed |-> DOMAIN Wiki, heading |-> heading]
  /\ acts = {} /\ research = [i \in Items |-> 0] /\ sweep = Nothing
  /\ since = Nothing
  /\ told = [shown |-> {}, twice |-> {}, made |-> {}, overlap |-> FALSE, mishap |-> FALSE]
  /\ \E search \in Searchable : counts = [events |-> 0, sweeps |-> 0, search |-> search]

-----------------------------------------------------------------------------
Pending(i) == items[i].state = "pending"

\* resolveItem: an item that is gone stays so, one that is resolved is resolved
\* again.
Resolved(list, ids, how) ==
  [i \in Items |-> IF i \in ids /\ list[i].state # "gone" THEN [state |-> "resolved", how |-> how] ELSE list[i]]

Put(ps, p, page) == [q \in DOMAIN ps \cup {p} |-> IF q = p THEN page ELSE ps[q]]
Without(ps, gone) == [q \in DOMAIN ps \ gone |-> ps[q]]
Change(ps) ==
  /\ pages' = ps
  /\ since' = IF since = Nothing THEN Nothing ELSE
       [had |-> since.had \cup Names(ps), lacked |-> since.lacked \cup ({p[2] : p \in Paths} \ Ids(ps))]

Event(happens) ==
  /\ happens => counts.events < MaxEvents
  /\ counts' = [counts EXCEPT !.events = @ + IF happens THEN 1 ELSE 0]

\* The buttons of a card, and the order in which handleResolve tells labels
\* apart: what is no dismissal creates a page.
Buttons(i) == Labels[i] \cup IF Kind[i] \in {"missing-page", "suggestion"} THEN {"Deep Research"} ELSE {}
LooksLikeResearch(label) == label \in {"Research", "Explore"}
IsDismissal(label) == label \in {"Skip", "Approve"}
Branch(label) ==
  CASE label = "Deep Research" -> "deep"
    [] label \in {"open", "delete"} -> label
    [] LooksLikeResearch(label) -> IF counts.search THEN "research" ELSE "create"
    [] IsDismissal(label) -> "dismiss"
    [] OTHER -> "create"

\* handleResolve, up to its first await.  Without an API the button for
\* research says so and leaves the item.
Click(i, label) ==
  LET branch == Branch(label) IN
  /\ Pending(i) /\ label \in Buttons(i)
  /\ Event(TRUE)
  /\ IF branch \in {"deep", "research"}
     THEN /\ research' = [research EXCEPT ![i] = @ + IF counts.search THEN 1 ELSE 0]
          /\ items' = IF counts.search THEN Resolved(items, {i}, "queued") ELSE items
          /\ UNCHANGED acts
     ELSE IF branch = "dismiss" THEN items' = Resolved(items, {i}, label) /\ UNCHANGED <<acts, research>>
     ELSE /\ acts' = acts \cup {[id |-> counts.events, item |-> i, at |-> branch, read |-> Nothing]}
          /\ UNCHANGED <<items, research>>
  /\ told' = [told EXCEPT !.twice = @ \cup IF \E a \in acts : a.item = i THEN {i} ELSE {},
                          !.overlap = @ \/ (branch = "create" /\ \E a \in acts : a.at # "open")]
  /\ UNCHANGED <<pages, index, sweep, since>>

Becomes(a, new) == acts' = (acts \ {a}) \cup {new}
Ends(a, how) == acts' = acts \ {a} /\ items' = Resolved(items, {a.item}, how)

-----------------------------------------------------------------------------
\* A page that bears the title elsewhere holds the creation back, and so may
\* claims; a page in the place of the new one does not.
Duplicate(i) == \E p \in DOMAIN pages \ {Target(i)} : pages[p].title = Title[i]
Preview(a, claims) ==
  /\ a.at = "create"
  /\ IF Duplicate(a.item) \/ claims THEN Ends(a, "held") ELSE Becomes(a, [a EXCEPT !.at = "write"]) /\ UNCHANGED items
  /\ UNCHANGED <<pages, index, research, sweep, since, told, counts>>

Failed(fails) == Event(fails) /\ told' = [told EXCEPT !.mishap = @ \/ fails]

WritePage(a, fails) ==
  /\ a.at = "write" /\ Event(fails)
  /\ IF fails THEN Ends(a, "failed") /\ told' = [told EXCEPT !.mishap = TRUE] /\ UNCHANGED <<pages, since>>
     ELSE /\ Becomes(a, [a EXCEPT !.at = "index"]) /\ UNCHANGED items
          /\ Change(Put(pages, Target(a.item), [title |-> Title[a.item], by |-> a.item]))
          /\ told' = [told EXCEPT !.made = @ \cup {a.item}]
  /\ UNCHANGED <<index, research, sweep>>

\* An index that cannot be read counts as empty.
ReadIndex(a, fails) ==
  /\ a.at = "index" /\ Failed(fails)
  /\ Becomes(a, [a EXCEPT !.at = "list",
       !.read = IF fails THEN [listed |-> {}, heading |-> [d \in {"concepts", "queries"} |-> "none"]] ELSE index])
  /\ UNCHANGED <<items, pages, index, research, sweep, since>>

\* The heading is looked for anywhere and the entry put behind one that stands
\* alone on its line: a heading with more on its line takes none.  A mutant
\* looks for the heading only.
WithEntryIfHeaded(read, p) ==
  IF read.heading[p[1]] = "plain" THEN [read EXCEPT !.listed = @ \cup {p}] ELSE read
WithEntry(read, p) ==
  CASE read.heading[p[1]] = "plain" -> [read EXCEPT !.listed = @ \cup {p}]
    [] read.heading[p[1]] = "none" -> [listed |-> read.listed \cup {p}, heading |-> [read.heading EXCEPT ![p[1]] = "plain"]]
    [] OTHER -> read
WriteIndex(a, fails) ==
  /\ a.at = "list" /\ Failed(fails)
  /\ IF fails THEN Ends(a, "failed") /\ UNCHANGED index
     ELSE /\ Becomes(a, [a EXCEPT !.at = "log", !.read = Nothing]) /\ UNCHANGED items
          /\ index' = WithEntry(a.read, Target(a.item))
  /\ UNCHANGED <<pages, research, sweep, since>>

\* The log and the tree, which may fail as well.
Finish(a, fails) ==
  /\ a.at = "log" /\ Failed(fails)
  /\ Ends(a, IF fails THEN "failed" ELSE "created")
  /\ UNCHANGED <<pages, index, research, sweep, since>>

\* open: shows the page if it is under wiki/, and the item is resolved anyway.
Open(a) ==
  /\ a.at = "open" /\ Ends(a, "opened")
  /\ LET found == a.item \notin Prefixed /\ Affected[a.item] \cap DOMAIN pages # {} IN
     told' = [told EXCEPT !.shown = @ \cup IF found THEN {a.item} ELSE {}]
  /\ UNCHANGED <<pages, index, research, sweep, since, counts>>

\* delete: the file only, without the cascade of the knowledge tree.
Delete(a) ==
  /\ a.at = "delete"
  /\ IF Affected[a.item] \subseteq DOMAIN pages
     THEN Ends(a, "deleted") /\ Change(Without(pages, Affected[a.item]))
     ELSE Ends(a, "failed") /\ UNCHANGED <<pages, since>>
  /\ UNCHANGED <<index, research, sweep, told, counts>>

\* dismissItem, clearResolved.
Gone == [state |-> "gone", how |-> "none"]
Dismiss(i) ==
  /\ items[i] # Gone /\ Event(TRUE)
  /\ items' = [items EXCEPT ![i] = Gone]
  /\ UNCHANGED <<pages, index, acts, research, sweep, since, told>>
ClearResolved ==
  /\ \E i \in Items : items[i].state = "resolved"
  /\ items' = [i \in Items |-> IF items[i].state = "resolved" THEN Gone ELSE items[i]]
  /\ UNCHANGED <<pages, index, acts, research, sweep, since, told, counts>>

-----------------------------------------------------------------------------
\* The sweep: the pages are listed, then read one by one.
StartSweep ==
  /\ sweep = Nothing /\ counts.sweeps < MaxSweeps /\ \E i \in Items : Pending(i)
  /\ counts' = [counts EXCEPT !.sweeps = @ + 1]
  /\ sweep' = [at |-> "list", pending |-> {i \in Items : Pending(i)}, ids |-> {}, titles |-> {}, todo |-> {},
               left |-> {}, judged |-> {}, batches |-> 0]
  /\ since' = [had |-> Names(pages), lacked |-> {p[2] : p \in Paths} \ Ids(pages)]
  /\ UNCHANGED <<items, pages, index, acts, research, told>>
\* A listing that fails counts as a wiki without pages.
ListPages(fails) ==
  /\ sweep # Nothing /\ sweep.at = "list" /\ Failed(fails)
  /\ sweep' = [sweep EXCEPT !.at = "read", !.ids = IF fails THEN {} ELSE Ids(pages), !.todo = IF fails THEN {} ELSE DOMAIN pages]
  /\ UNCHANGED <<items, pages, index, acts, research, since>>
ReadTitle ==
  /\ sweep # Nothing /\ sweep.at = "read" /\ sweep.todo # {}
  /\ LET p == CHOOSE p \in sweep.todo : TRUE IN
     sweep' = [sweep EXCEPT !.todo = @ \ {p}, !.titles = @ \cup IF p \in DOMAIN pages THEN {pages[p].title} ELSE {}]
  /\ UNCHANGED <<items, pages, index, acts, research, since, told, counts>>

\* extractCandidateNames and pageExists; a duplicate is settled when one of its
\* pages is gone.  A mutant takes pages by their titles, too.
CandidateNames(i) == {Wanted[i]} \cup {p[2] : p \in Affected[i]}
DealtWithByTitle(i) ==
  \/ Kind[i] = "missing-page" /\ CandidateNames(i) \cap (sweep.ids \cup sweep.titles) # {}
  \/ Kind[i] = "duplicate" /\ ~({p[2] : p \in Affected[i]} \subseteq sweep.titles)
DealtWith(i) ==
  \/ Kind[i] = "missing-page" /\ CandidateNames(i) \cap (sweep.ids \cup sweep.titles) # {}
  \/ Kind[i] = "duplicate" /\ Affected[i] # {} /\ ~({p[2] : p \in Affected[i]} \subseteq sweep.ids)
ApplyRules ==
  /\ sweep # Nothing /\ sweep.at = "read" /\ sweep.todo = {}
  /\ LET ruled == {i \in sweep.pending : DealtWith(i)}
         rest == sweep.pending \ ruled IN
     /\ items' = Resolved(items, ruled, "auto-resolved")
     /\ sweep' = IF rest = {} THEN Nothing
                 ELSE [sweep EXCEPT !.at = "judge", !.left = rest, !.ids = {}, !.titles = {}]
  /\ since' = Nothing
  /\ UNCHANGED <<pages, index, acts, research, told, counts>>

\* judgeBatch and llmJudgeReviews: the model names some of the batch; after one
\* that names none, and after the last, what was named is resolved.
Before(j, i) == \E m, n \in DOMAIN Order : m < n /\ Order[m] = j /\ Order[n] = i
Batch(ids) == {i \in ids : Cardinality({j \in ids : Before(j, i)}) < BatchSize}
Judge(named) ==
  LET batch == Batch(sweep.left)
      left == sweep.left \ batch
      judged == sweep.judged \cup named IN
  /\ sweep # Nothing /\ sweep.at = "judge" /\ named \subseteq batch
  /\ IF named # {} /\ left # {} /\ sweep.batches + 1 < MaxBatches
     THEN sweep' = [sweep EXCEPT !.left = left, !.judged = judged, !.batches = @ + 1] /\ UNCHANGED items
     ELSE sweep' = Nothing /\ items' = Resolved(items, judged, "llm-judged")
  /\ UNCHANGED <<pages, index, acts, research, since, told, counts>>

-----------------------------------------------------------------------------
\* Others write a page and list it, or delete one with its entry.
Other ==
  /\ Event(TRUE)
  /\ told' = [told EXCEPT !.overlap = @ \/ \E a \in acts : a.at = "list"]
Appears(p) ==
  /\ Other /\ p \notin DOMAIN pages
  /\ Change(Put(pages, p, [title |-> Foreign[p], by |-> "wiki"])) /\ index' = [index EXCEPT !.listed = @ \cup {p}]
  /\ UNCHANGED <<items, acts, research, sweep>>
Vanishes(p) ==
  /\ Other /\ p \in DOMAIN pages
  /\ Change(Without(pages, {p})) /\ index' = [index EXCEPT !.listed = @ \ {p}]
  /\ UNCHANGED <<items, acts, research, sweep>>

Next ==
  \/ \E i \in Items : Dismiss(i) \/ \E label \in Buttons(i) : Click(i, label)
  \/ ClearResolved
  \/ \E a \in acts : Open(a) \/ Delete(a) \/ \E claims \in BOOLEAN : Preview(a, claims)
  \/ \E fails \in BOOLEAN : ListPages(fails)
  \/ \E a \in acts, fails \in BOOLEAN : WritePage(a, fails) \/ ReadIndex(a, fails) \/ WriteIndex(a, fails) \/ Finish(a, fails)
  \/ StartSweep \/ ReadTitle \/ ApplyRules
  \/ sweep # Nothing /\ \E named \in SUBSET sweep.left : Judge(named)
  \/ \E p \in DOMAIN Foreign : Appears(p)
  \/ \E p \in DOMAIN Wiki : Vanishes(p)

Spec == Init /\ [][Next]_vars

-----------------------------------------------------------------------------
(***************************************************************************)
(* A page that was created is listed when its decision is over, and every    *)
(* page that was listed still is, if no two decisions or writers of the      *)
(* index met, no file operation failed, and no heading is odd                *)
(* (review-view.tsx:244-255).                                                *)
(***************************************************************************)
CreatedPagesAreListed ==
  ~told.overlap /\ ~told.mishap /\ (\A d \in DOMAIN index.heading : index.heading[d] # "odd") =>
    \A p \in DOMAIN pages : (\E a \in acts : Target(a.item) = p) \/ p \in index.listed

(***************************************************************************)
(* An item that is not pressed twice has at most one of: a research task, a  *)
(* page; and it stays with what was decided unless a sweep that began before *)
(* decides again (review-view.tsx:33).                                       *)
(***************************************************************************)
DecidedOnce ==
  \A i \in Items \ told.twice : research[i] + (IF i \in told.made THEN 1 ELSE 0) <= 1
DecisionsStand ==
  \A i \in Items \ told.twice :
    items[i].state = "resolved" /\ items'[i].state = "resolved" /\ items'[i].how # items[i].how =>
      \/ sweep # Nothing /\ i \in sweep.pending
      \/ items[i].how \in {"auto-resolved", "llm-judged"} /\ \E a \in acts : a.item = i

(***************************************************************************)
(* What the sweep resolves by rule was so at some time since it began: the   *)
(* missing page was there, a page of the pair was not; what the model        *)
(* resolves was pending then (sweep-reviews.ts:361-396).                     *)
(***************************************************************************)
SweepIsJustified ==
  \A i \in Items :
    /\ items'[i].how = "auto-resolved" /\ items[i].how # "auto-resolved" /\ ~told.mishap =>
         \/ Kind[i] = "missing-page" /\ CandidateNames(i) \cap since.had # {}
         \/ Kind[i] = "duplicate" /\ {p[2] : p \in Affected[i]} \cap since.lacked # {}
    /\ items'[i].how = "llm-judged" /\ items[i].how # "llm-judged" => i \in sweep.pending

\* Refuted: every created page is listed, and what is listed is there; no page
\* is written over; "opened" means shown; a decision that failed made nothing;
\* no sweep decides over the user.
AllCreatedAreListed ==
  acts = {} => {p \in DOMAIN pages : pages[p].by # "wiki"} \subseteq index.listed
ListedPagesExist == index.listed \subseteq DOMAIN pages
NothingIsWrittenOver == \A p \in DOMAIN pages \cap DOMAIN pages' : pages'[p].by = pages[p].by
OpenedIsShown == \A i \in Items : items[i].how = "opened" => i \in told.shown
FailedMadeNothing == \A i \in Items : items[i].how = "failed" => i \notin told.made
UserDecides == \A i \in Items : items[i].how \in {"created", "queued", "Skip"} => items'[i].how = items[i].how
=============================================================================

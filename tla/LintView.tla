-------------------------------- MODULE LintView --------------------------------
(***************************************************************************)
(* The wiki lint (lint.ts, wiki-alias-index.ts) and the list in which its    *)
(* findings are shown and dealt with (lint-view.tsx).  A run reads the pages *)
(* one at a time while they may change; a fix or a deletion answers later,   *)
(* and takes a row of the list away by its number.  Names are equal here     *)
(* when their normalised forms are.                                          *)
(***************************************************************************)
EXTENDS Integers, FiniteSetsExt, SequencesExt

CONSTANTS
  Tree,         \* pages there may be, in the order of the tree: path, base name, title
  Links,        \* references: as written, and their last segment
  MaxLinks,     \* bound: references of a page at first
  MaxRuns,      \* bound: runs of the lint
  MaxActs,      \* bound: fixes of orphans and deletions begun
  MaxEdits      \* bound: changes of pages by others

VARIABLES
  links,        \* the references of each page there is
  listed,       \* names that index.md links to
  run,          \* the run under way: pages left to read, pages read
  results,      \* the findings of the last run that are left
  acting,       \* fixes of orphans and deletions under way
  fixingId,     \* the row whose button is off
  seen,         \* history: what the last run read
  dealt, gone,  \* history: findings of it dealt with, findings taken away
  counts

vars == <<links, listed, run, results, acting, fixingId, seen, dealt, gone, counts>>

Nothing == [nothing |-> TRUE]
Pages == ToSet(Tree)

Init ==
  /\ \E there \in SUBSET Pages : links \in [there -> {L \in SUBSET Links : Cardinality(L) <= MaxLinks}]
  /\ listed = {} /\ run = Nothing /\ results = <<>> /\ acting = {} /\ fixingId = Nothing
  /\ seen = <<>> /\ dealt = {} /\ gone = {} /\ counts = [runs |-> 0, acts |-> 0, edits |-> 0]

-----------------------------------------------------------------------------
\* buildReferenceMap and resolveReferencePath: paths and base names come before
\* titles, earlier pages before later ones, what is written before its last
\* segment.
FirstOf(order, S) ==
  LET at == {i \in DOMAIN order : order[i] \in S} IN IF at = {} THEN Nothing ELSE order[Min(at)]
Named(order, key) == FirstOf(order, {p \in ToSet(order) : key \in {p.path, p.base}})
Find(order, key) ==
  IF Named(order, key) # Nothing THEN Named(order, key) ELSE FirstOf(order, {p \in ToSet(order) : p.title = key})
Resolve(order, link) ==
  IF Find(order, link.full) # Nothing THEN Find(order, link.full) ELSE Find(order, link.base)

\* The inbound count goes to the page that a reference resolves to.  A mutant:
\* to the one it is written like.
InboundAsWritten(order, read) ==
  {p \in ToSet(order) : \E q \in DOMAIN read : \E link \in read[q] : link.full = p.path}
Inbound(order, read) ==
  {p \in ToSet(order) : \E q \in DOMAIN read : \E link \in read[q] : Resolve(order, link) = p}

\* runStructuralLint: an orphan, no references, those that resolve to nothing.
Finding(type, page, link) == [type |-> type, page |-> page, link |-> link]
Warns(finding) == finding.type \in {"broken-link", "semantic"}
OfPage(p, order, read) ==
  (IF p \in Inbound(order, read) THEN <<>> ELSE <<Finding("orphan", p, Nothing)>>)
  \o (IF read[p] = {} THEN <<Finding("no-outlinks", p, Nothing)>> ELSE <<>>)
  \o SetToSeq({Finding("broken-link", p, link) : link \in {l \in read[p] : Resolve(order, l) = Nothing}})
Structural(read) ==
  LET order == SelectSeq(Tree, LAMBDA p : p \in DOMAIN read)
  IN FoldLeft(LAMBDA found, p : found \o OfPage(p, order, read), <<>>, order)

RunLint ==
  /\ run = Nothing /\ counts.runs < MaxRuns
  /\ run' = [left |-> SelectSeq(Tree, LAMBDA p : p \in DOMAIN links), read |-> <<>>]
  /\ results' = <<>> /\ dealt' = {} /\ gone' = {} /\ seen' = <<>>
  /\ counts' = [counts EXCEPT !.runs = @ + 1]
  /\ UNCHANGED <<links, listed, acting, fixingId>>

\* A page that cannot be read, or is gone, is passed over.
Read(fails) ==
  /\ run # Nothing /\ run.left # <<>>
  /\ LET p == Head(run.left) IN
     run' = [left |-> Tail(run.left),
             read |-> IF fails \/ p \notin DOMAIN links THEN run.read
                      ELSE [q \in DOMAIN run.read \cup {p} |-> IF q = p THEN links[p] ELSE run.read[q]]]
  /\ UNCHANGED <<links, listed, results, acting, fixingId, seen, dealt, gone, counts>>

\* runSemanticLint: what the model finds follows what the rules find.
Report(semantic) ==
  /\ run # Nothing /\ run.left = <<>>
  /\ semantic \subseteq DOMAIN run.read /\ Cardinality(semantic) <= 1
  /\ results' = Structural(run.read) \o SetToSeq({Finding("semantic", p, Nothing) : p \in semantic})
  /\ seen' = run.read /\ run' = Nothing
  /\ UNCHANGED <<links, listed, acting, fixingId, dealt, gone, counts>>

-----------------------------------------------------------------------------
\* The list shows the warnings, then the rest; a row is known by its number.
Rows == SelectSeq(results, Warns) \o SelectSeq(results, LAMBDA f : ~Warns(f))
Without(row) == IF row \in DOMAIN results THEN RemoveAt(results, row) ELSE results
Takes(row) == IF row \in DOMAIN results THEN gone \cup {results[row]} ELSE gone
Free(row) == row \in DOMAIN Rows /\ fixingId # [type |-> Rows[row].type, row |-> row]

\* handleFix: an item is added for the user, and the row goes.
Fix(row) ==
  /\ Free(row) /\ Rows[row].type # "orphan"
  /\ dealt' = dealt \cup {Rows[row]} /\ results' = Without(row) /\ gone' = Takes(row) /\ fixingId' = Nothing
  /\ UNCHANGED <<links, listed, run, acting, seen, counts>>

\* An orphan is linked to from index.md; one that cannot be read is begun anew.
FixOrphan(row, fails) ==
  /\ Free(row) /\ Rows[row].type = "orphan"
  /\ acting' = acting \cup {[does |-> "fix", row |-> row, finding |-> Rows[row], listed |-> IF fails THEN {} ELSE listed]}
  /\ fixingId' = [type |-> "orphan", row |-> row]
  /\ counts.acts < MaxActs /\ counts' = [counts EXCEPT !.acts = @ + 1]
  /\ UNCHANGED <<links, listed, run, results, seen, dealt, gone>>
FixAnswered(a, fails) ==
  /\ a \in acting /\ a.does = "fix" /\ acting' = acting \ {a} /\ fixingId' = Nothing
  /\ IF fails THEN UNCHANGED <<listed, results, dealt, gone>>
     ELSE /\ listed' = IF a.finding.page.base \in a.listed THEN listed ELSE a.listed \cup {a.finding.page.base}
          /\ dealt' = dealt \cup {a.finding} /\ results' = Without(a.row) /\ gone' = Takes(a.row)
  /\ UNCHANGED <<links, run, seen, counts>>

\* handleDeleteOrphan: the cascade (WikiWriters) takes the page and what refers
\* to it away.
DeleteOrphan(row) ==
  /\ row \in DOMAIN Rows /\ Rows[row].type = "orphan"
  /\ acting' = acting \cup {[does |-> "delete", row |-> row, finding |-> Rows[row], listed |-> {}]}
  /\ counts.acts < MaxActs /\ counts' = [counts EXCEPT !.acts = @ + 1]
  /\ UNCHANGED <<links, listed, run, results, fixingId, seen, dealt, gone>>
DeleteAnswered(a, fails) ==
  /\ a \in acting /\ a.does = "delete" /\ acting' = acting \ {a}
  /\ IF fails THEN UNCHANGED <<links, listed, results, dealt, gone>>
     ELSE LET p == a.finding.page IN
          /\ links' = [q \in DOMAIN links \ {p} |-> {l \in links[q] : {l.full, l.base} \cap {p.path, p.base, p.title} = {}}]
          /\ listed' = listed \ {p.base}
          /\ dealt' = dealt \cup {a.finding} /\ results' = Without(a.row) /\ gone' = Takes(a.row)
  /\ UNCHANGED <<run, fixingId, seen, counts>>

\* Another writer changes a page, or makes one.
Edit(p, L) ==
  /\ counts.edits < MaxEdits /\ counts' = [counts EXCEPT !.edits = @ + 1]
  /\ links' = [q \in DOMAIN links \cup {p} |-> IF q = p THEN L ELSE links[q]]
  /\ UNCHANGED <<listed, run, results, acting, fixingId, seen, dealt, gone>>

Next ==
  \/ RunLint
  \/ \E fails \in BOOLEAN : Read(fails)
  \/ \E semantic \in SUBSET Pages : Report(semantic)
  \/ \E row \in DOMAIN results : Fix(row) \/ (\E fails \in BOOLEAN : FixOrphan(row, fails)) \/ DeleteOrphan(row)
  \/ \E a \in acting, fails \in BOOLEAN : FixAnswered(a, fails) \/ DeleteAnswered(a, fails)
  \/ \E p \in Pages, link \in Links : Edit(p, {link})

Spec == Init /\ [][Next]_vars

-----------------------------------------------------------------------------
(***************************************************************************)
(* What the lint tells of is so, of the pages it could read: a reference is  *)
(* broken when no page bears what is written or its last segment as a name,  *)
(* and is told of then; an orphan is meant by no name that it bears alone,   *)
(* and a page no reference names in any way is told of (lint.ts:153).        *)
(***************************************************************************)
Bears(p, link) == {link.full, link.base} \cap {p.path, p.base, p.title} # {}
Only(p, link) == Bears(p, link) /\ \A q \in DOMAIN seen \ {p} : ~Bears(q, link)
FindingsAreTrue ==
  LET found == ToSet(results) \cup gone IN
  run = Nothing =>
    /\ \A p \in DOMAIN seen, link \in Links :
         Finding("broken-link", p, link) \in found <=> link \in seen[p] /\ \A q \in DOMAIN seen : ~Bears(q, link)
    /\ \A p \in DOMAIN seen :
         LET told == Finding("orphan", p, Nothing) \in found IN
         /\ told => \A q \in DOMAIN seen : \A link \in seen[q] : ~Only(p, link)
         /\ ~told => \E q \in DOMAIN seen : \E link \in seen[q] : Bears(p, link)

\* Refuted: a row that goes is one that was dealt with ("Remove from results",
\* lint-view.tsx:109).
DealtWithRowsGo == gone \subseteq dealt
=============================================================================

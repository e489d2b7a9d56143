------------------------------ MODULE ConflictGate ------------------------------
(***************************************************************************)
(* The pre-write conflict gate (prewrite-conflict.ts, its resolver, its      *)
(* review items and its audit events) in front of the three ways a page is   *)
(* written - blocks of an ingest, a crystallized query, a page a review asks *)
(* for - and behind the historical patrol (memory-ops-conflicts.ts).  Texts  *)
(* are the sets of their tokens, scores are in hundredths.                   *)
(***************************************************************************)
EXTENDS Integers, FiniteSets, SequencesExt

CONSTANTS
  Stock,        \* claims there may be at first
  Candidates,   \* pages there may be to write
  Wiki,         \* the pages at first, in the order of the tree
  MaxClaims,    \* DEFAULT_MAX_CLAIMS
  MaxEvidence,  \* DEFAULT_MAX_EVIDENCE
  MaxPages,     \* DEFAULT_MAX_PAGES
  MaxStock,     \* bound: claims at first
  MaxMoves      \* bound: candidates checked, claims that change

VARIABLES
  claims,       \* claims.jsonl, a sequence
  pages,        \* the pages of the wiki: their paths and titles
  op,           \* what runs: an origin, the cache of its resolver, its verdict
  items,        \* pages with a review item or a suggestion of the patrol
  events,       \* conflict events of the audit log
  verdicts,     \* history: what each check saw, and said
  moves

vars == <<claims, pages, op, items, events, verdicts, moves>>

Nothing == [nothing |-> TRUE]
NoTitle == "untitled"
NoRelation == "none"
Origins == {"ingest", "crystallize", "create", "patrol"}
Idle == [at |-> "idle"]

Init ==
  /\ claims \in BoundedSeq(Stock, MaxStock)
  /\ \A i, j \in DOMAIN claims : claims[i] = claims[j] => i = j
  /\ pages = Wiki /\ op = Idle
  /\ items = {} /\ events = {} /\ verdicts = {} /\ moves = 0

-----------------------------------------------------------------------------
Highest(S) == CHOOSE x \in S : \A y \in S : y <= x
First(s, n) == SubSeq(s, 1, IF Len(s) <= n THEN Len(s) ELSE n)

\* tokenOverlap and maxClaimTextOverlap.
Overlap(s, t) ==
  LET least == IF Cardinality(s) <= Cardinality(t) THEN Cardinality(s) ELSE Cardinality(t) IN
  IF least = 0 THEN 0 ELSE (100 * Cardinality(s \cap t)) \div least
TextScore(cand, claim) == Highest({Overlap(text, claim.words) : text \in cand.texts} \cup {0})

\* claimRelation; no caller gives its claims relations of their own.
claimRelation(cand, claim) ==
  CASE claim.status = "superseded" -> "superseded-by"
    [] claim.contradicts \cap cand.claims # {} -> "contradicts"
    [] claim.supersedes \cap cand.claims # {} -> "supersedes"
    [] OTHER -> NoRelation

\* claimToEvidence.  A mutant: only what shares words is related.
SharesWords(cand, claim) == TextScore(cand, claim) >= 45
Related(cand, claim) ==
  \/ TextScore(cand, claim) >= 45
  \/ cand.target = claim.page
  \/ claimRelation(cand, claim) # NoRelation
claimToEvidence(cand, claim) ==
  LET relation == claimRelation(cand, claim)
      risky == claim.status \in {"contradicted", "superseded"} \/ relation # NoRelation
  IN [kind |-> IF relation # NoRelation THEN "relation" ELSE "claim", page |-> claim.page, id |-> claim.id,
      status |-> claim.status, relation |-> relation,
      score |-> Highest({TextScore(cand, claim), IF cand.target = claim.page THEN 70 ELSE 0, IF risky THEN 75 ELSE 0})]

\* pageToEvidence.
pageToEvidence(cand, page) ==
  [kind |-> "page", page |-> page.path, id |-> 0, status |-> "ok", relation |-> NoRelation,
   score |-> IF page.path = cand.target THEN 100 ELSE 85]
SamePage(cand, page) == page.path = cand.target \/ (cand.title # NoTitle /\ cand.title = page.title)

\* resolvePreWriteClaimEvidence and resolvePreWritePageEvidence: the best
\* MaxEvidence of each, of the first claims and pages.
Best(evidence) ==
  LET before(a, b) == a.score > b.score \/ (a.score = b.score /\ a.id < b.id)
  IN ToSet(First(SetToSortSeq(evidence, before), MaxEvidence))
ClaimEvidence(cand, seen) ==
  {claimToEvidence(cand, claim) : claim \in {c \in ToSet(First(seen.claims, MaxClaims)) : Related(cand, c)}}
Evidence(cand, seen) ==
  Best(ClaimEvidence(cand, seen)) \cup
  Best({pageToEvidence(cand, page) : page \in {p \in ToSet(seen.pages) : SamePage(cand, p)}})

\* classifyPreWriteConflict.  A mutant: what reinforces is looked for first.
Contradicts(e) == e.status = "contradicted" \/ e.relation = "contradicts"
Supersedes(e) == e.status = "superseded" \/ e.relation \in {"supersedes", "superseded-by"}
Elsewhere(cand, e) == e.page # cand.target /\ (IF e.kind = "page" THEN e.score >= 75 ELSE e.kind = "claim" /\ e.score >= 90)
Reinforces(e) == e.kind = "claim" /\ e.status # "stale" /\ e.score >= 72
ReinforcedFirst(cand, evidence) ==
  CASE \E e \in evidence : Reinforces(e) -> "reinforcement"
    [] \E e \in evidence : Contradicts(e) -> "possible-contradiction"
    [] evidence # {} -> "uncertain"
    [] OTHER -> "new"
Classify(cand, evidence) ==
  CASE \E e \in evidence : Contradicts(e) -> "possible-contradiction"
    [] \E e \in evidence : Supersedes(e) -> "supersession"
    [] \E e \in evidence : Elsewhere(cand, e) -> "duplicate"
    [] \E e \in evidence : Reinforces(e) -> "reinforcement"
    [] \E e \in evidence : e.page = cand.target -> "update"
    [] evidence # {} -> "uncertain"
    [] OTHER -> "new"
Allows(class) == class \in {"reinforcement", "update", "new"}

-----------------------------------------------------------------------------
\* What a check reads: an index or a directory that cannot be read is empty.
\* An ingest and a patrol keep what the first check read.
Reads(fails) ==
  [claims |-> IF "index" \in fails THEN <<>> ELSE claims,
   pages |-> IF "tree" \in fails THEN <<>> ELSE First(pages, MaxPages)]

Begin(origin) ==
  /\ op = Idle /\ moves < MaxMoves
  /\ op' = [at |-> "check", origin |-> origin, cache |-> Nothing]
  /\ UNCHANGED <<claims, pages, items, events, verdicts, moves>>

\* What each origin does with a verdict.  A page that a review asked for tells
\* the log no conflict event, and the item that asked is resolved either way.
\* appendPreWriteConflictAuditEvent: a preview, then what became of it.
Told(cand, class) ==
  {<<cand.target, "preview">>, <<cand.target, IF Allows(class) THEN "accept" ELSE "review">>}
\* preWriteConflictToReviewItem, and the suggestions of the patrol, which takes
\* evidence of the page itself for no conflict.
HandedOn(cand, class, evidence) ==
  /\ ~Allows(class)
  /\ op.origin = "ingest" \/ (op.origin = "patrol" /\ \E e \in evidence : e.page # cand.target)
\* An ingest and a patrol go on with the next page, the others are done.
After(cand, class, kept) ==
  IF op.origin # "patrol" /\ Allows(class) THEN [at |-> "write", origin |-> op.origin, cache |-> kept, cand |-> cand]
  ELSE IF kept # Nothing THEN [op EXCEPT !.cache = kept] ELSE Idle

\* previewPreWriteConflict, as each origin calls it.  No title comes with the
\* blocks of an ingest; the patrol looks at pages there are.
Check(cand, fails) ==
  /\ op.at = "check" /\ moves < MaxMoves
  /\ op.origin = "patrol" => \E i \in DOMAIN pages : pages[i].path = cand.target
  /\ LET asked == IF op.origin = "ingest" THEN [cand EXCEPT !.title = NoTitle] ELSE cand
         seen == IF op.cache = Nothing THEN Reads(fails) ELSE op.cache
         evidence == Evidence(asked, seen)
         class == Classify(asked, evidence) IN
     /\ verdicts' = verdicts \cup {[cand |-> asked, seen |-> seen, class |-> class, origin |-> op.origin]}
     /\ events' = IF op.origin \in {"ingest", "crystallize"} THEN events \cup Told(cand, class) ELSE events
     /\ items' = IF HandedOn(cand, class, evidence) THEN items \cup {cand.target} ELSE items
     /\ op' = After(cand, class, IF op.origin \in {"ingest", "patrol"} THEN seen ELSE Nothing)
  /\ moves' = moves + 1
  /\ UNCHANGED <<claims, pages>>

\* The page is written, then its claims join the index.
Write ==
  /\ op.at = "write"
  /\ pages' = IF \E i \in DOMAIN pages : pages[i].path = op.cand.target THEN pages
              ELSE Append(pages, [path |-> op.cand.target, title |-> op.cand.title])
  /\ claims' = claims \o SetToSeq({[id |-> id, page |-> op.cand.target, words |-> UNION op.cand.texts, status |-> "ok",
                                   contradicts |-> {}, supersedes |-> {}] :
                                  id \in op.cand.claims \ {claims[i].id : i \in DOMAIN claims}})
  /\ op' = IF op.cache = Nothing THEN Idle ELSE [at |-> "check", origin |-> op.origin, cache |-> op.cache]
  /\ UNCHANGED <<items, events, verdicts, moves>>

End == op.at = "check" /\ op' = Idle /\ UNCHANGED <<claims, pages, items, events, verdicts, moves>>

\* A claim is found to be contradicted, or is superseded, meanwhile.
Turn(i, status) ==
  /\ moves < MaxMoves /\ claims[i].status # status
  /\ claims' = [claims EXCEPT ![i].status = status] /\ moves' = moves + 1
  /\ UNCHANGED <<pages, op, items, events, verdicts>>

Next ==
  \/ \E origin \in Origins : Begin(origin)
  \/ \E cand \in Candidates, fails \in {{}, {"index"}, {"tree"}} : Check(cand, fails)
  \/ Write \/ End
  \/ \E i \in DOMAIN claims, status \in {"contradicted", "superseded"} : Turn(i, status)

Spec == Init /\ [][Next]_vars

-----------------------------------------------------------------------------
(***************************************************************************)
(* A write that the gate lets through meets no claim it saw that is on its   *)
(* subject, its page or names its claims, and that is contradicted,          *)
(* superseded or in conflict with it; nor a page of its title; as long as no *)
(* more is found than is kept (prewrite-conflict.ts:113, README.md:315).     *)
(***************************************************************************)
Concerns(v, claim) ==
  \/ \E text \in v.cand.texts : Overlap(text, claim.words) >= 45
  \/ claim.page = v.cand.target
  \/ (claim.contradicts \cup claim.supersedes) \cap v.cand.claims # {}
Doubtful(v, claim) ==
  claim.status \in {"contradicted", "superseded"} \/ (claim.contradicts \cup claim.supersedes) \cap v.cand.claims # {}
Looked(v) == ToSet(First(v.seen.claims, MaxClaims))
Crowded(v) == Cardinality({c \in Looked(v) : Concerns(v, c) \/ c.status = "superseded"}) > MaxEvidence
GateHolds ==
  \A v \in verdicts : Allows(v.class) =>
    /\ ~Crowded(v) => \A c \in Looked(v) : ~(Concerns(v, c) /\ Doubtful(v, c))
    /\ v.cand.title # NoTitle => \A p \in ToSet(v.seen.pages) : p.title = v.cand.title => p.path = v.cand.target

\* Refuted: the same however much is found (README.md:315).
RiskIsReviewed ==
  \A v \in verdicts : Allows(v.class) => \A c \in Looked(v) : ~(Concerns(v, c) /\ Doubtful(v, c))

\* Refuted: a write that has to do with no claim and no page is let through
\* ("safe writes continue", README.md:285).
UnrelatedWritesLand ==
  \A v \in verdicts :
    (\A c \in Looked(v) : ~Concerns(v, c)) /\ (\A p \in ToSet(v.seen.pages) : ~SamePage(v.cand, p)) => Allows(v.class)

\* Refuted: a write that is held back is told of in the log (README.md:285).
HeldBackIsLogged ==
  \A v \in verdicts : v.origin # "patrol" /\ ~Allows(v.class) => <<v.cand.target, "review">> \in events
=============================================================================

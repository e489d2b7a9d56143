----------------------------- MODULE TypedGraph -----------------------------
(***************************************************************************)
(* The graph of a wiki: typed-graph.ts makes edges of the relation lists    *)
(* and wikilinks of the pages and ranks pages by their distance from those  *)
(* a query names.                                                           *)
(***************************************************************************)
EXTENDS Integers, SequencesExt, FiniteSetsExt

CONSTANTS
  Order,     \* page ids as the directory lists them, a sequence
  Alias,     \* a name that is no page's id
  MaxLinks   \* bound: links and relations in the wiki

VARIABLES
  wiki,      \* per page: title, alias, confidence
  links,     \* what pages say of others: [page, field, raw]
  seeds,     \* score of each page the query names, 0 for the others
  queue,     \* graphRankPages: nodes to go on from
  scores,    \* the best score so far of each node reached, and its path
  todo       \* edges of the node at hand not looked at yet

vars == <<wiki, links, seeds, queue, scores, todo>>

None == "none"
Ids == Range(Order)

\* A relation field, the type of its edges and whether it points backwards;
\* "body" are the wikilinks.  The other fields are like "related".
EDGE_FIELDS ==
  [related |-> [type |-> "related_to", reverse |-> FALSE],
   superseded_by |-> [type |-> "supersedes", reverse |-> TRUE], sources |-> [type |-> "derived_from", reverse |-> FALSE],
   body |-> [type |-> "mentions", reverse |-> FALSE]]
\* In tenths.
EDGE_WEIGHTS == [related_to |-> 12, supersedes |-> 13, derived_from |-> 8, mentions |-> 10]

Links == {[page |-> p, field |-> f, raw |-> n] : p \in Ids, f \in DOMAIN EDGE_FIELDS, n \in Ids \cup {Alias}}

Plain == [title |-> None, alias |-> None, confidence |-> 1]

SCALE == 800000
SeedScores == {[n \in Ids |-> IF n = Order[1] THEN 4 ELSE IF n = Order[2] THEN k ELSE 0] : k \in {0, 1}}

\* Names that mean one page each, or a title that is the id of another page and
\* an alias that two pages have.
Init ==
  /\ wiki \in {[n \in Ids |-> Plain],
              (Order[2] :> [Plain EXCEPT !.alias = Alias, !.confidence = 0])
              @@ (Order[3] :> [Plain EXCEPT !.title = Order[1], !.alias = Alias]) @@ [n \in Ids |-> Plain]}
  /\ seeds \in SeedScores
  /\ links \in {Range(f) : f \in [1..MaxLinks -> {l \in Links : l.raw # l.page /\ (l.raw = Alias => l.field = "related")}]}
  /\ queue = <<>> /\ scores = <<>> /\ todo = {}

-----------------------------------------------------------------------------
\* extractTypedGraphFromPages: ids and titles by their last page, then
\* aliases by their first.
ByName(n) == {k \in DOMAIN Order : n \in {Order[k], wiki[Order[k]].title}}
ByAlias(n) == {k \in DOMAIN Order : wiki[Order[k]].alias = n}
resolveTarget(n) ==
  IF ByName(n) # {} THEN Order[Max(ByName(n))]
  ELSE IF ByAlias(n) # {} THEN Order[Min(ByAlias(n))] ELSE None

Edge(from, to, f) == [source |-> from, target |-> to, type |-> EDGE_FIELDS[f].type, explicit |-> f # "body", field |-> f]

\* pushEdge, for the page that says so or, backwards, for the one it names.
EdgesOf(l) ==
  LET other == resolveTarget(l.raw)
      e == IF EDGE_FIELDS[l.field].reverse THEN Edge(other, resolveTarget(l.page), l.field) ELSE Edge(l.page, other, l.field)
  IN IF other = None \/ e.source = e.target THEN {} ELSE {e}
Edges == UNION {EdgesOf(l) : l \in links}

weight(e) ==
  (EDGE_WEIGHTS[e.type] * (IF e.explicit THEN 115 ELSE 100)
     * (IF wiki[e.source].confidence + wiki[e.target].confidence < 2 THEN 75 ELSE 125)) \div 10000

\* adjacency: each edge both ways.
Steps(n) == {[to |-> e.target, weight |-> weight(e)] : e \in {x \in Edges : x.source = n}}
            \cup {[to |-> e.source, weight |-> weight(e)] : e \in {x \in Edges : x.target = n}}

-----------------------------------------------------------------------------
(***************************************************************************)
(* graphRankPages: from the seeds outwards, at most two steps, a node       *)
(* again when a better way to it was found.                                *)
(***************************************************************************)
MAX_DEPTH == 2
\* 0.55 to the power of the depth.
NextScore(score, w, depth) == IF depth = 1 THEN (score * w * 11) \div 200 ELSE (score \div 4000) * w * 121
LEAST == SCALE \div 20

\* findSeedNodes: the nodes whose text the query matches, best first.
Rank ==
  /\ scores = <<>>
  /\ LET found == SetToSortSeq({n \in Ids : seeds[n] > 0}, LAMBDA m, n : seeds[m] > seeds[n]) IN
     /\ queue' = [k \in DOMAIN found |-> [id |-> found[k], depth |-> 0, score |-> seeds[found[k]] * SCALE, path |-> <<found[k]>>]]
     /\ scores' = [n \in Range(found) |-> [score |-> seeds[n] * SCALE, path |-> <<n>>]]
  /\ todo' = {}
  /\ UNCHANGED <<wiki, links, seeds>>

\* The next node, or one that is too far to go on from.
Edgewise(current) == IF current.depth >= MAX_DEPTH THEN {} ELSE Steps(current.id)
Shift ==
  /\ queue # <<>> /\ todo = {}
  /\ \/ /\ Edgewise(Head(queue)) = {}
        /\ queue' = Tail(queue) /\ UNCHANGED todo
     \/ /\ Edgewise(Head(queue)) # {}
        /\ todo' = Edgewise(Head(queue)) /\ UNCHANGED queue
  /\ UNCHANGED <<wiki, links, seeds, scores>>

\* A mutant: whatever way was found first.
FirstFound(n, score) == n \notin DOMAIN scores
Better(n, score) == n \notin DOMAIN scores \/ score > scores[n].score

\* One edge of the node at hand; with the last the node is done.
Relax(e) ==
  /\ e \in todo
  /\ todo' = todo \ {e}
  /\ LET current == Head(queue)
         depth == current.depth + 1
         score == NextScore(current.score, e.weight, depth)
         better == score >= LEAST /\ Better(e.to, score)
         path == Append(current.path, e.to)
         next == IF better THEN Append(queue, [id |-> e.to, depth |-> depth, score |-> score, path |-> path]) ELSE queue
     IN
     /\ scores' = IF better THEN (e.to :> [score |-> score, path |-> path]) @@ scores ELSE scores
     /\ queue' = IF todo = {e} THEN Tail(next) ELSE next
  /\ UNCHANGED <<wiki, links, seeds>>

Next == Shift \/ (Rank) \/ (\E e \in todo : Relax(e))

Spec == Init /\ [][Next]_vars

-----------------------------------------------------------------------------
\* What walks of one and two steps make of the score of a seed, those that
\* fall too low left out.
Legs(s) == {[to |-> e.to, score |-> NextScore(seeds[s] * SCALE, e.weight, 1)] : e \in Steps(s)}
SecondLegs(s) ==
  UNION {{[to |-> e.to, score |-> NextScore(leg.score, e.weight, 2)] : e \in Steps(leg.to)} : leg \in Legs(s)}
Ways(n) ==
  {w.score : w \in {x \in UNION {Legs(s) \cup SecondLegs(s) : s \in {m \in Ids : seeds[m] > 0}} : x.to = n /\ x.score >= LEAST}}
  \cup (IF seeds[n] > 0 THEN {seeds[n] * SCALE} ELSE {})

(***************************************************************************)
(* The search by graph finds to every page the best way of at most two      *)
(* steps from a page the query names, and tells a way that exists           *)
(* (typed-graph.ts:336: a queue, a depth, and scores that may grow or       *)
(* shrink with a step).                                                     *)
(***************************************************************************)
IsWalk(path, n) ==
  /\ seeds[Head(path)] > 0 /\ Last(path) = n /\ Len(path) <= MAX_DEPTH + 1
  /\ \A k \in 1..(Len(path) - 1) : \E e \in Steps(path[k]) : e.to = path[k + 1]
RanksAreBest ==
  scores # <<>> /\ queue = <<>> =>
    \A n \in Ids : IF n \in DOMAIN scores
                     THEN scores[n].score = Max(Ways(n)) /\ IsWalk(scores[n].path, n)
                     ELSE Ways(n) = {}
=============================================================================

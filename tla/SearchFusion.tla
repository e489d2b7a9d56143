---------------------------- MODULE SearchFusion ----------------------------
(***************************************************************************)
(* searchWiki: the pages that match the words of the query, then those the  *)
(* vector index and the typed graph rank, which are read from disk when the *)
(* words missed them, and the ranks are fused.  The files can change between *)
(* the steps, any of the two streams can fail or be off (it is empty then), *)
(* and the graph may be one built earlier.                                  *)
(***************************************************************************)
EXTENDS Integers, SequencesExt, FiniteSetsExt

CONSTANTS
  Pages,        \* a sequence of paths, in the order of their names
  Stem,         \* path -> id
  SixDirs,      \* the pages that lie in one of the six directories looked in
  MaxScore,     \* bound: lexical scores
  MAX_RESULTS,  \* pages shown (20)
  MaxRemovals   \* bound: pages deleted meanwhile

VARIABLES
  files,     \* pages on disk
  at,        \* the step searchWiki is at
  listed,    \* pages in the listing
  lexical,   \* page -> its lexical score for this query, 0: no match
  tokens,    \* pages ranked by lexical score
  results,   \* the candidates, in the order they were found
  vector,    \* ids ranked by the vector index
  graph,     \* ids ranked by the graph
  node,      \* id -> the page the graph has for it
  found,     \* ids whose page was there when a stream asked for it (history)
  top,       \* what is returned
  removals

vars == <<files, at, listed, lexical, tokens, results, vector, graph, node, found,
          top, removals>>

All == ToSet(Pages)
Ids == {Stem[p] : p \in All}
Place(p) == CHOOSE n \in DOMAIN Pages : Pages[n] = p
Rankings == {s \in SeqOf(Ids, 2) : IsInjective(s)}

Init ==
  /\ files \in SUBSET All
  /\ lexical \in [All -> 0..MaxScore]
  /\ node \in {f \in [Ids -> All] : \A i \in Ids : Stem[f[i]] = i}
  /\ at = "list" /\ listed = {} /\ tokens = <<>> /\ results = <<>> /\ top = <<>>
  /\ vector = <<>> /\ graph = <<>> /\ found = {} /\ removals = 0

\* Somebody deletes a page while the search is under way.
Deleted(p) ==
  /\ removals < MaxRemovals /\ p \in files /\ at # "done"
  /\ removals' = removals + 1 /\ files' = files \ {p}
  /\ UNCHANGED <<at, listed, lexical, tokens, results, vector, graph, node, found, top>>

List ==
  /\ at = "list" /\ at' = "read" /\ listed' = files
  /\ UNCHANGED <<files, lexical, tokens, results, vector, graph, node, found, top, removals>>

\* searchFiles: a page that cannot be read any more is passed over.
Matching == {p \in listed \cap files : lexical[p] > 0}
InOrder(S) == SetToSortSeq(S, LAMBDA p, q : Place(p) < Place(q))
Read ==
  /\ at = "read" /\ at' = "vector"
  /\ results' = InOrder(Matching)
  /\ tokens' = SetToSortSeq(Matching, LAMBDA p, q : lexical[p] > lexical[q] \/ (lexical[p] = lexical[q] /\ Place(p) < Place(q)))
  /\ UNCHANGED <<files, listed, lexical, vector, graph, node, found, top, removals>>

-----------------------------------------------------------------------------
\* Ids ranked by a stream come in as pages, unless a page of that name is a
\* candidate already (a mutant: always).  pageOf is what the stream reads.
JoinsAlways(i, out) == TRUE
Joins(i, out) == \A n \in DOMAIN out : Stem[out[n]] # i
Materialized(ids, pageOf) ==
  FoldLeft(LAMBDA out, i : IF Joins(i, out) /\ pageOf[i] \cap files # {}
                           THEN Append(out, CHOOSE p \in pageOf[i] : p \in files) ELSE out,
           results, ids)

\* The vector stream tries the six directories, the graph the path it has.
InSixDirs(i) ==
  LET there == {p \in SixDirs \cap files : Stem[p] = i}
  IN IF there = {} THEN {} ELSE {InOrder(there)[1]}
OfNode(i) == {node[i]}

\* With embeddings off the stream is empty, and so it is when it fails.
Vector ==
  /\ at = "vector" /\ at' = "graph"
  /\ \E ids \in Rankings :
       /\ vector' = ids
       /\ results' = Materialized(ids, [i \in ToSet(ids) |-> InSixDirs(i)])
       /\ found' = {i \in ToSet(ids) : InSixDirs(i) # {}}
  /\ UNCHANGED <<files, listed, lexical, tokens, graph, node, top, removals>>

Graph ==
  /\ at = "graph" /\ at' = "fuse"
  /\ \E ids \in Rankings :
       /\ graph' = ids
       /\ results' = Materialized(ids, [i \in ToSet(ids) |-> OfNode(i)])
       /\ found' = found \cup {i \in ToSet(ids) : node[i] \in files}
  /\ UNCHANGED <<files, listed, lexical, tokens, vector, node, top, removals>>

-----------------------------------------------------------------------------
\* Reciprocal rank fusion, 1 / (K + rank) in millionths; a stream that does
\* not have the page adds nothing (a mutant: as if it were above the first).
\* The BM25 rank only counts for a page without a lexical one, and there is
\* none: a word of the one is found anywhere in the text by the other.
RRF_K == 60
rrfAbsentFirst(rank) == 1000000 \div (RRF_K + rank)
rrfContribution(rank) == IF rank = 0 THEN 0 ELSE 1000000 \div (RRF_K + rank)

RankIn(s, x) == IF x \in ToSet(s) THEN CHOOSE n \in DOMAIN s : s[n] = x ELSE 0
Ranks(p) == <<RankIn(tokens, p), RankIn(vector, Stem[p]), RankIn(graph, Stem[p])>>
Fused(p) == FoldLeft(LAMBDA sum, rank : sum + rrfContribution(rank), 0, Ranks(p))

\* Sorted by that, ties by path, and cut.
Before(p, q) == Fused(p) > Fused(q) \/ (Fused(p) = Fused(q) /\ Place(p) < Place(q))
Cut(s) == IF Len(s) > MAX_RESULTS THEN SubSeq(s, 1, MAX_RESULTS) ELSE s
Fuse ==
  /\ at = "fuse" /\ at' = "done"
  /\ top' = Cut(SetToSortSeq(ToSet(results), Before))
  /\ UNCHANGED <<files, listed, lexical, tokens, results, vector, graph, node, found, removals>>

Next == List \/ Read \/ Vector \/ Graph \/ Fuse \/ \E p \in All : Deleted(p)
Spec == Init /\ [][Next]_vars /\ WF_vars(List \/ Read \/ Vector \/ Graph \/ Fuse)

-----------------------------------------------------------------------------
(***************************************************************************)
(* Three streams find the same pages: none is a candidate twice, and every  *)
(* page a stream ranked, and that was there, is one, or another of its name.*)
(***************************************************************************)
StreamsMeetOnce ==
  /\ IsInjective(results)
  /\ \A i \in found : \E n \in DOMAIN results : Stem[results[n]] = i

(***************************************************************************)
(* A page no stream ranks lower than another, and some stream higher, comes *)
(* before it, also over the cut.                                           *)
(***************************************************************************)
NoLower(r, s) == s = 0 \/ (r # 0 /\ r <= s)
Dominates(p, q) ==
  /\ \A k \in 1..3 : NoLower(Ranks(p)[k], Ranks(q)[k])
  /\ Ranks(p) # Ranks(q)
BetterComesFirst ==
  at = "done" =>
    \A m, n \in DOMAIN results : Dominates(results[m], results[n]) /\ results[n] \in ToSet(top) =>
      /\ results[m] \in ToSet(top)
      /\ RankIn(top, results[m]) < RankIn(top, results[n])
=============================================================================

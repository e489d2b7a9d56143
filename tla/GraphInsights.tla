---------------------------- MODULE GraphInsights ----------------------------
(***************************************************************************)
(* The graph view: links and relations become one edge per two pages        *)
(* (wiki-graph.ts), communities are found, surprising connections and gaps  *)
(* are told (graph-insights.ts), the user filters, highlights and dismisses *)
(* (graph-filters.ts, graph-view.tsx), and the view loads again whenever    *)
(* the wiki changed.                                                        *)
(***************************************************************************)
EXTENDS Integers, Sequences, FiniteSetsExt

CONSTANTS
  Nodes,       \* pages that are no queries
  Structural,  \* those of them that link to everything: index, log, overview
  Types,       \* types of edges
  MaxEdges,    \* bound: links and relations over all loads
  MaxHidden    \* bound: pages hidden at a time

VARIABLES
  raw,         \* links and relations of this load, in order
  edges,       \* types of each edge, by the pair as first met
  stage,       \* "load" or "shown"
  community,   \* of each page
  dismissed,   \* keys of dismissed insights
  highlighted, \* pages highlighted
  hidden,      \* pages the user hid, and whether structural ones are hidden
  total,
  sent         \* history: the pairs of pages whose insight was dismissed

vars == <<raw, edges, stage, community, dismissed, highlighted, hidden, total, sent>>

Init ==
  /\ raw = <<>> /\ edges = <<>> /\ stage = "load" /\ community = [n \in Nodes |-> n]
  /\ dismissed = {} /\ highlighted = {} /\ hidden = [nodes |-> {}, structural |-> TRUE]
  /\ total = 0 /\ sent = {}

\* The key an edge goes under: the other way round when that is there.
\* A mutant: always its own way.
OwnWay(m, n) == <<m, n>>
KeyOf(m, n) == IF <<n, m>> \in DOMAIN edges THEN <<n, m>> ELSE <<m, n>>

\* buildWikiGraph: the next link or relation of a page to another.
Link(m, n, type) ==
  /\ stage = "load" /\ m # n /\ total < MaxEdges
  /\ total' = total + 1
  /\ raw' = Append(raw, [source |-> m, target |-> n, type |-> type])
  /\ edges' = [k \in DOMAIN edges \cup {KeyOf(m, n)} |->
       (IF k \in DOMAIN edges THEN edges[k] ELSE {}) \cup IF k = KeyOf(m, n) THEN {type} ELSE {}]
  /\ UNCHANGED <<stage, community, dismissed, highlighted, hidden, sent>>

linkCount(n) == Cardinality({j \in DOMAIN raw : n \in {raw[j].source, raw[j].target}})

\* detectCommunities: whatever Leiden makes of it.
Show(assignment) ==
  /\ stage = "load"
  /\ stage' = "shown" /\ community' = assignment
  /\ UNCHANGED <<raw, edges, dismissed, highlighted, hidden, total, sent>>

\* loadGraph: the view keeps what the user chose.
Load ==
  /\ stage = "shown" /\ total < MaxEdges
  /\ stage' = "load" /\ raw' = <<>> /\ edges' = <<>>
  /\ UNCHANGED <<community, dismissed, highlighted, hidden, total, sent>>

-----------------------------------------------------------------------------
\* findSurprisingConnections: an edge across communities, or from a page with
\* few links to one with many that is also weak; structural pages aside.  The
\* key is that of the two pages, sorted.
Most == Max({1} \cup {linkCount(n) : n \in Nodes})
Hub(k) ==
  /\ linkCount(k[1]) <= 2 \/ linkCount(k[2]) <= 2
  /\ 2 * linkCount(k[1]) >= Most \/ 2 * linkCount(k[2]) >= Most
Surprising(k) ==
  /\ k[1] \notin Structural /\ k[2] \notin Structural
  /\ community[k[1]] # community[k[2]] \/ (Hub(k) /\ Cardinality(edges[k]) = 1)
\* A mutant: the pages as they stand.
Unsorted(k) == k
InsightKey(k) == {k[1], k[2]}
Connections == {k \in DOMAIN edges : stage = "shown" /\ Surprising(k) /\ InsightKey(k) \notin dismissed}

\* detectKnowledgeGaps: pages with one link or none, communities of three
\* pages or more with no edge within, and pages between three communities.
Isolated == {n \in Nodes \ Structural : linkCount(n) <= 1}
Neighbours(n) == {m \in Nodes : \E k \in DOMAIN edges : {m, n} = {k[1], k[2]}}
Members(c) == {n \in Nodes : community[n] = c}
Sparse == {c \in Range(community) : Cardinality(Members(c)) >= 3 /\ \A k \in DOMAIN edges : ~({k[1], k[2]} \subseteq Members(c))}
Bridges == {n \in Nodes \ Structural : Cardinality({community[m] : m \in Neighbours(n)}) >= 3}
Gaps == (IF Isolated = {} THEN {} ELSE {Isolated}) \cup {Members(c) : c \in Sparse} \cup {{n} : n \in Bridges}

\* applyGraphFilters
Visible == {n \in Nodes : n \notin hidden.nodes /\ (hidden.structural => n \notin Structural)}
VisibleEdges == {k \in DOMAIN edges : {k[1], k[2]} \subseteq Visible}

-----------------------------------------------------------------------------
Dismiss(k) ==
  /\ dismissed' = dismissed \cup {InsightKey(k)}
  /\ sent' = sent \cup {{k[1], k[2]}}
  /\ highlighted' = IF highlighted = {k[1], k[2]} THEN {} ELSE highlighted
  /\ UNCHANGED <<raw, edges, stage, community, hidden, total>>

Highlight(ids) ==
  /\ highlighted' = IF highlighted = ids THEN {} ELSE ids
  /\ UNCHANGED <<raw, edges, stage, community, dismissed, hidden, total, sent>>

Hide(n) ==
  /\ stage = "shown" /\ n \in Visible /\ Cardinality(hidden.nodes) < MaxHidden
  /\ hidden' = [hidden EXCEPT !.nodes = @ \cup {n}]
  /\ UNCHANGED <<raw, edges, stage, community, dismissed, highlighted, total, sent>>

resetFilters ==
  /\ hidden.nodes # {}
  /\ hidden' = [nodes |-> {}, structural |-> TRUE]
  /\ UNCHANGED <<raw, edges, stage, community, dismissed, highlighted, total, sent>>

\* Two of the groupings Leiden can find, named by a member: one, or a page each.
First == CHOOSE n \in Nodes : TRUE
Communities == {[n \in Nodes |-> n], [n \in Nodes |-> First]}

Next ==
  \/ \E m, n \in Nodes, t \in Types : Link(m, n, t)
  \/ \E f \in Communities : Show(f)
  \/ Load \/ resetFilters
  \/ \E k \in Connections : Dismiss(k)
  \/ stage = "shown" /\ \E ids \in Gaps \cup {{k[1], k[2]} : k \in Connections} : Highlight(ids)
  \/ \E n \in Nodes : Hide(n)

Spec == Init /\ [][Next]_vars

-----------------------------------------------------------------------------
(***************************************************************************)
(* Two pages have one edge, with every type of link there is between them   *)
(* either way; a page told to be isolated has one neighbour at most, and    *)
(* an insight dismissed does not come back when the pages are linked the    *)
(* other way round or by more links (wiki-graph.ts:268, graph-insights.ts). *)
(***************************************************************************)
OneEdgePerPair ==
  /\ \A k \in DOMAIN edges : <<k[2], k[1]>> \notin DOMAIN edges
  /\ \A e \in Range(raw) : \E k \in DOMAIN edges : {k[1], k[2]} = {e.source, e.target} /\ e.type \in edges[k]
  /\ \A n \in Isolated : Cardinality(Neighbours(n)) <= 1
  /\ \A k \in Connections : {k[1], k[2]} \notin sent
=============================================================================

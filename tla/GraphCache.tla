----------------------------- MODULE GraphCache -----------------------------
(***************************************************************************)
(* The graph for searches (typed-graph.ts), for chats and for the weights   *)
(* of the graph view (graph-relevance.ts) is built from all pages of the    *)
(* wiki, and kept for as long as the store's dataVersion stays what it was  *)
(* when it was asked for.  Whoever writes pages bumps dataVersion after.    *)
(* The two caches work alike; this is one of them.                          *)
(***************************************************************************)
EXTENDS Naturals, Functions, FiniteSets

CONSTANTS
  Projects, Pages, Askers,  \* projects, page names, searches and chats
  MaxWrites,                \* bound: writes of a page
  MaxBumps,                 \* bound: dataVersion
  MaxSwitches               \* bound: switches of the project

VARIABLES
  project,      \* the project that is open
  pages,        \* per project and page how often it was written, the wiki
  dataVersion,
  cachedGraph,  \* [path, version, graph], or Nothing
  asker,        \* per search or chat turn what it is at
  switches,
  noted         \* history: the pages as of the last bump

vars == <<project, pages, dataVersion, cachedGraph, asker, switches, noted>>

Nothing == [path |-> "nothing"]
Idle == [at |-> "idle"]

Init ==
  /\ project \in Projects
  /\ pages = [x \in Projects |-> [p \in Pages |-> 0]]
  /\ dataVersion = 0 /\ cachedGraph = Nothing
  /\ asker = [a \in Askers |-> Idle] /\ switches = 0
  /\ noted = pages

Sum(f) == LET s[S \in SUBSET DOMAIN f] == IF S = {} THEN 0 ELSE LET x == CHOOSE y \in S : TRUE IN f[x] + s[S \ {x}] IN s[DOMAIN f]

\* An ingest, a merge, a repair: a page of a project, open or not any more.
Write(x, p) ==
  /\ Sum([y \in Projects |-> Sum(pages[y])]) < MaxWrites
  /\ pages' = [pages EXCEPT ![x][p] = @ + 1]
  /\ UNCHANGED <<project, dataVersion, cachedGraph, asker, switches, noted>>

bumpDataVersion ==
  /\ dataVersion < MaxBumps
  /\ dataVersion' = dataVersion + 1
  /\ noted' = pages
  /\ UNCHANGED <<project, pages, cachedGraph, asker, switches>>

\* resetProjectState: clearGraphCache and clearTypedGraphCache; a build that
\* is under way goes on.
Switch(x) ==
  /\ x # project /\ switches < MaxSwitches
  /\ switches' = switches + 1
  /\ project' = x /\ cachedGraph' = Nothing
  /\ UNCHANGED <<pages, dataVersion, asker, noted>>

-----------------------------------------------------------------------------
\* A search or a chat turn begins: it takes the project and dataVersion.
Ask(a) ==
  /\ asker[a].at = "idle"
  /\ asker' = [asker EXCEPT ![a] = [at |-> "asked", path |-> project, version |-> dataVersion, floor |-> noted[project]]]
  /\ UNCHANGED <<project, pages, dataVersion, cachedGraph, switches, noted>>

\* A mutant: the version alone tells.
SameVersion(a) == cachedGraph.version = asker[a].version
Hit(a) == cachedGraph.version = asker[a].version /\ cachedGraph.path = asker[a].path

\* buildTypedGraph, buildRetrievalGraph: the graph kept, or the pages to read.
Build(a) ==
  /\ asker[a].at = "asked"
  /\ asker' = [asker EXCEPT ![a] =
       IF cachedGraph # Nothing /\ Hit(a)
         THEN [at |-> "got", floor |-> @.floor, path |-> @.path, graph |-> cachedGraph.graph, of |-> cachedGraph.path]
         ELSE [at |-> "reading", floor |-> @.floor, path |-> @.path, version |-> @.version, graph |-> <<>>]]
  /\ UNCHANGED <<project, pages, dataVersion, cachedGraph, switches, noted>>

ReadPage(a, p) ==
  /\ asker[a].at = "reading" /\ p \notin DOMAIN asker[a].graph
  /\ asker' = [asker EXCEPT ![a].graph = [q \in DOMAIN @ \cup {p} |-> IF q = p THEN pages[asker[a].path][p] ELSE @[q]]]
  /\ UNCHANGED <<project, pages, dataVersion, cachedGraph, switches, noted>>

\* The graph is kept under the version it was asked for.  A mutant: under the
\* one there is by now.
VersionNow(a) == dataVersion
VersionOf(a) == asker[a].version
Built(a) ==
  /\ asker[a].at = "reading" /\ DOMAIN asker[a].graph = Pages
  /\ cachedGraph' = [path |-> asker[a].path, version |-> VersionOf(a), graph |-> asker[a].graph]
  /\ asker' = [asker EXCEPT ![a] = [at |-> "got", floor |-> @.floor, path |-> @.path, graph |-> @.graph, of |-> @.path]]
  /\ UNCHANGED <<project, pages, dataVersion, switches, noted>>

Use(a) ==
  /\ asker[a].at = "got"
  /\ asker' = [asker EXCEPT ![a] = Idle]
  /\ UNCHANGED <<project, pages, dataVersion, cachedGraph, switches, noted>>

Next ==
  \/ bumpDataVersion
  \/ \E x \in Projects : Switch(x) \/ \E p \in Pages : Write(x, p)
  \/ \E a \in Askers : Ask(a) \/ Build(a) \/ Built(a) \/ Use(a) \/ \E p \in Pages : ReadPage(a, p)

Spec == Init /\ [][Next]_vars

-----------------------------------------------------------------------------
(***************************************************************************)
(* A search sees what was announced before it began: the graph it gets is   *)
(* of its own project, and has every page at least as it was at the last    *)
(* bump of dataVersion, also when another search built it, before or after  *)
(* that bump, and whichever finished first (typed-graph.ts:260,             *)
(* graph-relevance.ts:160).                                                 *)
(***************************************************************************)
GraphsAreCurrent ==
  \A a \in Askers : asker[a].at = "got" =>
    asker[a].of = asker[a].path /\ \A p \in Pages : asker[a].graph[p] >= asker[a].floor[p]
=============================================================================

---------------------------- MODULE SearchHealth ----------------------------
(***************************************************************************)
(* The search health check: the scenarios of the project's own file are     *)
(* normalised one after another (search-health-scenarios.ts), joined to the *)
(* built-in ones (search-health.ts), each is run as a search and judged     *)
(* (search-eval.ts), and the report is written, logged and shown.           *)
(***************************************************************************)
EXTENDS Naturals, SequencesExt, FiniteSetsExt

CONSTANTS
  BuiltIn,     \* ids of the built-in scenarios there can be
  MaxRecords,  \* bound: records of the file
  MaxRank      \* bound: ranks and topK

VARIABLES
  records,    \* the file: what each record says
  builtIn,    \* the built-in scenarios this wiki has pages for
  at,         \* "normalize", "run", "done"
  next,       \* the record the loop is at
  scenarios,  \* scenarios so far, [id, says, topK]
  skipped,    \* ids passed over
  custom,     \* customScenarioCount
  verdicts,   \* scenarios judged so far
  status, report \* of the run; the report is on disk

vars == <<records, builtIn, at, next, scenarios, skipped, custom, verdicts, status, report>>

\* Ids: those of the built-in scenarios, and custom-1, custom-2, ... which a
\* record without an id gets from its place, and another may have by name.
\* No id is 0.  A record lacks a query or an expectation, has a bad topK or
\* path, or wants a page within the first topK or beyond them.
Flaws == {"query", "topK", "path", "nothing"}
Records == [id : (0..MaxRecords) \cup BuiltIn, says : Flaws \cup {"inside", "outside"}, topK : 1..MaxRank]

Init ==
  /\ records \in UNION {[1..n -> {r \in Records : r.says \in {"inside", "outside"} \/ r.topK = 1}] : n \in 0..MaxRecords}
  /\ builtIn \in SUBSET BuiltIn
  /\ at = "normalize" /\ next = 1 /\ scenarios = <<>> /\ skipped = <<>>
  /\ custom = 0 /\ verdicts = <<>> /\ status = "none" /\ report = FALSE

\* loadSearchHealthScenarioConfig: a file that is missing or no JSON has none.
\* normalizeSearchHealthScenarioConfig: the id given, or the next free one.
IdOf(r) == IF r.id # 0 THEN r.id ELSE Len(scenarios) + Len(skipped) + 1
Kept(id) == \E n \in DOMAIN scenarios : scenarios[n].id = id

Rejected(r) == r.says \in Flaws \/ Kept(IdOf(r))
\* A mutant: only a kept record counts.
SkipForgotten(id) == skipped
SkipNoted(id) == Append(skipped, id)
Normalize ==
  /\ at = "normalize" /\ next \in DOMAIN records
  /\ LET r == records[next] IN
     /\ scenarios' = IF Rejected(r) THEN scenarios ELSE Append(scenarios, [id |-> IdOf(r), says |-> r.says, topK |-> r.topK])
     /\ skipped' = IF Rejected(r) THEN SkipNoted(IdOf(r)) ELSE skipped
  /\ next' = next + 1
  /\ UNCHANGED <<records, builtIn, at, custom, verdicts, status, report>>

\* combineSearchHealthScenarios: the built-in ones first, those there are no
\* pages for are skipped; a custom one of the same name is skipped as well.
OfBuiltIn(id) == [id |-> id, says |-> "inside", topK |-> 1]
Combine ==
  /\ at = "normalize" /\ next = Len(records) + 1
  /\ at' = "run"
  /\ LET own == SelectSeq(scenarios, LAMBDA s : s.id \notin builtIn)
         same == SelectSeq(scenarios, LAMBDA s : s.id \in builtIn)
     IN
     /\ scenarios' = [n \in 1..Cardinality(builtIn) |-> OfBuiltIn(SetToSeq(builtIn)[n])] \o own
     /\ skipped' = skipped \o [n \in DOMAIN same |-> same[n].id] \o SetToSeq(BuiltIn \ builtIn)
     /\ custom' = Len(own)
  /\ UNCHANGED <<records, builtIn, next, verdicts, status, report>>

-----------------------------------------------------------------------------
\* evaluateScenario, with the page at that rank, 0 when the search does not
\* return it.
Passed(s, rank) ==
  IF s.says = "inside" THEN rank # 0 /\ rank <= s.topK ELSE rank = 0 \/ rank > s.topK

\* runSearchEval; nothing to run is "skipped".
Run ==
  /\ at = "run" /\ Len(verdicts) < Len(scenarios)
  /\ \E rank \in 0..(MaxRank + 1) :
       verdicts' = Append(verdicts, [rank |-> rank, passed |-> Passed(scenarios[Len(verdicts) + 1], rank)])
  /\ UNCHANGED <<records, builtIn, at, next, scenarios, skipped, custom, status, report>>

Failed == {n \in DOMAIN verdicts : ~verdicts[n].passed}
\* A mutant: the first verdict is the run's.
StatusOfFirst == IF scenarios = <<>> THEN "skipped" ELSE IF 1 \notin Failed THEN "pass" ELSE "fail"
StatusOf == IF scenarios = <<>> THEN "skipped" ELSE IF Failed = {} THEN "pass" ELSE "fail"
Judge ==
  /\ at = "run" /\ Len(verdicts) = Len(scenarios)
  /\ at' = "done"
  /\ status' = StatusOf
  /\ report' \in IF scenarios = <<>> THEN {FALSE} ELSE BOOLEAN
  /\ UNCHANGED <<records, builtIn, next, scenarios, skipped, custom, verdicts>>

Next == Normalize \/ Combine \/ Run \/ Judge
Spec == Init /\ [][Next]_vars /\ WF_vars(Next)

-----------------------------------------------------------------------------
(***************************************************************************)
(* Every record of the file and every built-in scenario is run or named as  *)
(* skipped, no two that are run share an id, and "pass" means that each of  *)
(* them was judged and passed.                                             *)
(***************************************************************************)
ScenariosAreAccountedFor ==
  at = "done" =>
    /\ Len(scenarios) + Len(skipped) = Len(records) + Cardinality(BuiltIn)
    /\ custom = Len(scenarios) - Cardinality(builtIn)
    /\ \A m, n \in DOMAIN scenarios : scenarios[m].id = scenarios[n].id => m = n
    /\ (status = "pass") <=>
         (scenarios # <<>> /\ \A n \in DOMAIN scenarios : Passed(scenarios[n], verdicts[n].rank))
=============================================================================

---------------------------- MODULE SchemaQuality ----------------------------
(***************************************************************************)
(* The Schema & Quality scan: schema.md holds a contract, laid over the     *)
(* built-in one (schema-contract.ts); each page is held against it          *)
(* (schema-drift.ts) and scored (page-quality.ts); the Maintenance page      *)
(* shows what was found with the front matter patches that would mend it,   *)
(* and applies those the user takes to the pages as they are by then.       *)
(***************************************************************************)
EXTENDS Integers, FiniteSetsExt, SequencesExt

CONSTANTS
  Pages,     \* page ids
  Varied,    \* the pages that may start with faults
  MaxEdits,  \* bound: edits of pages, of schema.md, deletions
  MaxScans   \* bound: scans

VARIABLES
  schema,   \* what schema.md says: Nil, "broken" or the name of a block
  pages,    \* the pages of the wiki
  read,     \* what the running scan has read so far
  left,     \* what it has yet to read: pages, and "schema"
  report,   \* what the Maintenance page shows of the last scan
  edits, scans,
  changed,  \* history: something was edited, deleted or not read since the
            \* scan began
  mended    \* history: the findings of the report whose patch was applied

vars == <<schema, pages, read, left, report, edits, scans, changed, mended>>

Nil == "none"
Unset == -1

-----------------------------------------------------------------------------
(***************************************************************************)
(* The contract.                                                           *)
(***************************************************************************)
Field(kind, required) == [kind |-> kind, required |-> required, values |-> {}]
Type == [kind |-> "enum", required |-> TRUE, values |-> {"entity", "concept", "overview"}]

Bad == [name |-> Nil]
DEFAULT ==
  [fields |-> [type |-> Type, title |-> Field("string", TRUE), tags |-> Field("string-array", TRUE),
               created |-> Field("date", TRUE), uses |-> Field("string-array", FALSE)],
   types |-> [entity |-> "entities", concept |-> "concepts", overview |-> "wiki"],
   relations |-> {"uses"}, minQuality |-> 55, minRelations |-> 1]

\* A block names fields and types, each item valid or Bad, and the rest as
\* it stands or Unset for what is missing or no use.
Blocks ==
  [sparse |-> [fields |-> <<>>, types |-> <<>>, relations |-> {}, minQuality |-> Unset, minRelations |-> 2],
   other |-> [fields |-> <<Bad, [name |-> "tags", says |-> Field("string-array", FALSE)]>>,
              types |-> <<[name |-> "entity", says |-> "concepts"], Bad>>,
              relations |-> {"cites"}, minQuality |-> 90, minRelations |-> Unset],
   odd |-> [fields |-> <<[name |-> "type", says |-> [Type EXCEPT !.values = {}]],
                         [name |-> "uses", says |-> Field("string", TRUE)]>>,
            types |-> <<>>, relations |-> {"uses", "cites"}, minQuality |-> 30, minRelations |-> Unset]]

\* normalizePageTypes, normalizeFrontmatterFields: item by item over the
\* built-in ones; a bad item is skipped.
Merged(builtIn, items) ==
  FoldLeft(LAMBDA m, i : IF i = Bad THEN m ELSE (i.name :> i.says) @@ m, builtIn, items)

OrDefault(value, default) == IF value = Unset THEN default ELSE value

\* typedRelationFields: only the known ones, and those when none is left.
Relations(named) == IF named \cap DEFAULT.relations = {} THEN DEFAULT.relations ELSE named \cap DEFAULT.relations

normalizeSchemaContract(b) ==
  [fields |-> Merged(DEFAULT.fields, b.fields), types |-> Merged(DEFAULT.types, b.types),
   relations |-> Relations(b.relations), minQuality |-> OrDefault(b.minQuality, DEFAULT.minQuality),
   minRelations |-> OrDefault(b.minRelations, DEFAULT.minRelations)]

parseSchemaContract(s) == IF s \in DOMAIN Blocks THEN normalizeSchemaContract(Blocks[s]) ELSE DEFAULT

-----------------------------------------------------------------------------
(***************************************************************************)
(* Pages.  A value is absent, a scalar or an array of items; a relation's   *)
(* items name a page by its id, or come close to the name of one, or to     *)
(* none.  `fm` is FALSE when no front matter can be parsed.  The rest is    *)
(* what the score looks at.                                                 *)
(***************************************************************************)
Absent == [shape |-> "absent", items |-> {}]
Scalar(item) == [shape |-> "scalar", items |-> {item}]
Blank == [shape |-> "scalar", items |-> {}]
Array(items) == [shape |-> "array", items |-> items]
IsEmpty(v) == v.items = {}

To(p) == [page |-> p, exact |-> TRUE]
Near(p) == [page |-> p, exact |-> FALSE]
Ghost == [page |-> Nil, exact |-> FALSE]
NoTarget == [page |-> Nil, exact |-> TRUE]

FieldNames == {"type", "title", "tags", "created", "uses"}
Good(p) ==
  [dir |-> "entities", fm |-> TRUE, body |-> 65, sources |-> 1, governed |-> 60,
   quality |-> Unset, review |-> "ok",
   fields |-> [type |-> Scalar("entity"), title |-> Scalar("text"), tags |-> Array({"text"}),
               created |-> Scalar("day"), uses |-> Array({})]]

Uses == {Absent, Scalar(Ghost)}
        \cup {Array(S) : S \in SUBSET ({To(p) : p \in Pages} \cup {Near(p) : p \in Pages} \cup {Ghost})}
Faulty(p) ==
  {[Good(p) EXCEPT !.fields.type = y] : y \in {Absent, Scalar("other"), Scalar("concept")}}
  \cup {[Good(p) EXCEPT !.fields.uses = u] : u \in Uses}
  \cup {[Good(p) EXCEPT !.fields.title = y, !.fields.tags = g, !.fields.created = d] :
          y \in {Absent, Blank, Array({"text"})}, g \in {Absent, Array({}), Scalar("text")},
          d \in {Absent, Scalar("text")}}
  \cup {[Good(p) EXCEPT !.body = b, !.sources = n, !.governed = 40 - b, !.quality = q, !.review = r] :
          b \in {0, 40}, n \in {0, 2}, q \in {Unset, 20, 44, 100}, r \in {Nil, "ok", "contradicted"}}
  \cup {[Good(p) EXCEPT !.fm = FALSE]}

Init ==
  /\ schema \in DOMAIN Blocks \cup {Nil, "broken"}
  /\ pages \in {f \in [Pages -> UNION {Faulty(p) \cup {Good(p)} : p \in Pages}] : \A p \in Pages \ Varied : f[p] = Good(p)}
  /\ read = <<>> /\ left = {} /\ report = {} /\ edits = 0 /\ scans = 0 /\ changed = FALSE /\ mended = {}

-----------------------------------------------------------------------------
(***************************************************************************)
(* What the scan finds, each with the fields of the patch it proposes.      *)
(***************************************************************************)
Finding(kind, p, field, target, patch) ==
  [kind |-> kind, page |-> p, field |-> field, target |-> target, patch |-> patch]

\* inferMissingRequiredFieldValue
Inferred(page, name, kind) ==
  IF kind = "string-array" THEN name :> Array({})
  ELSE IF name = "title" THEN name :> Scalar("text")
  ELSE IF name = "type" THEN name :> Scalar(IF page.dir = "entities" THEN "entity" ELSE "concept")
  ELSE <<>>

\* validateFieldValue: nothing, or the fault.
validateFieldValue(p, name, f, v) ==
  IF f.kind = "string-array" THEN
    IF v.shape = "scalar" THEN {Finding("kind", p, name, NoTarget, name :> Array(v.items))} ELSE {}
  ELSE IF v.shape = "array" THEN {Finding("kind", p, name, NoTarget, <<>>)}
  ELSE IF \E i \in v.items : (f.kind = "date" /\ i # "day") \/ (f.kind = "enum" /\ i \notin f.values)
    THEN {Finding("value", p, name, NoTarget, <<>>)} ELSE {}

FieldFindings(p, page, c) ==
  UNION {LET f == c.fields[name]  v == page.fields[name] IN
         IF f.required /\ IsEmpty(v) THEN {Finding("missing", p, name, NoTarget, Inferred(page, name, f.kind))}
         ELSE IF v.shape = "absent" THEN {}
         ELSE validateFieldValue(p, name, f, v) : name \in FieldNames}

\* validatePageTypeAndPath
TypeFindings(p, page, c) ==
  {Finding(IF t \in DOMAIN c.types THEN "place" ELSE "unknown", p, "type", NoTarget, <<>>) :
     t \in {i \in page.fields.type.items : i \in DOMAIN c.types => c.types[i] \notin {page.dir, "wiki"}}}

\* relationReplacementOperation: the list as the scan read it, one name
\* replaced by the id of the candidate.  A mutant: the candidate alone.
ReplacedOnly(v, target) == Array({To(target.page)})
Replaced(v, target) == Array((v.items \ {target}) \cup {To(target.page)})

\* validateTypedRelationTargets: a target names a page that was read, or has
\* one for a candidate, or neither.
RelationFindings(p, page, c, wiki) ==
  UNION {{Finding("alias", p, r, t, r :> Replaced(page.fields[r], t)) :
            t \in {i \in page.fields[r].items : ~i.exact /\ i.page \in DOMAIN wiki}}
         \cup {Finding("dangling", p, r, t, <<>>) : t \in {i \in page.fields[r].items : i.page \notin DOMAIN wiki}}
         \cup (IF page.fields[r].shape = "scalar" THEN {Finding("kind", p, r, NoTarget, r :> Array(page.fields[r].items))} ELSE {}) :
         r \in c.relations}

\* scanPage, scanSchemaDrift
scanPage(p, c, wiki) ==
  IF ~wiki[p].fm THEN {Finding("frontmatter", p, Nil, NoTarget, <<>>)}
  ELSE FieldFindings(p, wiki[p], c) \cup TypeFindings(p, wiki[p], c) \cup RelationFindings(p, wiki[p], c, wiki)
scanSchemaDrift(wiki, c) == UNION {scanPage(p, c, wiki) : p \in DOMAIN wiki}

-----------------------------------------------------------------------------
(***************************************************************************)
(* The score of a page, in hundredths.                                     *)
(***************************************************************************)
Least(a, b) == IF a <= b THEN a ELSE b
Points(on, n) == IF on THEN n ELSE 0
Has(page, name) == page.fm /\ ~IsEmpty(page.fields[name])

structureScore(page) == Points(page.fm, 20) + page.body + Points(Has(page, "title"), 15)
citationScore(page) == IF page.sources = 0 THEN 0 ELSE Least(65, 35 + 15 * page.sources)
relationScore(page, c) ==
  LET required == IF c.minRelations > 1 THEN c.minRelations ELSE 1 IN
  Least(100, (100 * Cardinality(page.fields.uses.items)) \div (required + 1))
retrievalScore(page) == Points(Has(page, "title"), 25) + Points(Has(page, "tags"), 15)
governanceScore(page) ==
  page.governed
  + (CASE page.review = "ok" -> 20 [] page.review = "needs-review" -> 10 [] OTHER -> 0)
  + (CASE page.quality = Unset -> 0 [] page.quality < 45 -> 10 [] OTHER -> 20)

evaluatePageQuality(page, c) ==
  (25 * structureScore(page) + 25 * citationScore(page) + 20 * relationScore(page, c)
     + 15 * retrievalScore(page) + 15 * governanceScore(page) + 50) \div 100

\* qualityScoreOperation: none for a score as high as this one, and none for
\* a page that is good enough and has one.  A mutant: any other score.
AnyOther(page, score, c) ==
  IF ~page.fm \/ page.quality = score THEN {}
  ELSE {Points(score < c.minQuality, 1)}
qualityScoreOperation(page, score, c) ==
  IF ~page.fm \/ (page.quality # Unset /\ (page.quality >= score \/ score >= c.minQuality)) THEN {}
  ELSE {Points(score < c.minQuality, 1)}

\* schemaQualityScanSuggestions: of the scores only those under the least one.
QualityFindings(wiki, c) ==
  UNION {LET score == evaluatePageQuality(wiki[p], c) IN
         {Finding("quality", p, Nil, NoTarget, [quality |-> score, review |-> "needs-review"]) :
            on \in qualityScoreOperation(wiki[p], score, c) \cap {1}} : p \in DOMAIN wiki}

buildReport(wiki, s) ==
  LET c == parseSchemaContract(s) IN scanSchemaDrift(wiki, c) \cup QualityFindings(wiki, c)

-----------------------------------------------------------------------------
(***************************************************************************)
(* handleRunSchemaQuality: the page forgets the last report, the scan lists *)
(* the pages and reads them and schema.md in any order, some of them not.   *)
(***************************************************************************)
StartScan ==
  /\ scans < MaxScans /\ left = {}
  /\ scans' = scans + 1
  /\ left' = DOMAIN pages \cup {"schema"} /\ read' = <<>>
  /\ report' = {} /\ changed' = FALSE /\ mended' = {}
  /\ UNCHANGED <<schema, pages, edits>>

\* The scan ends with its last file.
ReadTo(files, x) ==
  /\ left' = left \ {x}
  /\ IF left = {x}
       THEN /\ report' = buildReport(Restrict(files, DOMAIN files \ {"schema"}), files["schema"])
            /\ read' = <<>>
       ELSE read' = files /\ UNCHANGED report
  /\ UNCHANGED <<schema, pages, edits, scans, mended>>

ReadPage(p) ==
  /\ p \in left /\ p \in DOMAIN pages
  /\ ReadTo((p :> pages[p]) @@ read, p)
  /\ UNCHANGED changed

\* A page that cannot be read is left out.
ReadPageFails(p) ==
  /\ p \in left /\ (p \in DOMAIN pages => edits < MaxEdits)
  /\ ReadTo(read, p)
  /\ changed' = TRUE

ReadSchema ==
  /\ "schema" \in left
  /\ ReadTo(("schema" :> schema) @@ read, "schema")
  /\ UNCHANGED changed

\* handleApplySuggestion, and a batch one after another: the patch goes over
\* the page as it is now, and the suggestion is shown no more.
Patched(page, patch) ==
  IF "quality" \in DOMAIN patch THEN patch @@ page ELSE [page EXCEPT !.fields = patch @@ @]

Apply(f) ==
  /\ left = {} /\ f.patch # <<>> /\ f.page \in DOMAIN pages
  /\ pages' = [pages EXCEPT ![f.page] = Patched(@, f.patch)]
  /\ report' = report \ {f}
  /\ mended' = mended \cup {f}
  /\ UNCHANGED <<schema, read, left, edits, scans, changed>>

-----------------------------------------------------------------------------
Edited == edits < MaxEdits /\ edits' = edits + 1 /\ changed' = TRUE /\ UNCHANGED <<read, left, report, scans, mended>>

\* The user or an ingest writes a page, or deletes it.
Edit(p) ==
  /\ Edited
  /\ \E v \in {[pages[p] EXCEPT !.fields.tags = Array({"text"})],
               [pages[p] EXCEPT !.fields.uses = Array(@.items \cup {To(p)})],
               [pages[p] EXCEPT !.review = "ok"]} : pages' = [pages EXCEPT ![p] = v]
  /\ UNCHANGED schema

Delete(p) ==
  /\ Edited
  /\ pages' = Restrict(pages, DOMAIN pages \ {p})
  /\ UNCHANGED schema

EditSchema ==
  /\ Edited
  /\ schema' \in (DOMAIN Blocks \cup {Nil}) \ {schema}
  /\ UNCHANGED pages

Next ==
  \/ StartScan \/ ReadSchema \/ EditSchema
  \/ \E p \in Pages : ReadPage(p) \/ ReadPageFails(p)
  \/ \E p \in DOMAIN pages : Edit(p) \/ Delete(p)
  \/ \E f \in report : Apply(f)

Spec == Init /\ [][Next]_vars

-----------------------------------------------------------------------------
Contract == parseSchemaContract(schema)
Found(wiki) == scanSchemaDrift(wiki, Contract)

\* An empty list is still no value for a field that must have one.
Vain(f) == f.kind = "missing" /\ IsEmpty(f.patch[f.field])
\* A type taken from the directory, where the contract says otherwise.
Guessed(f) == f.kind = "missing" /\ f.field = "type" /\ Contract.types # DEFAULT.types
\* A contract may call a relation anything but a list.
Coherent == \A r \in Contract.relations : Contract.fields[r].kind = "string-array"

(***************************************************************************)
(* A repair mends: applied to the wiki the scan saw, it does away with what *)
(* was found and brings no new finding on any page, and takes no target     *)
(* from a relation but the one it replaces (README.md:277 calls such        *)
(* findings safe).  A list that must not be empty is the exception: the     *)
(* patch of schema-drift.ts sets an empty one.  So is a type guessed from    *)
(* the directory where the contract moves types, and a contract at odds     *)
(* with itself.                                                             *)
(***************************************************************************)
SameFault(f, g) == f.kind = g.kind /\ f.page = g.page /\ f.field = g.field /\ f.target = g.target
Gone(f, wiki) == \A g \in Found(wiki) : ~SameFault(f, g)
RepairMends ==
  \A f \in report : Coherent /\ ~changed /\ mended = {} /\ f.kind # "quality" /\ Apply(f) /\ ~Vain(f) /\ ~Guessed(f) =>
    /\ Gone(f, pages')
    /\ \A g \in Found(pages') : \E o \in Found(pages) : SameFault(g, o)
    /\ \A r \in Contract.relations :
         pages[f.page].fields[r].items \ {f.target} \subseteq pages'[f.page].fields[r].items
RepairsMend == [][RepairMends]_vars

(***************************************************************************)
(* The score settles: to write it down raises it, as the score of a page    *)
(* that has one is higher, and marks the page, which changes it again; but  *)
(* after three scans nothing is proposed any more, and no higher score a    *)
(* page had was lost.                                                       *)
(***************************************************************************)
Scored(wiki) ==
  [p \in DOMAIN wiki |-> FoldSet(LAMBDA f, page : Patched(page, f.patch), wiki[p],
                                 {f \in QualityFindings(wiki, Contract) : f.page = p})]
ScoresSettle ==
  LET after == Scored(Scored(Scored(pages))) IN
  /\ QualityFindings(after, Contract) = {}
  /\ \A p \in DOMAIN pages : pages[p].quality <= after[p].quality

(***************************************************************************)
(* What was repaired stays so while the report is worked off.  It does not: *)
(* the second repair of a list sets the list the scan read, and brings back *)
(* the name that the first replaced.                                        *)
(***************************************************************************)
RepairsStay ==
  [][\A f \in report : Coherent /\ ~changed /\ Apply(f) => \A g \in mended : Vain(g) \/ Guessed(g) \/ g.kind = "quality" \/ Gone(g, pages')]_vars
=============================================================================

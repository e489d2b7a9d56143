------------------------------- MODULE PageMerge -------------------------------
(***************************************************************************)
(* How an ingest merges the page it generated into the one on disk           *)
(* (page-merge.ts): the lists of the front matter are united by pattern      *)
(* matching on text (sources-merge.ts), the body by a model whose answer is  *)
(* looked at before it is taken, and what that does to a page that is merged *)
(* several times.  The front matter is found by one rule when it is parsed   *)
(* (frontmatter.ts) and by a narrower one when it is written.  The time that *)
(* a merge takes, in which others may write, is IngestPipeline's.            *)
(***************************************************************************)
EXTENDS Integers, FiniteSetsExt, SequencesExt

CONSTANTS
  Incoming,     \* pages an ingest may generate
  Answers,      \* what the model may answer
  Edits,        \* what a user may make of the page
  Length,       \* length of each body
  Fold,         \* each source in lower case
  Parts,        \* what a source is split into at its commas
  Stump,        \* each source up to its first "]"
  Awkward,      \* titles that only YAML in quotes can hold
  MaxMerges,    \* bound: ingests of the page
  MaxEdits,     \* bound: changes by the user
  MaxMishaps    \* bound: reads of the page and backups of it that fail

VARIABLES
  page,         \* the page on disk, or Nothing
  merge,        \* the merge that waits for the model, or Nothing
  backups,      \* pages saved under page-history
  last,         \* history: how the page was last written, and from what
  counts

vars == <<page, merge, backups, last, counts>>

Nothing == [nothing |-> TRUE]

\* A page: where its front matter is - on the first line ("top"), within a code
\* fence or under "frontmatter:" ("fenced"), below another line or behind an
\* opening line that ends in a blank ("junk"), or nowhere ("none") -, whether it
\* is no YAML, its title (for the fields that are locked), the form of the list
\* of its sources (for all lists), the sources as written, and its body.
Doc(at, broken, title, form, sources, body) ==
  [at |-> at, broken |-> broken, title |-> title, form |-> form, sources |-> sources, body |-> body]

Init ==
  /\ page \in {Nothing} \cup Edits
  /\ merge = Nothing /\ backups = {} /\ last = [how |-> "none", from |-> {}]
  /\ counts = [merges |-> 0, mishaps |-> 0, edits |-> 0]

-----------------------------------------------------------------------------
\* parseFrontmatter looks for a block in the first lines.
Parses(doc) == doc.at # "none" /\ ~doc.broken

\* parseFrontmatterArray and the rest look at the first line only.  An item of
\* the inline form ends at a comma, the list at the first "]".
Topped(doc) == doc.at = "top"
Cut(source) == Stump[source] # source
Inline(sources) ==
  LET cut == {i \in DOMAIN sources : Cut(sources[i])}
      seen == IF cut = {} THEN sources ELSE SubSeq(sources, 1, Min(cut))
  IN FlattenSeq([i \in DOMAIN seen |-> Parts[Stump[seen[i]]]])
parseSources(doc) ==
  IF ~Topped(doc) THEN <<>> ELSE IF doc.form = "block" THEN doc.sources ELSE Inline(doc.sources)

\* writeFrontmatterArray: always inline; of an inline list that holds a "]" the
\* rest stays behind the new one.
writeSources(doc, values) ==
  IF ~Topped(doc) THEN doc
  ELSE [doc EXCEPT !.form = "inline", !.sources = values,
                   !.broken = @ \/ (doc.form = "inline" /\ \E i \in DOMAIN doc.sources : Cut(doc.sources[i]))]

mergeLists(existing, incoming) ==
  FoldLeft(LAMBDA out, s : IF \E i \in DOMAIN out : Fold[out[i]] = Fold[s] THEN out ELSE Append(out, s),
           <<>>, existing \o incoming)

\* What the page on disk has is put into the new one.  A mutant: the list is
\* replaced.
mergeArrayFieldsReplaced(doc, existing) == doc
mergeArrayFields(doc, existing) ==
  LET old == parseSources(existing)
      merged == mergeLists(old, parseSources(doc))
  IN IF old = <<>> \/ merged = parseSources(doc) THEN doc ELSE writeSources(doc, merged)

\* setFrontmatterScalar writes the value as it is.
LockTitle(doc, existing) ==
  IF ~Parses(existing) \/ existing.title = "" \/ ~Topped(doc) THEN doc
  ELSE [doc EXCEPT !.title = existing.title, !.broken = @ \/ existing.title \in Awkward]

\* sanitizeIngestedFileContent takes the shapes off that it knows.
Sanitize(doc) == IF doc.at = "fenced" THEN [doc EXCEPT !.at = "top"] ELSE doc

-----------------------------------------------------------------------------
Write(doc, how, from) == page' = doc /\ last' = [how |-> how, from |-> from]
Mishap(happens) ==
  /\ happens => counts.mishaps < MaxMishaps
  /\ counts' = [counts EXCEPT !.mishaps = @ + IF happens THEN 1 ELSE 0]

\* writeFileBlocks comes to the page.  One that cannot be read counts as new.
Generate(generated, unread) ==
  LET doc == Sanitize(generated)
      union == mergeArrayFields(doc, page) IN
  /\ merge = Nothing /\ counts.merges < MaxMerges
  /\ unread => page # Nothing /\ counts.mishaps < MaxMishaps
  /\ counts' = [counts EXCEPT !.merges = @ + 1, !.mishaps = @ + IF unread THEN 1 ELSE 0]
  /\ IF page = Nothing \/ unread THEN merge' = merge /\ Write(doc, IF unread THEN "unread" ELSE "new", {doc})
     ELSE IF doc = page THEN UNCHANGED <<page, merge, last>>
     ELSE IF page.body = union.body THEN merge' = merge /\ Write(union, "united", {doc})
     ELSE merge' = [existing |-> page, incoming |-> doc, union |-> union] /\ UNCHANGED <<page, last>>
  /\ UNCHANGED backups

\* The answer has front matter and is not much shorter than either body.  A
\* mutant compares it with the new one only.
LongEnough(answer, m) ==
  10 * Length[answer.body] >= 7 * Max({Length[m.existing.body], Length[m.union.body]})
LongEnoughForTheNew(answer, m) == 10 * Length[answer.body] >= 7 * Length[m.union.body]
Accepts(answer, m) == Parses(answer) /\ LongEnough(answer, m)

MergedInto(answer, m) == mergeArrayFields(LockTitle(answer, m.existing), m.union)

Answered(answer) ==
  /\ merge # Nothing /\ Accepts(answer, merge)
  /\ Write(MergedInto(answer, merge), "merged", {merge.incoming, answer})
  /\ merge' = Nothing /\ UNCHANGED <<backups, counts>>

\* The call failed, or its answer was refused: the new body, and a backup of
\* the old page if that can be written.
FallBack(saved) ==
  /\ merge # Nothing
  /\ backups' = IF saved THEN backups \cup {merge.existing} ELSE backups
  /\ Mishap(~saved)
  /\ Write(merge.union, "fallback", {merge.incoming}) /\ merge' = Nothing

\* A user changes the page between two merges.
Edit(doc) ==
  /\ merge = Nothing /\ page # Nothing /\ page # doc
  /\ counts.edits < MaxEdits /\ counts' = [counts EXCEPT !.edits = @ + 1]
  /\ Write(doc, "edited", {doc}) /\ UNCHANGED <<merge, backups>>

Next ==
  \/ \E doc \in Incoming, unread \in BOOLEAN : Generate(doc, unread)
  \/ \E doc \in Answers : Answered(doc)
  \/ \E saved \in BOOLEAN : FallBack(saved)
  \/ \E doc \in Edits : Edit(doc)

Spec == Init /\ [][Next]_vars

-----------------------------------------------------------------------------
Merges == {"united", "fallback", "merged"}
Merged == last'.how \in Merges /\ (page' # page \/ last' # last)
Names(doc) == {Fold[s] : s \in ToSet(parseSources(doc))}
Bears(doc, source) == \/ Fold[source] \in Names(doc)
                      \/ \A part \in ToSet(Parts[source]) : Fold[part] \in Names(doc)
NoneCut(docs) == \A doc \in docs : \A s \in ToSet(doc.sources) : ~Cut(s)

(***************************************************************************)
(* A merge keeps every source of both pages, whole or in its parts, when the *)
(* front matter of both and of the result begins on the first line and none  *)
(* holds a "]": the deletion of a source (WikiWriters) takes a page with no  *)
(* other source away (sources-merge.ts:5).                                   *)
(***************************************************************************)
SourcesAreKept ==
  LET both == {page} \cup last'.from IN
  Merged /\ NoneCut(both) /\ (\A doc \in both \cup {page'} : Topped(doc)) =>
    \A doc \in both : \A s \in ToSet(doc.sources) : Bears(page', s)

(***************************************************************************)
(* A merge that the model made leaves the title of a page that could be      *)
(* parsed, and a page that can be parsed again unless its title is awkward   *)
(* or a source holds a "]" (page-merge.ts:162).                              *)
(***************************************************************************)
TitlesAreKept ==
  Merged /\ last'.how = "merged" /\ Topped(page') /\ Parses(page) =>
    /\ page.title # "" => page'.title = page.title
    /\ page'.broken => page.title \in Awkward \/ ~NoneCut({page} \cup last'.from)

(***************************************************************************)
(* No merge makes the body shorter than seven tenths of what it was, but one *)
(* that failed, and then the old page is kept aside or that failed too       *)
(* (page-merge.ts:146).                                                      *)
(***************************************************************************)
BodiesAreKept ==
  Merged /\ 10 * Length[page'.body] < 7 * Length[page.body] =>
    last'.how = "fallback" /\ (page \in backups' \/ counts'.mishaps > counts.mishaps)

\* Refuted: all sources are kept ("re-union against BOTH sides so neither
\* contributor is dropped", page-merge.ts:172), the title survives any ingest
\* ("MUST survive an ingest", page-merge.ts:33), no page is merged away bit by
\* bit.
AllSourcesAreKept == Merged => \A s \in ToSet(page.sources) : Bears(page', s)
AllTitlesAreKept == Merged /\ page.title # "" => page'.title = page.title
=============================================================================

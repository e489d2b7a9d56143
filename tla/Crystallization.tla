--------------------------- MODULE Crystallization ---------------------------
(***************************************************************************)
(* What a conversation leaves behind: answers are scored                   *)
(* (crystallize-candidates.ts), the best of a conversation becomes a digest *)
(* plan (crystallization-digest.ts, session-crystallization.ts) that waits *)
(* in `.llm-wiki/consolidation-queue.json` for the user's decision         *)
(* (consolidation-queue.ts), and a digest the user saves becomes a page,   *)
(* its claims, a line of index.md and a line of log.md.                    *)
(*                                                                         *)
(* Nothing orders the writers of the queue: each reads the file, works and *)
(* writes all of it.  An answer is one of Contents, with features the      *)
(* scoring looks at; two answers with one content have one dedupe key.     *)
(***************************************************************************)
EXTENDS Integers, Sequences, FiniteSets

CONSTANTS
  Contents,      \* the texts of answers
  Features,      \* [Contents -> [length, references, links, structure, conclusion, decision, list]]
  Conversations,
  None,
  MaxAnswers,    \* bound: answers given
  MaxUpdates,    \* bound: decisions on queue items
  MaxSaves,      \* bound: digests saved
  MaxMishaps     \* bound: writes that fail or are cut short

VARIABLES
  said,     \* the answers so far: [content, conv]
  queue,    \* the items in the file, [key, status], or None: it does not parse
  planned,  \* plans about to be queued, the answers they came with
  adds,     \* additions under way: [key, read, version], where read is the file as it was
  updates,  \* decisions under way: [key, status, read, version]
  version,  \* history: how often the queue was written
  saves,    \* digests being saved: [content, step]
  pages, claims, listed, logged, \* what the wiki has of each digest
  held,     \* history: digests the conflict gate kept from being written
  updated, saved, mishaps

vars == <<said, queue, planned, adds, updates, version, saves, pages, claims, listed, logged, held, updated, saved, mishaps>>
wiki == <<saves, pages, claims, listed, logged, held, saved>>

Statuses == {"accepted", "dismissed", "applied"}

Init ==
  /\ said = <<>> /\ queue = <<>> /\ planned = {} /\ adds = {} /\ updates = {} /\ version = 0
  /\ saves = {} /\ pages = {} /\ claims = {} /\ listed = {} /\ logged = {} /\ held = {}
  /\ updated = 0 /\ saved = 0 /\ mishaps = 0

-----------------------------------------------------------------------------
(***************************************************************************)
(* Which answers count.                                                    *)
(***************************************************************************)
Points(condition, points) == IF condition THEN points ELSE 0
Evidence(f) == f.references + f.links

\* scoreCrystallizationCandidate, in hundredths
Score(f) ==
  LET sum == Points(f.length >= 120, 15) + Points(f.length >= 280, 15) + Points(f.length >= 600, 10)
             + (IF f.references > 0 THEN IF f.references >= 2 THEN 30 ELSE 22 ELSE Points(f.links > 0, 18))
             + Points(f.structure, 10) + Points(f.conclusion, 15) + Points(f.decision, 15) + Points(f.list, 8)
  IN IF sum > 100 THEN 100 ELSE sum

Candidate(c) == Features[c].length >= 120 /\ Evidence(Features[c]) > 0 /\ Score(Features[c]) >= 55

\* buildCrystallizationDigestPlan: the entities are the evidence, so a candidate always has a plan.
PlanType(c) ==
  IF Score(Features[c]) >= 70 /\ (Evidence(Features[c]) >= 2 \/ (Features[c].decision /\ Features[c].conclusion))
  THEN "synthesis" ELSE "query"

\* The file a digest is saved to.
Path(c) == <<PlanType(c), c>>

\* collectCrystallizationCandidates: the first of the answers with one content.
Candidates(conv, answers) ==
  {i \in DOMAIN answers :
     /\ answers[i].conv = conv /\ Candidate(answers[i].content)
     /\ ~\E j \in 1..(i - 1) : answers[j] = answers[i]}

\* buildSessionCrystallizationPlans: the highest score, then the latest.
Best(conv, answers) ==
  CHOOSE i \in Candidates(conv, answers) : \A j \in Candidates(conv, answers) \ {i} :
    LET mine == Score(Features[answers[i].content])
        its == Score(Features[answers[j].content])
    IN mine > its \/ (mine = its /\ i > j)

Plans(conv, answers) == IF Candidates(conv, answers) = {} THEN {} ELSE {Len(answers)}

-----------------------------------------------------------------------------
(***************************************************************************)
(* The queue.                                                              *)
(***************************************************************************)
\* readConsolidationQueue: a file that does not parse is an empty queue.
Items == IF queue = None THEN <<>> ELSE queue
Keys(items) == {items[i].key : i \in DOMAIN items}

AppendAlways(key, read) == Append(read, [key |-> key, status |-> "queued"])

\* addDigestPlanToConsolidationQueue: a key that is known is left as it is.
Added(key, read) ==
  IF key \in Keys(read) THEN read ELSE Append(read, [key |-> key, status |-> "queued"])

\* updateConsolidationQueueStatus: any status may follow any other.
Updated(key, status, read) ==
  [i \in DOMAIN read |-> IF read[i].key = key THEN [read[i] EXCEPT !.status = status] ELSE read[i]]

\* An answer is complete: recordChatSessionEnd plans a digest of the
\* conversation's best.  (An answer that failed plans nothing.)
Answer(c, conv) ==
  /\ Len(said) < MaxAnswers
  /\ said' = Append(said, [content |-> c, conv |-> conv])
  /\ planned' = planned \cup {<<i, said'[Best(conv, said')].content>> : i \in Plans(conv, said')}
  /\ UNCHANGED <<queue, adds, updates, version, wiki, updated, mishaps>>

\* The plan's events are written and the queue is read.
BeginAdd(p) ==
  /\ planned' = planned \ {p}
  /\ adds' = adds \cup {[key |-> p[2], read |-> Items, version |-> version]}
  /\ UNCHANGED <<said, queue, updates, version, wiki, updated, mishaps>>

EndAdd(a) ==
  /\ adds' = adds \ {a}
  /\ IF Added(a.key, a.read) = a.read THEN UNCHANGED <<queue, version>>
     ELSE queue' = Added(a.key, a.read) /\ version' = version + 1
  /\ UNCHANGED <<said, planned, updates, wiki, updated, mishaps>>

\* handleConsolidationStatusChange
BeginUpdate(key, status) ==
  /\ updated < MaxUpdates /\ updates = {}
  /\ key \in Keys(Items)
  /\ updated' = updated + 1
  /\ updates' = {[key |-> key, status |-> status, read |-> Items, version |-> version]}
  /\ UNCHANGED <<said, queue, planned, adds, version, wiki, mishaps>>

EndUpdate(u) ==
  /\ updates' = updates \ {u}
  /\ queue' = Updated(u.key, u.status, u.read)
  /\ version' = version + 1
  /\ UNCHANGED <<said, planned, adds, wiki, updated, mishaps>>

\* A write cut short leaves half a file.
Torn ==
  /\ mishaps < MaxMishaps /\ adds \cup updates # {}
  /\ mishaps' = mishaps + 1
  /\ planned' = {} /\ adds' = {} /\ updates' = {} /\ saves' = {}
  /\ queue' = None /\ version' = version + 1
  /\ UNCHANGED <<said, pages, claims, listed, logged, held, updated, saved>>

-----------------------------------------------------------------------------
(***************************************************************************)
(* A digest becomes a page: handleSaveDigest, saveCrystallizationDigestPage.*)
(***************************************************************************)
SameQueue == UNCHANGED <<said, queue, planned, adds, updates, version, updated>>

BeginSave(c) ==
  /\ Candidate(c) /\ \E i \in DOMAIN said : said[i].content = c
  /\ saved < MaxSaves /\ saves = {}
  /\ saved' = saved + 1
  /\ saves' = {[content |-> c, step |-> "page"]}
  /\ UNCHANGED <<pages, claims, listed, logged, held, mishaps>> /\ SameQueue

At(s, step) == s \in saves /\ s.step = step
Go(s, step) == saves' = (saves \ {s}) \cup {[s EXCEPT !.step = step]}

\* writeCrystallizedQueryPage: the gate may keep the page for review, and then
\* neither page nor claims are written; the save goes on all the same.
WritePage(s) ==
  /\ At(s, "page")
  /\ \/ pages' = pages \cup {Path(s.content)} /\ Go(s, "claims") /\ UNCHANGED held
     \/ held' = held \cup {Path(s.content)} /\ Go(s, "index") /\ UNCHANGED pages
  /\ UNCHANGED <<claims, listed, logged, mishaps>> /\ UNCHANGED saved /\ SameQueue

WriteClaims(s) ==
  /\ At(s, "claims")
  /\ claims' = claims \cup {Path(s.content)}
  /\ Go(s, "index")
  /\ UNCHANGED <<pages, listed, logged, held, mishaps>> /\ UNCHANGED saved /\ SameQueue

ListedAnyway(s) ==
  /\ s \in saves /\ s.step \in {"page", "index"}
  /\ listed' = listed \cup {Path(s.content)}
  /\ Go(s, IF s.step = "page" THEN "page" ELSE "log")
  /\ UNCHANGED <<pages, claims, logged, held, mishaps>> /\ UNCHANGED saved /\ SameQueue

\* updateDigestIndex
UpdateIndex(s) ==
  /\ At(s, "index")
  /\ listed' = listed \cup {Path(s.content)}
  /\ Go(s, "log")
  /\ UNCHANGED <<pages, claims, logged, held, mishaps>> /\ UNCHANGED saved /\ SameQueue

\* appendDigestLog, then the digest.save event
AppendLog(s) ==
  /\ At(s, "log")
  /\ logged' = logged \cup {Path(s.content)}
  /\ saves' = saves \ {s}
  /\ UNCHANGED <<pages, claims, listed, held, mishaps>> /\ UNCHANGED saved /\ SameQueue

\* A write fails: the save ends there and the panel shows the error.
SaveFails(s) ==
  /\ s \in saves /\ mishaps < MaxMishaps
  /\ mishaps' = mishaps + 1
  /\ saves' = saves \ {s}
  /\ UNCHANGED <<pages, claims, listed, logged, held>> /\ UNCHANGED saved /\ SameQueue

Next ==
  \/ \E conv \in Conversations, c \in Contents : Answer(c, conv)
  \/ \E p \in planned : BeginAdd(p)
  \/ \E a \in adds : EndAdd(a)
  \/ \E c \in Contents, status \in Statuses : BeginUpdate(c, status)
  \/ \E u \in updates : EndUpdate(u)
  \/ Torn
  \/ \E c \in Contents : BeginSave(c)
  \/ \E s \in saves : WritePage(s) \/ WriteClaims(s) \/ UpdateIndex(s) \/ AppendLog(s) \/ SaveFails(s)

Spec == Init /\ [][Next]_vars

-----------------------------------------------------------------------------
(***************************************************************************)
(* However many conversations end at once, and whatever decisions fall     *)
(* meanwhile, no digest is queued twice.                                   *)
(***************************************************************************)
OneItemPerKey == \A i, j \in DOMAIN Items : Items[i].key = Items[j].key => i = j

(***************************************************************************)
(* A write of the queue with no other since its read keeps every other     *)
(* item with the user's decision on it: above all, a digest that was       *)
(* dismissed is not queued again by the next answer in the conversation.   *)
(***************************************************************************)
WritesKeepDecisions ==
  \A w \in (adds \ adds') \cup (updates \ updates') :
    w.version = version /\ queue # None /\ queue' # None =>
      \A i \in DOMAIN queue : queue[i].key # w.key \/ w \in adds =>
        \E j \in DOMAIN queue' : queue'[j] = queue[i]
DecisionsStick == [][WritesKeepDecisions]_vars

(***************************************************************************)
(* index.md and log.md name a digest only when its page is there, or when  *)
(* the conflict gate held the page back; a save that fails half way leaves *)
(* a page without its line, never a line without its page.                 *)
(***************************************************************************)
ListedPagesExist == (listed \cup logged \cup claims) \subseteq (pages \cup held)

(***************************************************************************)
(* log.md says "Saved digest" of a page and the digest.save event says     *)
(* "digest page saved": that such a page exists.                           *)
(***************************************************************************)
LoggedPagesExist == logged \subseteq pages
=============================================================================

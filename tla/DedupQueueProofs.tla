-------------------------- MODULE DedupQueueProofs --------------------------
(***************************************************************************)
(* Theorems about DedupQueue and about ProjectLock, the lock a merge runs  *)
(* under; first the queue, for any number of runners, pages, merges,       *)
(* clicks, failures and crashes:                                           *)
(*                                                                         *)
(*   TypeCorrect            Spec => []TypeOK                               *)
(*   PendingMergesAreDriven Spec => []NoStrandedTask                       *)
(*   FactsSurviveMerges     Spec => NothingIsLost      (quietWiki)         *)
(*   MergesTakeTurns        Spec => []OneAtATime       (quickStarts)       *)
(*   ReferencesFollow       Spec => []LinksFollow                          *)
(*   QueuedMergesAreSound   Spec => []MergesAreSound   (quickStarts)       *)
(*                                                                         *)
(* Most steps do one of three things: they move tasks and calls about and  *)
(* leave the wiki alone, they end a merge, or they take one file operation *)
(* of one merge.  The lemma StepKinds sorts them so; the invariants about  *)
(* the wiki are proved from the kinds, the ones about the queue from the   *)
(* actions.                                                                *)
(***************************************************************************)
EXTENDS DedupQueue, ProjectLock, SequenceTheorems, FiniteSetTheorems, WellFoundedInduction, TLAPS

\* A merge that has read the wiki.
PastLoad(r) == runner[r].pc \in {"stream"} \cup Writing

-----------------------------------------------------------------------------
(***************************************************************************)
(* The inductive invariants.                                               *)
(***************************************************************************)
\* Types, where they are needed: a call past its look at the queue has a task,
\* a merge past its reads has read its group and the index, and what it has left
\* to write is of its plan.  The index tells no facts.
TaskIsKnown(r) ==
  runner[r].pc \in {"lookup", "marked"} \cup Merging => runner[r].task \in Task
ReadIsWhole(r) ==
  PastLoad(r) =>
    /\ runner[r].read \in [Files -> Content \cup {Absent}]
    /\ \A f \in Group(r) \cup {Index} : runner[r].read[f] # Absent
    /\ runner[r].read[Index].facts = {}
PlanFits(r) ==
  /\ runner[r].pc = "rewrite" => runner[r].todo \subseteq Rewritten(r)
  /\ runner[r].pc = "delete" => runner[r].todo \subseteq Gone(r)
  /\ runner[r].pc \in Writing => \A c \in runner[r].new : c.facts \subseteq Union(r, "facts")
IndexIsBare == Exists(Index) /\ file[Index].facts = {}
TInv == /\ TypeOK /\ IndexIsBare
        /\ \A r \in Runners : TaskIsKnown(r) /\ ReadIsWhole(r) /\ PlanFits(r)

\* While `processing` is set there is a call that will clear it.
FlagIsHeld ==
  processing => open /\ \E r \in Runners : runner[r].pc \in {"marked", "done"} \cup Merging
QInv == FlagIsHeld /\ NoStrandedTask

\* What a file tells, a merge under way has read, or the history has it; and a
\* merge that writes has put away what it will overwrite.
InHistory(x) == \E c \in history : x \in c.facts
FactsAreRead ==
  \A r \in Runners : PastLoad(r) =>
    \A f \in Files : Exists(f) =>
      \A x \in file[f].facts :
        InHistory(x) \/ (runner[r].read[f] # Absent /\ x \in runner[r].read[f].facts)
BackupsAreMade ==
  \A r \in Runners : runner[r].pc \in Writing \ {"backup"} =>
    \A f \in Group(r) \cup Rewritten(r) : runner[r].read[f] \in history
FInv == FactsAreRead /\ BackupsAreMade

\* Until a merge is disturbed: one at a time is marked or merging, it holds the
\* flag, and none is when a call is about to claim a task.
Active(r) == runner[r].pc \in {"marked"} \cup Merging
Quick(r)  == runner[r].pc \in {"kick", "lookup", "done"}
OneQuick == \A r, s \in Runners : Quick(r) /\ Quick(s) => r = s
OneActive ==
  ~disturbed =>
    /\ \A r, s \in Runners : Active(r) /\ Active(s) => r = s
    /\ \A r \in Runners : Active(r) => processing
    /\ \A r \in Runners : runner[r].pc \in {"lookup", "done"} => \A s \in Runners : ~Active(s)
OInv == OneQuick /\ OneActive

\* Two merges that overlap are both marked.
OverlapsAreMarked ==
  \A r, s \in Runners : PastLoad(r) /\ PastLoad(s) /\ r # s => Group(r) \cup Group(s) \subseteq spoiled

\* A page merged away soundly is gone, no merge has read it but the one that
\* deletes it, and no merge has read anything that refers to it.
Away == mergedAway \ spoiled
Deletes(p, r) == p \in Gone(r) /\ runner[r].pc \in {"delete", "index"}
NotRead(p, r) ==
  /\ runner[r].read[p] = Absent
  /\ \A f \in Pages \ canonicals :
       runner[r].read[f] # Absent => runner[r].read[f].refs \cap OwnNames({p}) = {}
  /\ Slug[p] \notin OwnNames({p}) \cap runner[r].read[Index].refs
AwayStaysAway ==
  \A p \in Away :
    /\ ~Exists(p)
    /\ \A r \in Runners : PastLoad(r) => Deletes(p, r) \/ NotRead(p, r)
AwayIsForgotten ==
  \A p \in Away :
    /\ \A f \in Pages \ canonicals : Exists(f) =>
         \/ file[f].refs \cap OwnNames({p}) = {}
         \/ \E r \in Runners : PastLoad(r) /\ {p, f} \subseteq Gone(r)
    /\ (\A r \in Runners : p \notin Group(r) \/ ~PastLoad(r))
         => Slug[p] \notin OwnNames({p}) \cap file[Index].refs

\* A merge that is not marked finds the wiki as it has read it, but for what it
\* has written itself.
Unmarked(r) == PastLoad(r) /\ ~(Group(r) \subseteq spoiled)
AsRead(f, r) ==
  IF Exists(f) THEN runner[r].read[f] # Absent /\ file[f].refs = runner[r].read[f].refs
  ELSE runner[r].read[f] = Absent
Redirected(f, r) == Exists(f) /\ file[f].refs = Redirect(runner[r].read[f].refs, r)
WritesFollowReads ==
  \A r \in Runners : Unmarked(r) =>
    /\ runner[r].pc \in {"stream", "backup", "canonical"} => \A f \in Files : AsRead(f, r)
    /\ runner[r].pc = "rewrite" => \A f \in Files \ {Canonical(r)} :
         IF f \in Rewritten(r) \ runner[r].todo THEN Redirected(f, r) ELSE AsRead(f, r)
    /\ runner[r].pc \in {"delete", "index"} => \A f \in Files \ Group(r) :
         Exists(f) => file[f].refs \cap OwnNames(Gone(r)) = {}
    /\ runner[r].pc = "delete" => \A p \in Gone(r) \ runner[r].todo : ~Exists(p)
    /\ runner[r].pc = "index" => \A p \in Gone(r) : ~Exists(p)
CanonicalsAreMarked ==
  \A r \in Runners : runner[r].pc \in {"rewrite", "delete", "index"} => Canonical(r) \in canonicals
LInv == /\ OverlapsAreMarked /\ AwayStaysAway /\ AwayIsForgotten
        /\ WritesFollowReads /\ CanonicalsAreMarked

-----------------------------------------------------------------------------
(***************************************************************************)
(* Sequences.                                                              *)
(***************************************************************************)
\* A sequence changed entry by entry.
LEMMA ChangedEntries ==
  ASSUME NEW S, NEW q \in Seq(S), NEW e, e = [i \in DOMAIN q |-> e[i]],
         \A i \in DOMAIN q : e[i] \in S
  PROVE  e \in Seq(S)
<1>1. Len(q) \in Nat /\ DOMAIN q = 1..Len(q)
  BY LenProperties
<1>2. e \in [1..Len(q) -> S]
  BY <1>1
<1> QED
  BY <1>1, <1>2

\* A sequence without one of its entries.
LEMMA WithoutOne ==
  ASSUME NEW S, NEW q \in Seq(S), NEW i \in DOMAIN q
  PROVE  RemoveAt(q, i) \in Seq(S)
<1>1. Len(q) \in Nat /\ i \in 1..Len(q)
  BY LenProperties
<1>2. SubSeq(q, 1, i - 1) \in Seq(S) /\ SubSeq(q, i + 1, Len(q)) \in Seq(S)
  BY <1>1, SubSeqProperties
<1> QED
  BY <1>2, ConcatProperties DEF RemoveAt

\* Among some numbers there is a first one.
LEMMA FirstOfSome ==
  ASSUME NEW n \in Nat, NEW ids \in SUBSET (1..n), ids # {}
  PROVE  Min(ids) \in ids
<1> SUFFICES \E i \in ids : \A j \in ids : i =< j
  BY DEF Min
<1> DEFINE less == OpToRel(<, Nat)
<1>1. ids \subseteq Nat
  OBVIOUS
<1>2. PICK i \in ids : \A j \in ids : ~(<<j, i>> \in less)
  <2> HIDE DEF less
  <2>1. IsWellFoundedOn(less, Nat)
    BY NatLessThanWellFounded DEF less
  <2> QED
    BY <1>1, <2>1, WFMin
<1>3. \A j \in ids : ~(j < i)
  BY <1>1, <1>2 DEF OpToRel
<1> QED
  BY <1>1, <1>3

\* The first pending task is one of the queue, if there is one.
LEMMA FirstIsPending ==
  ASSUME queue \in Seq(Task)
  PROVE  /\ FirstPending # 0 => FirstPending \in DOMAIN queue
         /\ FirstPending # 0 <=> \E i \in DOMAIN queue : queue[i].status = "pending"
<1> DEFINE ids == {i \in 1..Len(queue) : queue[i].status = "pending"}
<1>1. DOMAIN queue = 1..Len(queue) /\ Len(queue) \in Nat
  BY LenProperties
<1>2. FirstPending = IF ids # {} THEN Min(ids) ELSE 0
  BY DEF FirstPending, SelectInSeq
<1>3. ids # {} => Min(ids) \in ids
  <2>1. ids \in SUBSET (1..Len(queue))
    OBVIOUS
  <2> HIDE DEF ids
  <2> QED
    BY <1>1, <2>1, FirstOfSome
<1>4. 0 \notin ids
  BY <1>1
<1> HIDE DEF ids
<1>5. FirstPending # 0 <=> ids # {}
  BY <1>2, <1>3, <1>4
<1>6. FirstPending # 0 => FirstPending \in ids
  BY <1>2, <1>3
<1> QED
  BY <1>1, <1>5, <1>6 DEF ids

-----------------------------------------------------------------------------
(***************************************************************************)
(* Tasks and calls.                                                        *)
(***************************************************************************)
LEMMA GroupsArePages ==
  ASSUME NEW m \in Merges
  PROVE  m.group \subseteq Pages /\ m.canonical \in m.group
BY MergeAssumption

\* What a call writes to its task.
LEMMA StatusIsTyped ==
  ASSUME queue \in Seq(Task), NEW r, NEW status \in Status, SetStatus(r, status)
  PROVE  queue' \in Seq(Task)
<1>1. \A i \in DOMAIN queue : queue[i] \in Task
  BY ElementOfSeq, LenProperties
<1>2. queue' = [i \in DOMAIN queue |-> queue'[i]] /\ \A i \in DOMAIN queue : queue'[i] \in Task
  BY <1>1 DEF SetStatus, Through, Task
<1> QED
  BY <1>2, ChangedEntries

LEMMA FailureIsTyped ==
  ASSUME queue \in Seq(Task), NEW r,
         Through(r, LAMBDA t : [t EXCEPT !.tries = @ + 1,
                      !.status = IF t.tries + 1 >= MaxRetries THEN "failed" ELSE "pending"])
  PROVE  queue' \in Seq(Task)
<1> DEFINE Change(t) == [t EXCEPT !.tries = @ + 1,
                           !.status = IF t.tries + 1 >= MaxRetries THEN "failed" ELSE "pending"]
<1>1. \A i \in DOMAIN queue : queue[i] \in Task
  BY ElementOfSeq, LenProperties
<1>2. ASSUME NEW t \in Task PROVE Change(t) \in Task
  <2>1. \A n \in Nat, status \in Status : [t EXCEPT !.tries = n, !.status = status] \in Task
    BY DEF Task
  <2>2. t.tries + 1 \in Nat
    BY DEF Task
  <2>3. (IF t.tries + 1 >= MaxRetries THEN "failed" ELSE "pending") \in Status
    BY DEF Status
  <2> QED
    BY <2>1, <2>2, <2>3
<1>3. queue' = [i \in DOMAIN queue |->
                  IF queue[i].id = runner[r].task.id /\ runner[r].visit = visits
                  THEN Change(queue[i]) ELSE queue[i]]
  BY DEF Through
<1> HIDE DEF Change
<1>4. queue' = [i \in DOMAIN queue |-> queue'[i]] /\ \A i \in DOMAIN queue : queue'[i] \in Task
  BY <1>1, <1>2, <1>3
<1> QED
  BY <1>4, ChangedEntries

LEMMA SavedIsTyped ==
  ASSUME TypeOK, queue' \in Seq(Task), SaveQueue
  PROVE  saved' \in Seq(Task) /\ mishaps' \in 0..MaxMishaps
BY BoundAssumption DEF TypeOK, SaveQueue, Fine, Mishap

LEMMA MishapIsCounted ==
  ASSUME TypeOK, Mishap
  PROVE  mishaps' \in 0..MaxMishaps
BY BoundAssumption DEF TypeOK, Mishap

LEMMA ClickIsCounted ==
  ASSUME TypeOK, Click
  PROVE  open /\ clicks' \in 0..MaxClicks
BY BoundAssumption DEF TypeOK, Click

\* Calls that have just begun, ended or found a task.
LEMMA FreshCalls ==
  /\ Free \in Runner /\ Free.pc = "idle"
  /\ [Free EXCEPT !.pc = "kick"] \in Runner /\ [Free EXCEPT !.pc = "kick"].pc = "kick"
BY DEF Free, Runner

LEMMA FoundTask ==
  ASSUME TypeOK, NEW t \in Task
  PROVE  LET x == [Free EXCEPT !.pc = "lookup", !.task = t, !.visit = visits]
         IN  x \in Runner /\ x.pc = "lookup" /\ x.task = t
BY DEF TypeOK, Free, Runner

LEMMA MovedCall ==
  ASSUME NEW x \in Runner, NEW next \in {"idle", "kick", "lookup", "marked", "done"} \cup Merging
  PROVE  LET y == [x EXCEPT !.pc = next]
         IN  /\ y \in Runner /\ y.pc = next /\ y.task = x.task /\ y.read = x.read
             /\ y.new = x.new /\ y.todo = x.todo /\ y.aborted = x.aborted
BY DEF Runner

-----------------------------------------------------------------------------
(***************************************************************************)
(* The kinds of steps.                                                     *)
(***************************************************************************)
Same(r) == /\ runner'[r].pc = runner[r].pc /\ runner'[r].task = runner[r].task
           /\ runner'[r].read = runner[r].read /\ runner'[r].new = runner[r].new
           /\ runner'[r].todo = runner[r].todo
Only(r) == \A s \in Runners \ {r} : runner'[s] = runner[s]
Still   == UNCHANGED <<file, history, mergedAway, canonicals>>

\* Tasks and calls move; a merge under way stays where it is or ends, marked.
Quiet ==
  /\ Still /\ spoiled \subseteq spoiled'
  /\ \A r \in Runners : IF PastLoad(r)' THEN Same(r) ELSE PastLoad(r) => Group(r) \subseteq spoiled'

\* One merge takes a step.
Advances(r, from, to) ==
  /\ runner[r].pc = from /\ runner'[r].pc = to /\ Only(r)
  /\ runner'[r].task = runner[r].task
Onwards(r, from, to) ==
  Advances(r, from, to) /\ runner'[r].read = runner[r].read /\ runner'[r].new = runner[r].new

Loaded(r) ==
  /\ Advances(r, "load", "stream") /\ runner'[r].read = file
  /\ \A p \in Group(r) : Exists(p)
  /\ Still /\ spoiled \subseteq spoiled'
  /\ \A s \in Runners \ {r} : runner[s].pc \in Merging => Group(r) \cup Group(s) \subseteq spoiled'
Answered(r) ==
  /\ Advances(r, "stream", "backup") /\ runner'[r].read = runner[r].read
  /\ \A c \in runner'[r].new : c.facts \subseteq Union(r, "facts")
  /\ Still /\ UNCHANGED spoiled
BackedUp(r) ==
  /\ Onwards(r, "backup", "canonical")
  /\ history' = history \cup {runner[r].read[f] : f \in Group(r) \cup Rewritten(r)}
  /\ UNCHANGED <<file, marks>>
CanonicalWritten(r) ==
  /\ Onwards(r, "canonical", "rewrite") /\ runner'[r].todo = Rewritten(r)
  /\ \E c \in runner[r].new : file' = [file EXCEPT ![Canonical(r)] = c]
  /\ canonicals' = canonicals \cup {Canonical(r)}
  /\ UNCHANGED <<history, mergedAway, spoiled>>
FileRewritten(r) ==
  /\ Onwards(r, "rewrite", "rewrite")
  /\ \E f \in runner[r].todo :
       /\ runner'[r].todo = runner[r].todo \ {f}
       /\ file' = [file EXCEPT ![f] = [runner[r].read[f] EXCEPT !.refs = Redirect(@, r)]]
  /\ UNCHANGED <<history, marks>>
AllRewritten(r) ==
  /\ Onwards(r, "rewrite", "delete") /\ runner[r].todo = {} /\ runner'[r].todo = Gone(r)
  /\ Still /\ UNCHANGED spoiled
PageDeleted(r) ==
  /\ Onwards(r, "delete", "delete")
  /\ \E p \in runner[r].todo :
       /\ runner'[r].todo = runner[r].todo \ {p}
       /\ file' = [file EXCEPT ![p] = Absent] /\ mergedAway' = mergedAway \cup {p}
  /\ UNCHANGED <<history, canonicals, spoiled>>
PageLeft(r) ==
  /\ Onwards(r, "delete", "delete") /\ runner'[r].todo \subseteq runner[r].todo
  /\ Still /\ spoiled' = spoiled \cup Group(r)
AllDeleted(r) ==
  /\ Onwards(r, "delete", "index") /\ runner[r].todo = {}
  /\ Still /\ UNCHANGED spoiled
Ended(r) ==
  /\ runner[r].pc = "index" /\ Only(r) /\ ~PastLoad(r)'
  /\ LET new == [runner[r].read[Index] EXCEPT !.refs = WithoutEntries(@, r)]
     IN  file' = IF new # runner[r].read[Index] THEN [file EXCEPT ![Index] = new] ELSE file
  /\ UNCHANGED <<history, marks>>
MergeStep(r) ==
  \/ Loaded(r) \/ Answered(r) \/ BackedUp(r) \/ CanonicalWritten(r)
  \/ FileRewritten(r) \/ AllRewritten(r) \/ PageDeleted(r) \/ PageLeft(r)
  \/ AllDeleted(r) \/ Ended(r)

\* Somebody else writes to a page.
Edited ==
  /\ \E p \in Pages : Exists(p) /\ file' = [file EXCEPT ![p].facts = @ \cup {0}]
  /\ "quietWiki" \in Assumed => Busy = {}
  /\ UNCHANGED <<runner, history, marks>>

\* What a merge is about is its task, what it plans is from its reads.
LEMMA TaskTellsGroup ==
  ASSUME NEW r, runner'[r].task = runner[r].task
  PROVE  Group(r)' = Group(r) /\ Canonical(r)' = Canonical(r) /\ Gone(r)' = Gone(r)
BY DEF Group, Canonical, Gone

LEMMA ReadsTellPlan ==
  ASSUME NEW r, runner'[r].task = runner[r].task, runner'[r].read = runner[r].read
  PROVE  /\ Rewritten(r)' = Rewritten(r) /\ Union(r, "facts")' = Union(r, "facts")
         /\ \A refs : Redirect(refs, r)' = Redirect(refs, r)
<1>1. Group(r)' = Group(r) /\ Canonical(r)' = Canonical(r) /\ Gone(r)' = Gone(r)
  BY TaskTellsGroup
<1>2. \A refs : Redirect(refs, r)' = Redirect(refs, r)
  BY <1>1 DEF Redirect, Names
<1>3. Read(r)' = Read(r)
  BY DEF Read
<1>4. Rewritten(r)' = Rewritten(r)
  BY <1>1, <1>2, <1>3 DEF Rewritten
<1>5. Union(r, "facts")' = Union(r, "facts")
  BY <1>1 DEF Union
<1> QED
  BY <1>2, <1>4, <1>5

\* A quiet step keeps the types if it keeps those of the queue and the calls.
LEMMA QuietKeepsTypes ==
  ASSUME TInv, TypeOK', Quiet, \A r \in Runners : TaskIsKnown(r)'
  PROVE  TInv'
<1>1. IndexIsBare'
  BY DEF TInv, Quiet, Still, IndexIsBare, Exists
<1>2. ASSUME NEW r \in Runners PROVE ReadIsWhole(r)' /\ PlanFits(r)'
  <2>1. CASE ~PastLoad(r)'
    BY <2>1 DEF ReadIsWhole, PlanFits, PastLoad, Writing
  <2>2. CASE PastLoad(r)'
    <3>1. Same(r) /\ ReadIsWhole(r) /\ PlanFits(r)
      BY <2>2 DEF TInv, Quiet
    <3>2. Group(r)' = Group(r) /\ Gone(r)' = Gone(r)
      BY <3>1, TaskTellsGroup DEF Same
    <3>3. Rewritten(r)' = Rewritten(r) /\ Union(r, "facts")' = Union(r, "facts")
      BY <3>1, ReadsTellPlan DEF Same
    <3>4. ReadIsWhole(r)'
      BY <3>1, <3>2 DEF Same, ReadIsWhole, PastLoad
    <3>5. PlanFits(r)'
      BY <3>1, <3>2, <3>3 DEF Same, PlanFits
    <3> QED
      BY <3>4, <3>5
  <2> QED
    BY <2>1, <2>2
<1> QED
  BY <1>1, <1>2 DEF TInv

\* One call comes to a point before or after a merge.
LEMMA CallMoves ==
  ASSUME TInv, NEW r \in Runners, NEW x \in Runner, runner' = [runner EXCEPT ![r] = x],
         x.pc \notin {"stream"} \cup Writing,
         x.pc \in {"lookup", "marked", "load"} => x.task \in Task,
         Still, spoiled \subseteq spoiled', PastLoad(r) => Group(r) \subseteq spoiled'
  PROVE  /\ runner' \in [Runners -> Runner] /\ Quiet
         /\ \A s \in Runners : TaskIsKnown(s)'
<1>1. runner \in [Runners -> Runner] /\ \A s \in Runners : TaskIsKnown(s)
  BY DEF TInv, TypeOK
<1>2. runner'[r] = x /\ \A s \in Runners \ {r} : runner'[s] = runner[s]
  BY <1>1
<1>3. runner' \in [Runners -> Runner]
  BY <1>1
<1>4. ~PastLoad(r)' /\ TaskIsKnown(r)'
  BY <1>2 DEF PastLoad, TaskIsKnown, Merging, Writing
<1>5. \A s \in Runners \ {r} : Same(s) /\ TaskIsKnown(s)' /\ (PastLoad(s)' <=> PastLoad(s))
  BY <1>1, <1>2 DEF Same, PastLoad, TaskIsKnown
<1> QED
  BY <1>3, <1>4, <1>5 DEF Quiet

-----------------------------------------------------------------------------
(***************************************************************************)
(* The operations of the user and the way to a merge are quiet.            *)
(***************************************************************************)
LEMMA KickIsQuiet ==
  ASSUME TInv, NEW r \in Runners, ThenKick(r), Still, UNCHANGED spoiled
  PROVE  /\ runner' \in [Runners -> Runner] /\ Quiet
         /\ \A s \in Runners : TaskIsKnown(s)'
<1>1. ~PastLoad(r) /\ runner' = [runner EXCEPT ![r] = [Free EXCEPT !.pc = "kick"]]
  BY DEF ThenKick, PastLoad, Writing
<1> QED
  BY <1>1, FreshCalls, CallMoves DEF Writing

LEMMA EnqueueIsQuiet ==
  ASSUME TInv, NEW r \in Runners, NEW m \in Merges, enqueueMerge(m, r)
  PROVE  TInv' /\ Quiet
<1>1. TypeOK
  BY DEF TInv
<1>2. runner' \in [Runners -> Runner] /\ Quiet /\ \A s \in Runners : TaskIsKnown(s)'
  BY KickIsQuiet DEF enqueueMerge, Still, marks
<1>3. enqueued' \in 0..MaxTasks /\ enqueued + 1 \in 1..MaxTasks
  BY <1>1, BoundAssumption DEF enqueueMerge, TypeOK
<1>4. queue' \in Seq(Task)
  <2>1. [id |-> enqueued + 1, merge |-> m, status |-> "pending", tries |-> 0] \in Task
    BY <1>3 DEF Task, Status
  <2> QED
    BY <1>1, <2>1, AppendProperties DEF enqueueMerge, TypeOK
<1>5. saved' \in Seq(Task) /\ mishaps' \in 0..MaxMishaps
  BY <1>1, <1>4, SavedIsTyped DEF enqueueMerge
<1>6. TypeOK'
  BY <1>1, <1>2, <1>3, <1>4, <1>5 DEF TypeOK, enqueueMerge, notes, marks
<1> QED
  BY <1>2, <1>6, QuietKeepsTypes

LEMMA RetryIsQuiet ==
  ASSUME TInv, NEW r \in Runners, NEW i \in DOMAIN queue, retryTask(i, r)
  PROVE  TInv' /\ Quiet
<1>1. TypeOK
  BY DEF TInv
<1>2. runner' \in [Runners -> Runner] /\ Quiet /\ \A s \in Runners : TaskIsKnown(s)'
  BY KickIsQuiet DEF retryTask, Still, marks
<1>3. queue' \in Seq(Task)
  <2>1. queue \in Seq(Task) /\ \A j \in DOMAIN queue : queue[j] \in Task
    BY <1>1, ElementOfSeq, LenProperties DEF TypeOK
  <2>2. [queue[i] EXCEPT !.status = "pending", !.tries = 0] \in Task
    BY <2>1 DEF Task, Status
  <2>3. queue' = [queue EXCEPT ![i] = [queue[i] EXCEPT !.status = "pending", !.tries = 0]]
    BY DEF retryTask
  <2> QED
    BY <2>1, <2>2, <2>3, ExceptSeq
<1>4. saved' \in Seq(Task) /\ mishaps' \in 0..MaxMishaps
  BY <1>1, <1>3, SavedIsTyped DEF retryTask
<1>5. clicks' \in 0..MaxClicks
  BY <1>1, ClickIsCounted DEF retryTask
<1>6. TypeOK'
  BY <1>1, <1>2, <1>3, <1>4, <1>5 DEF TypeOK, retryTask, notes, marks
<1> QED
  BY <1>2, <1>6, QuietKeepsTypes

\* Aborting the kept controller changes nothing a merge looks at before its answer.
LEMMA AbortedCalls ==
  ASSUME TInv
  PROVE  /\ Aborted \in [Runners -> Runner]
         /\ \A s \in Runners :
              /\ Aborted[s].pc = runner[s].pc /\ Aborted[s].task = runner[s].task
              /\ Aborted[s].read = runner[s].read /\ Aborted[s].new = runner[s].new
              /\ Aborted[s].todo = runner[s].todo
<1>1. runner \in [Runners -> Runner]
  BY DEF TInv, TypeOK
<1>2. ASSUME NEW x \in Runner
      PROVE  LET y == [x EXCEPT !.aborted = TRUE]
             IN  /\ y \in Runner /\ y.pc = x.pc /\ y.task = x.task /\ y.read = x.read
                 /\ y.new = x.new /\ y.todo = x.todo
  BY DEF Runner
<1> QED
  BY <1>1, <1>2 DEF Aborted

LEMMA CancelIsQuiet ==
  ASSUME TInv, NEW r \in Runners, NEW i \in DOMAIN queue, cancelTask(i, r)
  PROVE  TInv' /\ Quiet
<1>1. TypeOK /\ Still /\ UNCHANGED spoiled
  BY DEF TInv, cancelTask, Still, marks
<1>2. runner' \in [Runners -> Runner] /\ Quiet /\ \A s \in Runners : TaskIsKnown(s)'
  <2>1. CASE ThenKick(r)
    BY <1>1, <2>1, KickIsQuiet
  <2>2. CASE runner' = [Aborted EXCEPT ![r] = [Free EXCEPT !.pc = "kick"]]
    <3>1. Aborted \in [Runners -> Runner] /\ \A s \in Runners : TaskIsKnown(s)
      BY AbortedCalls DEF TInv
    <3>2. runner'[r] = [Free EXCEPT !.pc = "kick"] /\ \A s \in Runners \ {r} : runner'[s] = Aborted[s]
      BY <2>2, <3>1
    <3>3. runner' \in [Runners -> Runner] /\ runner'[r].pc = "kick"
      BY <2>2, <3>1, <3>2, FreshCalls
    <3>4. ~PastLoad(r) /\ ~PastLoad(r)' /\ TaskIsKnown(r)'
      BY <3>3 DEF cancelTask, PastLoad, TaskIsKnown, Merging, Writing
    <3>5. \A s \in Runners \ {r} : Same(s) /\ TaskIsKnown(s)' /\ (PastLoad(s)' <=> PastLoad(s))
      BY <3>1, <3>2, AbortedCalls DEF Same, TaskIsKnown, PastLoad
    <3> QED
      BY <1>1, <3>3, <3>4, <3>5 DEF Quiet
  <2> QED
    BY <2>1, <2>2 DEF cancelTask
<1>3. queue' \in Seq(Task)
  BY <1>1, WithoutOne DEF cancelTask, TypeOK
<1>4. saved' \in Seq(Task) /\ mishaps' \in 0..MaxMishaps
  BY <1>1, <1>3, SavedIsTyped DEF cancelTask
<1>5. clicks' \in 0..MaxClicks
  BY <1>1, ClickIsCounted DEF cancelTask
<1>6. processing' \in BOOLEAN /\ disturbed' \in BOOLEAN /\ controller' \in Runners \cup {None}
  BY <1>1 DEF TypeOK, cancelTask
<1>7. TypeOK'
  BY <1>1, <1>2, <1>3, <1>4, <1>5, <1>6 DEF TypeOK, cancelTask, marks
<1> QED
  BY <1>2, <1>7, QuietKeepsTypes

\* Tasks that were being processed are pending again.
LEMMA PausedTasks ==
  ASSUME NEW q \in Seq(Task)
  PROVE  [i \in DOMAIN q |-> IF q[i].status = "processing" THEN [q[i] EXCEPT !.status = "pending"]
                             ELSE q[i]] \in Seq(Task)
<1> DEFINE e == [i \in DOMAIN q |-> IF q[i].status = "processing"
                                    THEN [q[i] EXCEPT !.status = "pending"] ELSE q[i]]
<1>1. \A i \in DOMAIN q : q[i] \in Task
  BY ElementOfSeq, LenProperties
<1>2. \A t \in Task : [t EXCEPT !.status = "pending"] \in Task
  BY DEF Task, Status
<1>3. e = [i \in DOMAIN q |-> e[i]] /\ \A i \in DOMAIN q : e[i] \in Task
  BY <1>1, <1>2
<1> HIDE DEF e
<1>4. e \in Seq(Task)
  BY <1>3, ChangedEntries
<1> QED
  BY <1>4 DEF e

LEMMA PauseIsQuiet ==
  ASSUME TInv, pauseQueue
  PROVE  TInv' /\ Quiet
<1>1. TypeOK /\ Still /\ UNCHANGED spoiled
  BY DEF TInv, pauseQueue, Still, marks
<1>2. runner' = Aborted /\ \A s \in Runners : TaskIsKnown(s)
  BY DEF TInv, pauseQueue
<1>3. runner' \in [Runners -> Runner]
  BY <1>2, AbortedCalls
<1>4. \A s \in Runners : Same(s) /\ TaskIsKnown(s)' /\ (PastLoad(s)' <=> PastLoad(s))
  BY <1>2, AbortedCalls DEF Same, TaskIsKnown, PastLoad
<1>5. queue' \in Seq(Task)
  BY DEF pauseQueue
<1>6. saved' \in Seq(Task) /\ mishaps' \in 0..MaxMishaps
  <2>1. queue \in Seq(Task) /\ saved \in Seq(Task)
    BY <1>1 DEF TypeOK
  <2>2. CASE UNCHANGED saved /\ Mishap
    BY <1>1, <2>1, <2>2, MishapIsCounted
  <2>3. CASE Fine /\ ~UNCHANGED saved
    <3>1. saved' = [i \in DOMAIN queue |->
                     IF queue[i].status = "processing" THEN [queue[i] EXCEPT !.status = "pending"]
                     ELSE queue[i]]
      BY <2>3 DEF pauseQueue
    <3> QED
      BY <1>1, <2>1, <2>3, <3>1, PausedTasks DEF TypeOK, Fine
  <2>4. CASE Fine /\ UNCHANGED saved
    BY <1>1, <2>4 DEF TypeOK, Fine
  <2> QED
    BY <2>2, <2>3, <2>4 DEF pauseQueue
<1>7. clicks' \in 0..MaxClicks
  BY <1>1, ClickIsCounted DEF pauseQueue
<1>8. TypeOK'
  BY <1>1, <1>3, <1>5, <1>6, <1>7 DEF TypeOK, pauseQueue, marks
<1>9. Quiet
  BY <1>1, <1>4 DEF Quiet
<1> QED
  BY <1>4, <1>8, <1>9, QuietKeepsTypes

LEMMA RestoreIsQuiet ==
  ASSUME TInv, NEW r \in Runners, restoreQueue(r)
  PROVE  TInv' /\ Quiet
<1>1. TypeOK /\ Still /\ UNCHANGED spoiled
  BY DEF TInv, restoreQueue, Still, marks
<1>2. runner' \in [Runners -> Runner] /\ Quiet /\ \A s \in Runners : TaskIsKnown(s)'
  <2>1. CASE ThenKick(r)
    BY <1>1, <2>1, KickIsQuiet
  <2>2. CASE UNCHANGED runner
    BY <1>1, <2>2 DEF TInv, TypeOK, TaskIsKnown, Quiet, PastLoad, Same
  <2> QED
    BY <2>1, <2>2 DEF restoreQueue
<1>3. queue' \in Seq(Task)
  <2>1. saved \in Seq(Task)
    BY <1>1 DEF TypeOK
  <2> QED
    BY <2>1, PausedTasks DEF restoreQueue
<1>4. saved' \in Seq(Task) /\ mishaps' \in 0..MaxMishaps
  BY <1>1, <1>3, SavedIsTyped DEF restoreQueue
<1>5. visits' \in Nat /\ controller' \in Runners \cup {None}
      /\ {open', processing', usable', halted', disturbed'} \subseteq BOOLEAN
  <2>1. /\ open' = TRUE /\ processing' = FALSE /\ controller' = None /\ visits' = visits + 1
        /\ UNCHANGED <<usable, halted, disturbed>>
    BY DEF restoreQueue, notes
  <2>2. open' \in BOOLEAN /\ processing' \in BOOLEAN
    BY <2>1
  <2>3. usable' \in BOOLEAN /\ halted' \in BOOLEAN /\ disturbed' \in BOOLEAN
    BY <1>1, <2>1 DEF TypeOK
  <2>4. visits' \in Nat /\ controller' \in Runners \cup {None}
    BY <1>1, <2>1 DEF TypeOK
  <2>5. {open', processing', usable', halted', disturbed'} \subseteq BOOLEAN
    BY <2>2, <2>3
  <2> QED
    BY <2>4, <2>5
<1>6. UNCHANGED <<file, history, enqueued, clicks, mergedAway, canonicals, spoiled>>
  BY DEF restoreQueue, marks
<1>7. TypeOK'
  BY <1>1, <1>2, <1>3, <1>4, <1>5, <1>6 DEF TypeOK
<1> QED
  BY <1>2, <1>7, QuietKeepsTypes

LEMMA SettingsAreQuiet ==
  ASSUME TInv, ChangeSettings
  PROVE  TInv' /\ Quiet
<1>1. TypeOK /\ Still /\ UNCHANGED spoiled
  BY DEF TInv, ChangeSettings, Still, marks
<1>2. Quiet /\ \A s \in Runners : TaskIsKnown(s)'
  BY <1>1 DEF TInv, ChangeSettings, TaskIsKnown, Quiet, PastLoad, Same
<1>3. clicks' \in 0..MaxClicks
  BY <1>1, ClickIsCounted DEF ChangeSettings
<1>4. TypeOK'
  <2>1. usable' \in BOOLEAN /\ UNCHANGED <<open, processing, halted, disturbed>>
    BY DEF ChangeSettings, queueVars, notes
  <2>2. {open', processing', usable', halted', disturbed'} \subseteq BOOLEAN
    BY <1>1, <2>1 DEF TypeOK
  <2> QED
    BY <1>1, <1>3, <2>2 DEF TypeOK, ChangeSettings, queueVars, notes, marks
<1> QED
  BY <1>2, <1>4, QuietKeepsTypes

LEMMA IdleIsQuiet ==
  ASSUME TInv, NEW r \in Runners, Idle(r), Still, spoiled \subseteq spoiled',
         PastLoad(r) => Group(r) \subseteq spoiled'
  PROVE  /\ runner' \in [Runners -> Runner] /\ Quiet
         /\ \A s \in Runners : TaskIsKnown(s)'
BY FreshCalls, CallMoves DEF Idle, Writing

LEMMA KickKeepsTypes ==
  ASSUME TInv, NEW r \in Runners, Kick(r)
  PROVE  TInv' /\ Quiet
<1>1. TypeOK /\ Still /\ UNCHANGED spoiled
  BY DEF TInv, Kick, Still, marks
<1>2. ~PastLoad(r)
  BY DEF Kick, PastLoad, Writing
<1>3. runner' \in [Runners -> Runner] /\ Quiet /\ \A s \in Runners : TaskIsKnown(s)'
  <2>1. CASE Idle(r)
    BY <1>1, <1>2, <2>1, IdleIsQuiet
  <2>2. CASE FirstPending # 0 /\
             runner' = [runner EXCEPT ![r] = [Free EXCEPT !.pc = "lookup",
                          !.task = queue[FirstPending], !.visit = visits]]
    <3>1. queue[FirstPending] \in Task
      BY <1>1, <2>2, FirstIsPending, ElementOfSeq, LenProperties DEF TypeOK
    <3> DEFINE x == [Free EXCEPT !.pc = "lookup", !.task = queue[FirstPending], !.visit = visits]
    <3>2. x \in Runner /\ x.pc = "lookup" /\ x.task \in Task
      BY <1>1, <3>1, FoundTask
    <3> HIDE DEF x
    <3>3. runner' = [runner EXCEPT ![r] = x]
      BY <2>2 DEF x
    <3> QED
      BY <1>1, <1>2, <3>2, <3>3, CallMoves DEF Writing
  <2> QED
    BY <2>1, <2>2 DEF Kick
<1>4. processing' \in BOOLEAN /\ halted' \in BOOLEAN
  BY DEF Kick
<1>5. {open', processing', usable', halted', disturbed'} \subseteq BOOLEAN
  BY <1>1, <1>4 DEF TypeOK, Kick
<1>6. TypeOK'
  BY <1>1, <1>3, <1>5 DEF TypeOK, Kick, bounds, marks
<1> QED
  BY <1>3, <1>6, QuietKeepsTypes

LEMMA EndKeepsTypes ==
  ASSUME TInv, NEW r \in Runners, EndElsewhere(r)
  PROVE  TInv' /\ Quiet
<1>1. TypeOK /\ Still /\ UNCHANGED spoiled
  BY DEF TInv, EndElsewhere, Still, marks
<1>2. ~PastLoad(r)
  BY DEF EndElsewhere, PastLoad, Writing
<1>3. runner' \in [Runners -> Runner] /\ Quiet /\ \A s \in Runners : TaskIsKnown(s)'
  BY <1>1, <1>2, IdleIsQuiet DEF EndElsewhere
<1>4. TypeOK'
  BY <1>1, <1>3 DEF TypeOK, EndElsewhere, queueVars, bounds, notes, marks
<1> QED
  BY <1>3, <1>4, QuietKeepsTypes

\* A call goes to another point before or after the merge.
LEMMA GoIsQuiet ==
  ASSUME TInv, NEW r \in Runners, NEW next, GoTo(r, next), Still, spoiled \subseteq spoiled',
         PastLoad(r) => Group(r) \subseteq spoiled',
         next \in {"kick", "marked", "load", "done"},
         next \in {"marked", "load"} => runner[r].task \in Task
  PROVE  /\ runner' \in [Runners -> Runner] /\ Quiet
         /\ \A s \in Runners : TaskIsKnown(s)'
<1>1. runner[r] \in Runner
  BY DEF TInv, TypeOK
<1> DEFINE x == [runner[r] EXCEPT !.pc = next]
<1>2. x \in Runner /\ x.pc = next /\ x.task = runner[r].task
  BY <1>1, MovedCall DEF Merging
<1> HIDE DEF x
<1>3. runner' = [runner EXCEPT ![r] = x]
  BY DEF GoTo, x
<1> QED
  BY <1>2, <1>3, CallMoves DEF Writing

LEMMA LookupKeepsTypes ==
  ASSUME TInv, NEW r \in Runners, Lookup(r)
  PROVE  TInv' /\ Quiet
<1>1. TypeOK /\ Still /\ UNCHANGED spoiled
  BY DEF TInv, Lookup, Still, marks
<1>2. ~PastLoad(r) /\ runner[r].task \in Task
  BY DEF Lookup, PastLoad, Writing, TInv, TaskIsKnown
<1>3. runner' \in [Runners -> Runner] /\ Quiet /\ \A s \in Runners : TaskIsKnown(s)'
  <2>1. CASE Idle(r)
    BY <1>1, <1>2, <2>1, IdleIsQuiet
  <2>2. CASE GoTo(r, "kick")
    BY <1>1, <1>2, <2>2, GoIsQuiet
  <2>3. CASE GoTo(r, "marked")
    BY <1>1, <1>2, <2>3, GoIsQuiet
  <2> QED
    BY <2>1, <2>2, <2>3 DEF Lookup
<1>4. /\ queue' \in Seq(Task) /\ saved' \in Seq(Task) /\ mishaps' \in 0..MaxMishaps
      /\ processing' \in BOOLEAN
  <2>1. CASE UNCHANGED <<queue, processing, saved, mishaps>>
    BY <1>1, <2>1 DEF TypeOK
  <2>2. CASE Mishap /\ SetStatus(r, "failed") /\ saved' = queue' /\ UNCHANGED processing
    <3>1. queue' \in Seq(Task)
      BY <1>1, <2>2, StatusIsTyped DEF TypeOK, Status
    <3> QED
      BY <1>1, <2>2, <3>1, MishapIsCounted DEF TypeOK
  <2>3. CASE processing' = TRUE /\ SetStatus(r, "processing") /\ SaveQueue
    <3>1. queue' \in Seq(Task)
      BY <1>1, <2>3, StatusIsTyped DEF TypeOK, Status
    <3> QED
      BY <1>1, <2>3, <3>1, SavedIsTyped
  <2> QED
    BY <2>1, <2>2, <2>3 DEF Lookup
<1>5. {open', processing', usable', halted', disturbed'} \subseteq BOOLEAN
  BY <1>1, <1>4 DEF TypeOK, Lookup, notes
<1>6. TypeOK'
  BY <1>1, <1>3, <1>4, <1>5 DEF TypeOK, Lookup, marks
<1> QED
  BY <1>3, <1>6, QuietKeepsTypes

LEMMA MarkedKeepsTypes ==
  ASSUME TInv, NEW r \in Runners, Marked(r)
  PROVE  TInv' /\ Quiet
<1>1. TypeOK /\ Still /\ UNCHANGED spoiled
  BY DEF TInv, Marked, Still, marks
<1>2. ~PastLoad(r) /\ runner[r].task \in Task
  BY DEF Marked, PastLoad, Writing, TInv, TaskIsKnown
<1> DEFINE Left   == Idle(r) /\ UNCHANGED <<queue, processing, controller, saved, mishaps, halted>>
           Failed == /\ SetStatus(r, "failed") /\ processing' = FALSE /\ halted' = TRUE
                     /\ SaveQueue /\ Idle(r) /\ UNCHANGED controller
           Begins == /\ controller' = r /\ GoTo(r, "load")
                     /\ UNCHANGED <<queue, processing, saved, mishaps, halted>>
<1>3. Left \/ Failed \/ Begins
  BY <1>1 DEF Marked
<1>4. runner' \in [Runners -> Runner] /\ Quiet /\ \A s \in Runners : TaskIsKnown(s)'
  <2>1. CASE Idle(r)
    BY <1>1, <1>2, <2>1, IdleIsQuiet
  <2>2. CASE GoTo(r, "load")
    BY <1>1, <1>2, <2>2, GoIsQuiet
  <2> QED
    BY <1>3, <2>1, <2>2
<1>5. /\ queue' \in Seq(Task) /\ saved' \in Seq(Task) /\ mishaps' \in 0..MaxMishaps
      /\ processing' \in BOOLEAN /\ halted' \in BOOLEAN /\ controller' \in Runners \cup {None}
  <2>1. CASE Left
    BY <1>1, <2>1 DEF TypeOK
  <2>2. CASE Begins
    BY <1>1, <2>2 DEF TypeOK
  <2>3. CASE Failed
    <3>1. queue' \in Seq(Task)
      BY <1>1, <2>3, StatusIsTyped DEF TypeOK, Status
    <3>2. saved' \in Seq(Task) /\ mishaps' \in 0..MaxMishaps
      BY <1>1, <2>3, <3>1, SavedIsTyped
    <3> QED
      BY <1>1, <2>3, <3>1, <3>2 DEF TypeOK
  <2> QED
    BY <1>3, <2>1, <2>2, <2>3
<1>6. {open', processing', usable', halted', disturbed'} \subseteq BOOLEAN
  BY <1>1, <1>5 DEF TypeOK, Marked
<1>7. TypeOK'
  BY <1>1, <1>4, <1>5, <1>6 DEF TypeOK, Marked, marks
<1> QED
  BY <1>4, <1>7, QuietKeepsTypes

LEMMA CrashKeepsTypes ==
  ASSUME TInv, Crash
  PROVE  TInv' /\ Quiet
<1>1. TypeOK /\ Still
  BY DEF TInv, Crash, Still
<1>2. ASSUME NEW r \in Runners
      PROVE  ~PastLoad(r)' /\ TaskIsKnown(r)' /\ runner'[r] \in Runner
  <2>1. runner'[r] = Free
    BY DEF Crash
  <2> QED
    BY <2>1, FreshCalls DEF PastLoad, TaskIsKnown, Merging, Writing
<1>3. runner' \in [Runners -> Runner]
  BY <1>2 DEF Crash
<1>4. ASSUME NEW r \in Runners, PastLoad(r) PROVE Group(r) \subseteq spoiled'
  BY <1>4 DEF Crash, Busy, PastLoad, Merging
<1>5. spoiled \subseteq spoiled' /\ spoiled' \subseteq Pages
  <2>1. \A r \in Busy : Group(r) \subseteq Pages
    BY GroupsArePages DEF Busy, Group, TInv, TaskIsKnown, Task
  <2> QED
    BY <1>1, <2>1 DEF Crash, TypeOK
<1>6. Quiet
  BY <1>1, <1>2, <1>4, <1>5 DEF Quiet
<1>7. {open', processing', usable', halted', disturbed'} \subseteq BOOLEAN
  <2>1. open' \in BOOLEAN /\ processing' \in BOOLEAN
    BY DEF Crash
  <2> QED
    BY <1>1, <2>1 DEF TypeOK, Crash, notes
<1>8. TypeOK'
  <2>1. queue' \in Seq(Task) /\ controller' \in Runners \cup {None} /\ mishaps' \in 0..MaxMishaps
    BY <1>1, MishapIsCounted DEF Crash
  <2> QED
    BY <1>1, <1>3, <1>5, <1>7, <2>1 DEF TypeOK, Crash
<1> QED
  BY <1>2, <1>6, <1>8, QuietKeepsTypes

-----------------------------------------------------------------------------
(***************************************************************************)
(* The steps of a merge.                                                   *)
(***************************************************************************)
\* What a merge under way knows.
LEMMA TaskIsTyped ==
  ASSUME TInv, NEW r \in Runners, runner[r].pc \in Merging
  PROVE  /\ runner[r].task \in Task /\ Group(r) \subseteq Pages /\ Gone(r) \subseteq Pages
         /\ Canonical(r) \in Group(r) /\ Canonical(r) \in Pages
BY GroupsArePages DEF TInv, TaskIsKnown, Task, Group, Canonical, Gone

LEMMA ReadsAreTyped ==
  ASSUME TInv, NEW r \in Runners, PastLoad(r)
  PROVE  /\ runner[r].pc \in Merging
         /\ \A f \in Files : runner[r].read[f] \in Content \cup {Absent}
         /\ \A f \in Group(r) \cup {Index} : runner[r].read[f] \in Content
         /\ \A f \in Rewritten(r) : f \in Files \ Group(r) /\ runner[r].read[f] \in Content
<1>1. runner[r].pc \in Merging
  BY DEF PastLoad, Merging
<1>2. ReadIsWhole(r) /\ Group(r) \subseteq Pages
  BY <1>1, TaskIsTyped DEF TInv
<1>3. runner[r].read \in [Files -> Content \cup {Absent}]
  BY <1>2 DEF ReadIsWhole
<1>4. \A f \in Group(r) \cup {Index} : f \in Files /\ runner[r].read[f] # Absent
  BY <1>2 DEF ReadIsWhole, Files
<1>5. \A f \in Rewritten(r) : f \in Files \ Group(r) /\ runner[r].read[f] # Absent
  BY DEF Rewritten, Read
<1> QED
  BY <1>1, <1>3, <1>4, <1>5

LEMMA RedirectIsTyped ==
  ASSUME TInv, NEW r \in Runners, runner[r].pc \in Merging, NEW c \in Content
  PROVE  /\ Redirect(c.refs, r) \subseteq Keys
         /\ [c EXCEPT !.refs = Redirect(@, r)] \in Content
         /\ [c EXCEPT !.refs = Redirect(@, r)].facts = c.facts
         /\ [c EXCEPT !.refs = Redirect(@, r)].refs = Redirect(c.refs, r)
<1>1. Slug[Canonical(r)] \in Keys
  BY TaskIsTyped, NameAssumption
<1>2. Redirect(c.refs, r) \subseteq Keys
  BY <1>1 DEF Redirect, Content
<1> QED
  BY <1>2 DEF Content

LEMMA OthersKeepTypes ==
  ASSUME TInv, NEW r \in Runners, Only(r)
  PROVE  \A s \in Runners \ {r} : TaskIsKnown(s)' /\ ReadIsWhole(s)' /\ PlanFits(s)'
<1> SUFFICES ASSUME NEW s \in Runners \ {r}
             PROVE  TaskIsKnown(s)' /\ ReadIsWhole(s)' /\ PlanFits(s)'
  OBVIOUS
<1>1. runner'[s] = runner[s] /\ TaskIsKnown(s) /\ ReadIsWhole(s) /\ PlanFits(s)
  BY DEF TInv, Only
<1>2. Group(s)' = Group(s) /\ Gone(s)' = Gone(s)
  BY <1>1, TaskTellsGroup
<1>3. Rewritten(s)' = Rewritten(s) /\ Union(s, "facts")' = Union(s, "facts")
  BY <1>1, ReadsTellPlan
<1> QED
  BY <1>1, <1>2, <1>3 DEF TaskIsKnown, ReadIsWhole, PlanFits, PastLoad

\* A merge that goes on has its task, and its reads if it had any.
LEMMA OnwardsKeepsReads ==
  ASSUME TInv, NEW r \in Runners, PastLoad(r), runner'[r].pc \in Merging,
         runner'[r].task = runner[r].task, runner'[r].read = runner[r].read
  PROVE  /\ TaskIsKnown(r)' /\ ReadIsWhole(r)'
         /\ Group(r)' = Group(r) /\ Gone(r)' = Gone(r) /\ Canonical(r)' = Canonical(r)
         /\ Rewritten(r)' = Rewritten(r) /\ Union(r, "facts")' = Union(r, "facts")
<1>1. Group(r)' = Group(r) /\ Gone(r)' = Gone(r) /\ Canonical(r)' = Canonical(r)
  BY TaskTellsGroup
<1>2. Rewritten(r)' = Rewritten(r) /\ Union(r, "facts")' = Union(r, "facts")
  BY ReadsTellPlan
<1>3. runner[r].pc \in Merging
  BY DEF PastLoad, Merging
<1> QED
  BY <1>1, <1>2, <1>3, TaskIsTyped DEF TInv, TaskIsKnown, ReadIsWhole

\* A merge that fails: its task is tried again or has failed, the merge is marked.
LEMMA FailureIsQuiet ==
  ASSUME TInv, NEW r \in Runners, runner[r].pc \in Merging, Failure(r), Still,
         UNCHANGED <<open, processing, visits, usable, enqueued, clicks, notes>>,
         mishaps' \in 0..MaxMishaps
  PROVE  TInv' /\ Quiet
<1>1. TypeOK
  BY DEF TInv
<1>2. spoiled' = spoiled \cup Group(r)
  BY DEF Failure
<1>3. runner' \in [Runners -> Runner] /\ Quiet /\ \A s \in Runners : TaskIsKnown(s)'
  <2>1. CASE Idle(r)
    BY <1>2, <2>1, IdleIsQuiet
  <2>2. CASE GoTo(r, "done")
    BY <1>2, <2>2, GoIsQuiet
  <2> QED
    BY <2>1, <2>2 DEF Failure
<1>4. queue' \in Seq(Task) /\ saved' \in Seq(Task) /\ controller' \in Runners \cup {None}
  <2>1. CASE ~open
    BY <1>1, <2>1 DEF Failure, TypeOK
  <2>2. CASE open
    <3>1. queue' \in Seq(Task)
      BY <1>1, <2>2, FailureIsTyped DEF Failure, TypeOK
    <3> QED
      BY <2>2, <3>1 DEF Failure
  <2> QED
    BY <2>1, <2>2
<1>5. mergedAway' \cup canonicals' \cup spoiled' \subseteq Pages
  BY <1>1, <1>2, TaskIsTyped DEF TypeOK, Still
<1>6. TypeOK'
  BY <1>1, <1>3, <1>4, <1>5 DEF TypeOK, Still, notes
<1> QED
  BY <1>3, <1>6, QuietKeepsTypes

LEMMA LoadKeepsTypes ==
  ASSUME TInv, NEW r \in Runners, Load(r)
  PROVE  TInv' /\ (Quiet \/ Loaded(r))
<1>1. TypeOK /\ Still /\ runner[r].pc \in Merging /\ runner[r].pc = "load"
  BY DEF TInv, Load, Still, Merging
<1>2. CASE \E p \in Group(r) : ~Exists(p)
  <2>1. Failure(r) /\ UNCHANGED <<open, processing, visits, usable, enqueued, clicks, notes>>
    BY <1>2 DEF Load, bounds
  <2>2. mishaps' \in 0..MaxMishaps
    BY <1>1 DEF Load, bounds, TypeOK
  <2> QED
    BY <1>1, <2>1, <2>2, FailureIsQuiet
<1>3. CASE ~\E p \in Group(r) : ~Exists(p)
  <2>1. /\ runner' = [runner EXCEPT ![r].pc = "stream", ![r].read = file]
        /\ spoiled' = IF Busy = {r} THEN spoiled ELSE spoiled \cup UNION {Group(s) : s \in Busy}
        /\ QueueStays
    BY <1>3 DEF Load
  <2> DEFINE x == [runner[r] EXCEPT !.pc = "stream", !.read = file]
  <2>2. x \in Runner /\ x.pc = "stream" /\ x.read = file /\ x.task = runner[r].task
    BY <1>1 DEF TypeOK, Runner, Merging
  <2> HIDE DEF x
  <2>3. runner' = [runner EXCEPT ![r] = x]
    BY <2>1 DEF x
  <2>4. runner' \in [Runners -> Runner] /\ runner'[r] = x /\ Only(r)
    BY <1>1, <2>2, <2>3 DEF TypeOK, Only
  <2>5. \A s \in Busy : Group(s) \subseteq Pages
    BY TaskIsTyped DEF Busy
  <2>6. spoiled \subseteq spoiled' /\ spoiled' \subseteq Pages
    BY <1>1, <2>1, <2>5 DEF TypeOK
  <2>7. TypeOK'
    BY <1>1, <2>1, <2>4, <2>6 DEF TypeOK, Load, QueueStays, bounds, notes
  <2>8. r \in Busy /\ \A s \in Runners : runner[s].pc \in Merging => s \in Busy
    BY <1>1 DEF Busy
  <2>9. \A s \in Runners \ {r} : runner[s].pc \in Merging => Group(r) \cup Group(s) \subseteq spoiled'
    BY <2>1, <2>8
  <2>10. Loaded(r)
    BY <1>1, <1>3, <2>2, <2>4, <2>6, <2>9 DEF Loaded, Advances
  <2>11. TaskIsKnown(r)' /\ Group(r)' = Group(r)
    BY <1>1, <2>2, <2>4, TaskTellsGroup DEF TInv, TaskIsKnown
  <2>12. ReadIsWhole(r)' /\ PlanFits(r)'
    <3>1. runner'[r].pc = "stream" /\ runner'[r].read = file /\ UNCHANGED file
      BY <1>1, <2>2, <2>4 DEF Still
    <3>2. \A f \in Group(r) \cup {Index} : file[f] # Absent
      BY <1>3 DEF Exists, TInv, IndexIsBare
    <3>3. file[Index].facts = {} /\ file \in [Files -> Content \cup {Absent}]
      BY <1>1 DEF TInv, IndexIsBare, TypeOK
    <3> QED
      BY <2>11, <3>1, <3>2, <3>3 DEF ReadIsWhole, PlanFits, Writing
  <2>13. IndexIsBare'
    BY <1>1 DEF TInv, IndexIsBare, Exists, Still
  <2> QED
    BY <2>4, <2>7, <2>10, <2>11, <2>12, <2>13, OthersKeepTypes DEF TInv
<1> QED
  BY <1>2, <1>3

\* The types after a step that leaves the queue alone.
QueueRests ==
  QueueStays /\ UNCHANGED <<open, processing, visits, usable, enqueued, clicks, notes>>

LEMMA WikiStepIsTyped ==
  ASSUME TInv, QueueRests, mishaps' \in 0..MaxMishaps, runner' \in [Runners -> Runner],
         file' \in [Files -> Content \cup {Absent}], history' \subseteq Content,
         mergedAway' \cup canonicals' \cup spoiled' \subseteq Pages
  PROVE  TypeOK'
BY DEF TInv, TypeOK, QueueRests, QueueStays, notes

LEMMA CallAdvances ==
  ASSUME TInv, NEW r \in Runners, NEW x \in Runner, runner' = [runner EXCEPT ![r] = x],
         x.task = runner[r].task
  PROVE  /\ runner' \in [Runners -> Runner] /\ runner'[r] = x /\ Only(r)
         /\ \A from, to : runner[r].pc = from /\ x.pc = to => Advances(r, from, to)
BY DEF TInv, TypeOK, Only, Advances

LEMMA AnswerKeepsTypes ==
  ASSUME TInv, NEW r \in Runners, Answer(r)
  PROVE  TInv' /\ (Quiet \/ Answered(r))
<1>1. /\ TypeOK /\ Still /\ runner[r].pc = "stream" /\ runner[r].pc \in Merging /\ PastLoad(r)
      /\ UNCHANGED <<open, processing, visits, usable, enqueued, clicks, notes>>
  BY DEF TInv, Answer, Still, Merging, PastLoad
<1>2. CASE Mishap /\ Failure(r)
  BY <1>1, <1>2, MishapIsCounted, FailureIsQuiet
<1>3. CASE ~(Mishap /\ Failure(r))
  <2>1. PICK facts \in {Union(r, "facts")} \cup (IF runner[r].aborted THEN {{}} ELSE {}),
             refs \in {Union(r, "refs")} \cup (IF runner[r].aborted THEN {{}} ELSE {}) :
          runner' = [runner EXCEPT ![r].pc = "backup", ![r].new = {[facts |-> facts, refs |-> refs]}]
    BY <1>3 DEF Answer
  <2>2. Fine /\ QueueStays /\ UNCHANGED spoiled
    BY <1>3 DEF Answer
  <2>3. Union(r, "facts") \subseteq Facts /\ Union(r, "refs") \subseteq Keys
    BY <1>1, ReadsAreTyped DEF Union, Content
  <2>4. facts \subseteq Union(r, "facts") /\ refs \subseteq Union(r, "refs")
    OBVIOUS
  <2> DEFINE c == [facts |-> facts, refs |-> refs]
             x == [runner[r] EXCEPT !.pc = "backup", !.new = {c}]
  <2>5. c \in Content /\ c.facts = facts
    BY <2>3, <2>4 DEF Content
  <2> HIDE DEF c
  <2>6. /\ x \in Runner /\ x.pc = "backup" /\ x.new = {c}
        /\ x.read = runner[r].read /\ x.task = runner[r].task
    BY <1>1, <2>5 DEF TypeOK, Runner, Merging, Writing
  <2> HIDE DEF x
  <2>7. runner' = [runner EXCEPT ![r] = x]
    BY <2>1 DEF x, c
  <2>8. /\ runner' \in [Runners -> Runner] /\ runner'[r] = x /\ Only(r)
        /\ Advances(r, "stream", "backup")
    BY <1>1, <2>6, <2>7, CallAdvances
  <2>9. /\ TaskIsKnown(r)' /\ ReadIsWhole(r)' /\ Union(r, "facts")' = Union(r, "facts")
    BY <1>1, <2>6, <2>8, OnwardsKeepsReads DEF Merging, Writing
  <2>10. PlanFits(r)'
    BY <2>4, <2>5, <2>6, <2>8, <2>9 DEF PlanFits
  <2>11. Answered(r)
    BY <1>1, <2>2, <2>4, <2>5, <2>6, <2>8 DEF Answered
  <2>12. TypeOK'
    BY <1>1, <2>2, <2>8, WikiStepIsTyped DEF QueueRests, TypeOK, Still, Fine
  <2>13. IndexIsBare'
    BY <1>1 DEF TInv, IndexIsBare, Exists, Still
  <2> QED
    BY <2>8, <2>9, <2>10, <2>11, <2>12, <2>13, OthersKeepTypes DEF TInv
<1> QED
  BY <1>2, <1>3

LEMMA BackupKeepsTypes ==
  ASSUME TInv, NEW r \in Runners, Backup(r)
  PROVE  TInv' /\ (Quiet \/ BackedUp(r))
<1>1. /\ TypeOK /\ runner[r].pc = "backup" /\ runner[r].pc \in Merging /\ PastLoad(r)
      /\ UNCHANGED <<open, processing, visits, usable, enqueued, clicks, notes>>
  BY DEF TInv, Backup, Merging, Writing, PastLoad
<1>2. CASE Mishap /\ Failure(r) /\ Still
  BY <1>1, <1>2, MishapIsCounted, FailureIsQuiet
<1>3. CASE ~(Mishap /\ Failure(r) /\ Still)
  <2>1. /\ history' = history \cup {runner[r].read[f] : f \in Group(r) \cup Rewritten(r)}
        /\ GoTo(r, "canonical") /\ Fine /\ QueueStays
        /\ UNCHANGED <<file, mergedAway, canonicals, spoiled>>
    BY <1>3 DEF Backup, Writes, Still
  <2> DEFINE x == [runner[r] EXCEPT !.pc = "canonical"]
  <2>2. /\ x \in Runner /\ x.pc = "canonical" /\ x.task = runner[r].task /\ x.read = runner[r].read
        /\ x.new = runner[r].new
    <3>1. runner[r] \in Runner
      BY <1>1 DEF TypeOK
    <3> QED
      BY <3>1, MovedCall DEF Merging, Writing
  <2> HIDE DEF x
  <2>3. runner' = [runner EXCEPT ![r] = x]
    BY <2>1 DEF GoTo, x
  <2>4. /\ runner' \in [Runners -> Runner] /\ runner'[r] = x /\ Only(r)
        /\ Advances(r, "backup", "canonical")
    BY <1>1, <2>2, <2>3, CallAdvances
  <2>5. /\ TaskIsKnown(r)' /\ ReadIsWhole(r)' /\ Union(r, "facts")' = Union(r, "facts")
    BY <1>1, <2>2, <2>4, OnwardsKeepsReads DEF Merging, Writing
  <2>6. PlanFits(r)'
    BY <1>1, <2>2, <2>4, <2>5 DEF TInv, PlanFits, Writing
  <2>7. BackedUp(r)
    BY <2>1, <2>2, <2>4 DEF BackedUp, Onwards, marks
  <2>8. {runner[r].read[f] : f \in Group(r) \cup Rewritten(r)} \subseteq Content
    BY <1>1, ReadsAreTyped
  <2>9. TypeOK'
    BY <1>1, <2>1, <2>4, <2>8, WikiStepIsTyped DEF QueueRests, TypeOK, Fine
  <2>10. IndexIsBare'
    BY <2>1 DEF TInv, IndexIsBare, Exists
  <2> QED
    BY <2>4, <2>5, <2>6, <2>7, <2>9, <2>10, OthersKeepTypes DEF TInv
<1> QED
  BY <1>2, <1>3

LEMMA WriteCanonicalKeepsTypes ==
  ASSUME TInv, NEW r \in Runners, WriteCanonical(r)
  PROVE  TInv' /\ (Quiet \/ CanonicalWritten(r))
<1>1. /\ TypeOK /\ runner[r].pc = "canonical" /\ runner[r].pc \in Merging /\ PastLoad(r)
      /\ UNCHANGED <<open, processing, visits, usable, enqueued, clicks, notes>>
  BY DEF TInv, WriteCanonical, Merging, Writing, PastLoad
<1>2. CASE Mishap /\ Failure(r) /\ Still
  BY <1>1, <1>2, MishapIsCounted, FailureIsQuiet
<1>3. CASE ~(Mishap /\ Failure(r) /\ Still)
  <2>1. /\ \E c \in runner[r].new : file' = [file EXCEPT ![Canonical(r)] = c]
        /\ runner' = [runner EXCEPT ![r].pc = "rewrite", ![r].todo = Rewritten(r)]
        /\ canonicals' = canonicals \cup {Canonical(r)} /\ Fine /\ QueueStays
        /\ UNCHANGED <<history, mergedAway, spoiled>>
    BY <1>3 DEF WriteCanonical, Writes, Still
  <2> DEFINE x == [runner[r] EXCEPT !.pc = "rewrite", !.todo = Rewritten(r)]
  <2>2. Rewritten(r) \subseteq Files
    BY DEF Rewritten, Read
  <2>3. /\ x \in Runner /\ x.pc = "rewrite" /\ x.task = runner[r].task /\ x.read = runner[r].read
        /\ x.new = runner[r].new /\ x.todo = Rewritten(r)
    BY <1>1, <2>2 DEF TypeOK, Runner, Merging, Writing
  <2> HIDE DEF x
  <2>4. runner' = [runner EXCEPT ![r] = x]
    BY <2>1 DEF x
  <2>5. /\ runner' \in [Runners -> Runner] /\ runner'[r] = x /\ Only(r)
        /\ Advances(r, "canonical", "rewrite")
    BY <1>1, <2>3, <2>4, CallAdvances
  <2>6. /\ TaskIsKnown(r)' /\ ReadIsWhole(r)' /\ Union(r, "facts")' = Union(r, "facts")
        /\ Rewritten(r)' = Rewritten(r)
    BY <1>1, <2>3, <2>5, OnwardsKeepsReads DEF Merging, Writing
  <2>7. PlanFits(r)'
    BY <1>1, <2>3, <2>5, <2>6 DEF TInv, PlanFits, Writing
  <2>8. CanonicalWritten(r)
    BY <2>1, <2>3, <2>5 DEF CanonicalWritten, Onwards
  <2>9. Canonical(r) \in Pages /\ runner[r].new \subseteq Content
    BY <1>1, TaskIsTyped DEF TypeOK, Runner
  <2>10. file' \in [Files -> Content \cup {Absent}]
    BY <1>1, <2>1, <2>9 DEF TypeOK
  <2>11. TypeOK'
    BY <1>1, <2>1, <2>5, <2>9, <2>10, WikiStepIsTyped DEF QueueRests, TypeOK, Fine
  <2>12. Index # Canonical(r)
    BY <2>9, NameAssumption
  <2>13. IndexIsBare'
    BY <1>1, <2>1, <2>12 DEF TInv, IndexIsBare, Exists, TypeOK, Files
  <2> QED
    BY <2>5, <2>6, <2>7, <2>8, <2>11, <2>13, OthersKeepTypes DEF TInv
<1> QED
  BY <1>2, <1>3

LEMMA RewriteKeepsTypes ==
  ASSUME TInv, NEW r \in Runners, Rewrite(r)
  PROVE  TInv' /\ (Quiet \/ FileRewritten(r) \/ AllRewritten(r))
<1>1. /\ TypeOK /\ runner[r].pc = "rewrite" /\ runner[r].pc \in Merging /\ PastLoad(r)
      /\ UNCHANGED <<open, processing, visits, usable, enqueued, clicks, notes>>
      /\ runner[r] \in Runner
  BY DEF TInv, Rewrite, Merging, Writing, PastLoad, TypeOK
<1>2. CASE Mishap /\ Failure(r) /\ Still
  BY <1>1, <1>2, MishapIsCounted, FailureIsQuiet
<1>3. CASE runner[r].todo = {}
  <2>1. /\ runner' = [runner EXCEPT ![r].pc = "delete", ![r].todo = Gone(r)]
        /\ UNCHANGED <<file, history, mergedAway, canonicals, spoiled, mishaps>> /\ QueueStays
    BY <1>3 DEF Rewrite
  <2> DEFINE x == [runner[r] EXCEPT !.pc = "delete", !.todo = Gone(r)]
  <2>2. Gone(r) \subseteq Files
    BY <1>1, TaskIsTyped DEF Files
  <2>3. /\ x \in Runner /\ x.pc = "delete" /\ x.task = runner[r].task /\ x.read = runner[r].read
        /\ x.new = runner[r].new /\ x.todo = Gone(r)
    BY <1>1, <2>2 DEF Runner, Merging, Writing
  <2> HIDE DEF x
  <2>4. runner' = [runner EXCEPT ![r] = x]
    BY <2>1 DEF x
  <2>5. /\ runner' \in [Runners -> Runner] /\ runner'[r] = x /\ Only(r)
        /\ Advances(r, "rewrite", "delete")
    BY <1>1, <2>3, <2>4, CallAdvances
  <2>6. /\ TaskIsKnown(r)' /\ ReadIsWhole(r)' /\ Union(r, "facts")' = Union(r, "facts")
        /\ Gone(r)' = Gone(r)
    BY <1>1, <2>3, <2>5, OnwardsKeepsReads DEF Merging, Writing
  <2>7. PlanFits(r)'
    BY <1>1, <2>3, <2>5, <2>6 DEF TInv, PlanFits, Writing
  <2>8. AllRewritten(r)
    BY <1>3, <2>1, <2>3, <2>5 DEF AllRewritten, Onwards, Still
  <2>9. TypeOK'
    BY <1>1, <2>1, <2>5, WikiStepIsTyped DEF QueueRests, TypeOK
  <2>10. IndexIsBare'
    BY <2>1 DEF TInv, IndexIsBare, Exists
  <2> QED
    BY <2>5, <2>6, <2>7, <2>8, <2>9, <2>10, OthersKeepTypes DEF TInv
<1>4. CASE runner[r].todo # {} /\ ~(Mishap /\ Failure(r) /\ Still)
  <2>1. PICK f \in runner[r].todo :
          /\ file' = [file EXCEPT ![f] = [runner[r].read[f] EXCEPT !.refs = Redirect(@, r)]]
          /\ runner' = [runner EXCEPT ![r].todo = @ \ {f}]
          /\ UNCHANGED <<history, mergedAway, canonicals, spoiled>> /\ Fine /\ QueueStays
    BY <1>4 DEF Rewrite, Writes, Still
  <2> DEFINE x == [runner[r] EXCEPT !.todo = @ \ {f}]
             new == [runner[r].read[f] EXCEPT !.refs = Redirect(@, r)]
  <2>2. runner[r].todo \subseteq Files /\ runner[r].todo \subseteq Rewritten(r)
    BY <1>1 DEF Runner, TInv, PlanFits
  <2>3. /\ x \in Runner /\ x.pc = "rewrite" /\ x.task = runner[r].task /\ x.read = runner[r].read
        /\ x.new = runner[r].new /\ x.todo = runner[r].todo \ {f}
    BY <1>1, <2>2 DEF Runner
  <2> HIDE DEF x
  <2>4. runner' = [runner EXCEPT ![r] = x]
    BY <2>1 DEF x
  <2>5. /\ runner' \in [Runners -> Runner] /\ runner'[r] = x /\ Only(r)
        /\ Advances(r, "rewrite", "rewrite")
    BY <1>1, <2>3, <2>4, CallAdvances
  <2>6. /\ TaskIsKnown(r)' /\ ReadIsWhole(r)' /\ Union(r, "facts")' = Union(r, "facts")
        /\ Rewritten(r)' = Rewritten(r)
    BY <1>1, <2>3, <2>5, OnwardsKeepsReads DEF Merging, Writing
  <2>7. PlanFits(r)'
    BY <1>1, <2>2, <2>3, <2>5, <2>6 DEF TInv, PlanFits, Writing
  <2>8. FileRewritten(r)
    BY <2>1, <2>3, <2>5 DEF FileRewritten, Onwards, marks
  <2>9. runner[r].read[f] \in Content /\ f \in Files
    BY <1>1, <2>2, ReadsAreTyped
  <2>10. new \in Content /\ new.facts = runner[r].read[f].facts
    BY <1>1, <2>9, RedirectIsTyped
  <2> HIDE DEF new
  <2>11. file' = [file EXCEPT ![f] = new]
    BY <2>1 DEF new
  <2>12. file' \in [Files -> Content \cup {Absent}]
    BY <1>1, <2>9, <2>10, <2>11 DEF TypeOK
  <2>13. TypeOK'
    BY <1>1, <2>1, <2>5, <2>12, WikiStepIsTyped DEF QueueRests, TypeOK, Fine
  <2>14. IndexIsBare'
    <3>1. CASE f = Index
      <4>1. file'[Index] = new
        BY <1>1, <2>9, <2>11, <3>1 DEF TypeOK
      <4>2. runner[r].read[Index].facts = {}
        BY <1>1 DEF TInv, ReadIsWhole
      <4> QED
        BY <2>10, <3>1, <4>1, <4>2, NameAssumption DEF IndexIsBare, Exists
    <3>2. CASE f # Index
      BY <1>1, <2>11, <3>2 DEF TInv, IndexIsBare, Exists, TypeOK, Files
    <3> QED
      BY <3>1, <3>2
  <2> QED
    BY <2>5, <2>6, <2>7, <2>8, <2>13, <2>14, OthersKeepTypes DEF TInv
<1> QED
  BY <1>2, <1>3, <1>4

LEMMA DeleteKeepsTypes ==
  ASSUME TInv, NEW r \in Runners, DeleteMerged(r)
  PROVE  TInv' /\ (PageDeleted(r) \/ PageLeft(r) \/ AllDeleted(r))
<1>1. /\ TypeOK /\ runner[r].pc = "delete" /\ runner[r].pc \in Merging /\ PastLoad(r)
      /\ UNCHANGED <<open, processing, visits, usable, enqueued, clicks, notes, history, canonicals>>
      /\ runner[r] \in Runner /\ QueueStays /\ QueueRests
  BY DEF TInv, DeleteMerged, Merging, Writing, PastLoad, TypeOK, QueueRests
<1>2. CASE runner[r].todo = {}
  <2>1. GoTo(r, "index") /\ UNCHANGED <<file, mergedAway, spoiled, mishaps>>
    BY <1>2 DEF DeleteMerged
  <2> DEFINE x == [runner[r] EXCEPT !.pc = "index"]
  <2>2. /\ x \in Runner /\ x.pc = "index" /\ x.task = runner[r].task /\ x.read = runner[r].read
        /\ x.new = runner[r].new
    BY <1>1, MovedCall DEF Merging, Writing
  <2> HIDE DEF x
  <2>3. runner' = [runner EXCEPT ![r] = x]
    BY <2>1 DEF GoTo, x
  <2>4. /\ runner' \in [Runners -> Runner] /\ runner'[r] = x /\ Only(r)
        /\ Advances(r, "delete", "index")
    BY <1>1, <2>2, <2>3, CallAdvances
  <2>5. /\ TaskIsKnown(r)' /\ ReadIsWhole(r)' /\ Union(r, "facts")' = Union(r, "facts")
    BY <1>1, <2>2, <2>4, OnwardsKeepsReads DEF Merging, Writing
  <2>6. PlanFits(r)'
    BY <1>1, <2>2, <2>4, <2>5 DEF TInv, PlanFits, Writing
  <2>7. AllDeleted(r)
    BY <1>1, <1>2, <2>1, <2>2, <2>4 DEF AllDeleted, Onwards, Still
  <2>8. TypeOK'
    BY <1>1, <2>1, <2>4, WikiStepIsTyped DEF TypeOK
  <2>9. IndexIsBare'
    BY <2>1 DEF TInv, IndexIsBare, Exists
  <2> QED
    BY <2>4, <2>5, <2>6, <2>7, <2>8, <2>9, OthersKeepTypes DEF TInv
<1>3. CASE runner[r].todo # {}
  <2>1. PICK p \in runner[r].todo :
          /\ runner' = [runner EXCEPT ![r].todo = @ \ {p}]
          /\ \/ /\ file' = [file EXCEPT ![p] = Absent] /\ Fine
                /\ mergedAway' = mergedAway \cup {p} /\ UNCHANGED spoiled
             \/ /\ Mishap /\ UNCHANGED <<file, mergedAway>>
                /\ spoiled' = spoiled \cup Group(r)
    BY <1>3 DEF DeleteMerged
  <2> DEFINE x == [runner[r] EXCEPT !.todo = @ \ {p}]
  <2>2. runner[r].todo \subseteq Files /\ runner[r].todo \subseteq Gone(r)
    BY <1>1 DEF Runner, TInv, PlanFits
  <2>3. /\ x \in Runner /\ x.pc = "delete" /\ x.task = runner[r].task /\ x.read = runner[r].read
        /\ x.new = runner[r].new /\ x.todo = runner[r].todo \ {p}
    BY <1>1, <2>2 DEF Runner
  <2> HIDE DEF x
  <2>4. runner' = [runner EXCEPT ![r] = x]
    BY <2>1 DEF x
  <2>5. /\ runner' \in [Runners -> Runner] /\ runner'[r] = x /\ Only(r)
        /\ Advances(r, "delete", "delete")
    BY <1>1, <2>3, <2>4, CallAdvances
  <2>6. /\ TaskIsKnown(r)' /\ ReadIsWhole(r)' /\ Union(r, "facts")' = Union(r, "facts")
        /\ Gone(r)' = Gone(r)
    BY <1>1, <2>3, <2>5, OnwardsKeepsReads DEF Merging, Writing
  <2>7. PlanFits(r)'
    BY <1>1, <2>2, <2>3, <2>5, <2>6 DEF TInv, PlanFits, Writing
  <2>8. p \in Pages /\ p # Index /\ p \in Files /\ Group(r) \subseteq Pages
    BY <1>1, <2>2, TaskIsTyped, NameAssumption DEF Files
  <2>9. /\ file' \in [Files -> Content \cup {Absent}] /\ mishaps' \in 0..MaxMishaps
        /\ mergedAway' \cup canonicals' \cup spoiled' \subseteq Pages
    <3>1. CASE Mishap /\ UNCHANGED <<file, mergedAway>> /\ spoiled' = spoiled \cup Group(r)
      BY <1>1, <2>8, <3>1, MishapIsCounted DEF TypeOK
    <3>2. CASE /\ file' = [file EXCEPT ![p] = Absent] /\ Fine
               /\ mergedAway' = mergedAway \cup {p} /\ UNCHANGED spoiled
      BY <1>1, <2>8, <3>2 DEF TypeOK, Fine
    <3> QED
      BY <2>1, <3>1, <3>2
  <2>10. TypeOK'
    BY <1>1, <2>5, <2>9, WikiStepIsTyped DEF TypeOK
  <2>11. IndexIsBare'
    BY <1>1, <2>1, <2>8 DEF TInv, IndexIsBare, Exists, TypeOK, Files
  <2>12. PageDeleted(r) \/ PageLeft(r)
    BY <1>1, <2>1, <2>3, <2>5 DEF PageDeleted, PageLeft, Onwards, Still
  <2> QED
    BY <2>5, <2>6, <2>7, <2>10, <2>11, <2>12, OthersKeepTypes DEF TInv
<1> QED
  BY <1>2, <1>3

LEMMA FirstMatchIsTaken ==
  ASSUME queue \in Seq(Task), NEW ids \in SUBSET (1..Len(queue)),
         queue' = IF ids # {} THEN RemoveAt(queue, Min(ids)) ELSE queue
  PROVE  queue' \in Seq(Task)
<1>1. Len(queue) \in Nat /\ DOMAIN queue = 1..Len(queue)
  BY LenProperties
<1>2. CASE ids # {}
  <2>1. Min(ids) \in DOMAIN queue
    BY <1>1, <1>2, FirstOfSome
  <2> QED
    BY <1>2, <2>1, WithoutOne
<1> QED
  BY <1>2

LEMMA RewriteIndexKeepsTypes ==
  ASSUME TInv, NEW r \in Runners, RewriteIndex(r)
  PROVE  TInv' /\ (Quiet \/ Ended(r))
<1>1. /\ TypeOK /\ runner[r].pc = "index" /\ runner[r].pc \in Merging /\ PastLoad(r)
      /\ UNCHANGED <<open, processing, visits, usable, enqueued, clicks, notes, history,
                     mergedAway, canonicals>>
      /\ runner[r] \in Runner
  BY DEF TInv, RewriteIndex, Merging, Writing, PastLoad, TypeOK
<1>2. CASE Mishap /\ Failure(r) /\ Still
  BY <1>1, <1>2, MishapIsCounted, FailureIsQuiet
<1>3. CASE ~(Mishap /\ Failure(r) /\ Still)
  <2> DEFINE old == runner[r].read[Index]
             new == [old EXCEPT !.refs = WithoutEntries(@, r)]
  <2>1. /\ file' = IF new # old THEN [file EXCEPT ![Index] = new] ELSE file
        /\ UNCHANGED spoiled
        /\ IF ~open THEN Idle(r) /\ QueueStays /\ Fine
           ELSE /\ controller' = None
                /\ queue' = RemoveFirstMatch(queue, LAMBDA t : t.id = runner[r].task.id)
                /\ SaveQueue /\ GoTo(r, "done")
    BY <1>1, <1>3 DEF RewriteIndex, Still
  <2>2. old \in Content /\ old.facts = {}
    BY <1>1, ReadsAreTyped DEF TInv, ReadIsWhole
  <2>3. new \in Content /\ new.facts = {}
    BY <2>2 DEF Content, WithoutEntries
  <2>4. file' \in [Files -> Content \cup {Absent}]
    BY <1>1, <2>1, <2>3 DEF TypeOK
  <2>5. IndexIsBare'
    <3>1. Index \in Files
      BY DEF Files
    <3> HIDE DEF new, old
    <3>2. file'[Index] \in {new, file[Index]}
      BY <1>1, <2>1, <3>1 DEF TypeOK
    <3> QED
      BY <2>3, <3>2, NameAssumption DEF TInv, IndexIsBare, Exists
  <2>6. \E x \in Runner : /\ runner' = [runner EXCEPT ![r] = x] /\ x.pc \in {"idle", "done"}
    <3>1. CASE Idle(r)
      BY <3>1, FreshCalls DEF Idle
    <3>2. CASE GoTo(r, "done")
      BY <1>1, <3>2, MovedCall DEF GoTo
    <3> QED
      BY <2>1, <3>1, <3>2
  <2>7. PICK x \in Runner : runner' = [runner EXCEPT ![r] = x] /\ x.pc \in {"idle", "done"}
    BY <2>6
  <2>8. runner' \in [Runners -> Runner] /\ runner'[r] = x /\ Only(r)
    BY <1>1, <2>7 DEF TypeOK, Only
  <2>9. ~PastLoad(r)' /\ TaskIsKnown(r)' /\ ReadIsWhole(r)' /\ PlanFits(r)'
    BY <2>7, <2>8 DEF PastLoad, TaskIsKnown, ReadIsWhole, PlanFits, Merging, Writing
  <2>10. Ended(r)
    BY <1>1, <2>1, <2>8, <2>9 DEF Ended, marks
  <2>11. /\ queue' \in Seq(Task) /\ saved' \in Seq(Task) /\ mishaps' \in 0..MaxMishaps
         /\ controller' \in Runners \cup {None}
    <3>1. CASE ~open
      BY <1>1, <2>1, <3>1 DEF TypeOK, QueueStays, Fine
    <3>2. CASE open
      <4>1. queue' \in Seq(Task)
        <5> DEFINE ids == {i \in 1..Len(queue) : queue[i].id = runner[r].task.id}
        <5>1. ids \in SUBSET (1..Len(queue)) /\ queue \in Seq(Task)
          BY <1>1 DEF TypeOK
        <5>2. queue' = IF ids # {} THEN RemoveAt(queue, Min(ids)) ELSE queue
          BY <2>1, <3>2 DEF RemoveFirstMatch, SelectInSeq
        <5> HIDE DEF ids
        <5> QED
          BY <5>1, <5>2, FirstMatchIsTaken
      <4> QED
        BY <1>1, <2>1, <3>2, <4>1, SavedIsTyped
    <3> QED
      BY <3>1, <3>2
  <2>12. TypeOK'
    BY <1>1, <2>1, <2>4, <2>8, <2>11 DEF TypeOK, notes
  <2> QED
    BY <2>5, <2>8, <2>9, <2>10, <2>12, OthersKeepTypes DEF TInv
<1> QED
  BY <1>2, <1>3

LEMMA EditKeepsTypes ==
  ASSUME TInv, NEW p \in Pages, Edit(p)
  PROVE  TInv' /\ Edited
<1>1. TypeOK /\ clicks' \in 0..MaxClicks
  BY ClickIsCounted DEF TInv, Edit
<1>2. p \in Files /\ p # Index /\ file[p] \in Content
  BY <1>1, NameAssumption DEF Files, TypeOK, Edit, Exists
<1>3. file' = [file EXCEPT ![p] = [file[p] EXCEPT !.facts = @ \cup {0}]]
  BY DEF Edit
<1>4. [file[p] EXCEPT !.facts = @ \cup {0}] \in Content
  BY <1>2 DEF Content, Facts
<1>5. file' \in [Files -> Content \cup {Absent}]
  BY <1>1, <1>3, <1>4 DEF TypeOK
<1>6. TypeOK'
  BY <1>1, <1>5 DEF TypeOK, Edit, queueVars, notes, marks
<1>7. IndexIsBare'
  BY <1>1, <1>2, <1>3 DEF TInv, IndexIsBare, Exists, TypeOK, Files
<1>8. \A r \in Runners : TaskIsKnown(r)' /\ ReadIsWhole(r)' /\ PlanFits(r)'
  <2> SUFFICES ASSUME NEW r \in Runners
               PROVE  TaskIsKnown(r)' /\ ReadIsWhole(r)' /\ PlanFits(r)'
    OBVIOUS
  <2>1. runner'[r] = runner[r] /\ TaskIsKnown(r) /\ ReadIsWhole(r) /\ PlanFits(r)
    BY DEF TInv, Edit
  <2>2. Group(r)' = Group(r) /\ Gone(r)' = Gone(r)
    BY <2>1, TaskTellsGroup
  <2>3. Rewritten(r)' = Rewritten(r) /\ Union(r, "facts")' = Union(r, "facts")
    BY <2>1, ReadsTellPlan
  <2> QED
    BY <2>1, <2>2, <2>3 DEF TaskIsKnown, ReadIsWhole, PlanFits, PastLoad
<1>9. Edited
  BY DEF Edited, Edit, marks
<1> QED
  BY <1>6, <1>7, <1>8, <1>9 DEF TInv

LEMMA StutterKeepsTypes ==
  ASSUME TInv, UNCHANGED vars
  PROVE  TInv' /\ Quiet
<1>1. TypeOK' /\ Quiet /\ \A r \in Runners : TaskIsKnown(r)'
  BY DEF TInv, TypeOK, vars, queueVars, bounds, notes, marks, Quiet, Still, Same, PastLoad,
         TaskIsKnown
<1> QED
  BY <1>1, QuietKeepsTypes

-----------------------------------------------------------------------------
\* Every step keeps the types, and is of one of the kinds.
LEMMA StepKinds ==
  ASSUME TInv, [Next]_vars
  PROVE  TInv' /\ (Quiet \/ Edited \/ \E r \in Runners : MergeStep(r))
<1>1. CASE UNCHANGED vars
  BY <1>1, StutterKeepsTypes
<1>2. CASE pauseQueue
  BY <1>2, PauseIsQuiet
<1>3. CASE ChangeSettings
  BY <1>3, SettingsAreQuiet
<1>4. CASE Crash
  BY <1>4, CrashKeepsTypes
<1>5. CASE \E p \in Pages : Edit(p)
  BY <1>5, EditKeepsTypes
<1>6. ASSUME NEW r \in Runners, User(r) PROVE TInv' /\ Quiet
  BY <1>6, EnqueueIsQuiet, RetryIsQuiet, CancelIsQuiet, RestoreIsQuiet DEF User
<1>7. ASSUME NEW r \in Runners, Run(r) PROVE TInv' /\ (Quiet \/ MergeStep(r))
  <2>1. CASE Kick(r) \/ EndElsewhere(r) \/ Lookup(r) \/ Marked(r)
    BY <2>1, KickKeepsTypes, EndKeepsTypes, LookupKeepsTypes, MarkedKeepsTypes
  <2>2. CASE Load(r) \/ Answer(r) \/ Backup(r) \/ WriteCanonical(r)
    BY <2>2, LoadKeepsTypes, AnswerKeepsTypes, BackupKeepsTypes, WriteCanonicalKeepsTypes
       DEF MergeStep
  <2>3. CASE Rewrite(r) \/ DeleteMerged(r) \/ RewriteIndex(r)
    BY <2>3, RewriteKeepsTypes, DeleteKeepsTypes, RewriteIndexKeepsTypes DEF MergeStep
  <2> QED
    BY <1>7, <2>1, <2>2, <2>3 DEF Run
<1> QED
  BY <1>1, <1>2, <1>3, <1>4, <1>5, <1>6, <1>7 DEF Next

LEMMA TypesHoldAtFirst ==
  ASSUME Init
  PROVE  TInv
<1>1. file \in [Files -> Content \cup {Absent}] /\ IndexIsBare
  <2>1. \A f \in Files : [facts |-> {f} \cap Pages, refs |-> Refs[f]] \in Content
    BY NameAssumption DEF Content, Facts
  <2>2. Index \in Files /\ {Index} \cap Pages = {}
    BY NameAssumption DEF Files
  <2> QED
    BY <2>1, <2>2, NameAssumption DEF Init, IndexIsBare, Exists
<1>2. \A r \in Runners : runner[r] = Free
  BY DEF Init
<1>3. \A r \in Runners : TaskIsKnown(r) /\ ReadIsWhole(r) /\ PlanFits(r)
  BY <1>2, FreshCalls DEF TaskIsKnown, ReadIsWhole, PlanFits, PastLoad, Merging, Writing
<1>4. runner \in [Runners -> Runner]
  BY FreshCalls DEF Init
<1>5. {open, processing, usable, halted, disturbed} \subseteq BOOLEAN
  BY DEF Init
<1>6. enqueued \in 0..MaxTasks /\ clicks \in 0..MaxClicks /\ mishaps \in 0..MaxMishaps
  BY BoundAssumption DEF Init
<1>7. queue \in Seq(Task) /\ saved \in Seq(Task)
  BY DEF Init
<1> QED
  BY <1>1, <1>3, <1>4, <1>5, <1>6, <1>7 DEF TInv, TypeOK, Init

\* The types and what goes with them: a call past its look at the queue has a task,
\* one past its reads has read its group, and what it has left to do is of its plan.
THEOREM TInvHolds == Spec => []TInv
<1>1. Init => TInv
  BY TypesHoldAtFirst
<1>2. TInv /\ [Next]_vars => TInv'
  BY StepKinds
<1> QED
  BY <1>1, <1>2, PTL DEF Spec

\* Every variable keeps to its type: queue and saved list hold tasks, a merge
\* under way has read whole files, the wiki holds contents.
THEOREM TypeCorrect == Spec => []TypeOK
<1>1. TInv => TypeOK
  BY DEF TInv
<1> QED
  BY <1>1, TInvHolds, PTL

-----------------------------------------------------------------------------
(***************************************************************************)
(* Nothing that was told is lost.                                          *)
(***************************************************************************)
LEMMA HistoryGrows ==
  ASSUME history \subseteq history'
  PROVE  \A x : InHistory(x) => InHistory(x)'
BY DEF InHistory

\* A step that writes to no file.
LEMMA FactsStay ==
  ASSUME FactsAreRead, UNCHANGED file, history \subseteq history',
         \A r \in Runners : PastLoad(r)' =>
           \/ PastLoad(r) /\ runner'[r].read = runner[r].read
           \/ runner'[r].read = file
  PROVE  FactsAreRead' /\ \A x : Kept(x) => Kept(x)'
<1>1. \A x : InHistory(x) => InHistory(x)'
  BY HistoryGrows
<1>2. ASSUME NEW r \in Runners, PastLoad(r)', NEW f \in Files, Exists(f)', NEW x \in file'[f].facts
      PROVE  InHistory(x)' \/ (runner'[r].read[f] # Absent /\ x \in runner'[r].read[f].facts)
  BY <1>1, <1>2 DEF FactsAreRead, Exists
<1>3. \A x : Kept(x) => Kept(x)'
  BY DEF Kept, Exists
<1> QED
  BY <1>2, <1>3 DEF FactsAreRead

\* A step that writes or deletes a file, when the history has what was told there
\* and what will be.
LEMMA FactsMoveToHistory ==
  ASSUME TypeOK, FactsAreRead, history \subseteq history', NEW f \in Files, NEW c,
         file' = [file EXCEPT ![f] = c],
         Exists(f) => \A x \in file[f].facts : InHistory(x)',
         c # Absent => \A x \in c.facts : InHistory(x)',
         \A r \in Runners : PastLoad(r)' => PastLoad(r) /\ runner'[r].read = runner[r].read
  PROVE  FactsAreRead' /\ \A x : Kept(x) => Kept(x)'
<1>1. \A x : InHistory(x) => InHistory(x)'
  BY HistoryGrows
<1>2. file'[f] = c /\ \A g \in Files \ {f} : file'[g] = file[g]
  BY DEF TypeOK
<1>3. ASSUME NEW r \in Runners, PastLoad(r)', NEW g \in Files, Exists(g)', NEW x \in file'[g].facts
      PROVE  InHistory(x)' \/ (runner'[r].read[g] # Absent /\ x \in runner'[r].read[g].facts)
  <2>1. CASE g = f
    BY <1>2, <1>3, <2>1 DEF Exists
  <2>2. CASE g # f
    <3>1. Exists(g) /\ x \in file[g].facts /\ PastLoad(r) /\ runner'[r].read = runner[r].read
      BY <1>2, <1>3, <2>2 DEF Exists
    <3>2. InHistory(x) \/ (runner[r].read[g] # Absent /\ x \in runner[r].read[g].facts)
      BY <3>1 DEF FactsAreRead
    <3> QED
      BY <1>1, <3>1, <3>2
  <2> QED
    BY <2>1, <2>2
<1>4. ASSUME NEW x, Kept(x) PROVE Kept(x)'
  <2>1. CASE InHistory(x)
    BY <1>1, <2>1 DEF Kept, InHistory
  <2>2. CASE \E g \in Files : Exists(g) /\ x \in file[g].facts
    <3>1. PICK g \in Files : Exists(g) /\ x \in file[g].facts
      BY <2>2
    <3>2. CASE g = f
      BY <3>1, <3>2 DEF Kept, InHistory
    <3>3. CASE g # f
      BY <1>2, <3>1, <3>3 DEF Kept, Exists
    <3> QED
      BY <3>2, <3>3
  <2> QED
    BY <1>4, <2>1, <2>2 DEF Kept, InHistory
<1> QED
  BY <1>3, <1>4 DEF FactsAreRead

\* Backups stay while a merge goes on with the plan they were made for.
LEMMA BackupsStay ==
  ASSUME BackupsAreMade, history \subseteq history',
         \A r \in Runners : runner'[r].pc \in Writing \ {"backup"} =>
           /\ runner[r].pc \in Writing \ {"backup"}
           /\ runner'[r].task = runner[r].task /\ runner'[r].read = runner[r].read
  PROVE  BackupsAreMade'
<1> SUFFICES ASSUME NEW r \in Runners, runner'[r].pc \in Writing \ {"backup"},
                    NEW f \in (Group(r) \cup Rewritten(r))'
             PROVE  runner'[r].read[f] \in history'
  BY DEF BackupsAreMade
<1>1. f \in Group(r) \cup Rewritten(r)
  BY TaskTellsGroup, ReadsTellPlan
<1> QED
  BY <1>1 DEF BackupsAreMade

LEMMA OverwrittenIsKept ==
  ASSUME FInv, NEW r \in Runners, runner[r].pc \in Writing \ {"backup"},
         NEW f \in Group(r) \cup Rewritten(r), f \in Files, Exists(f), NEW x \in file[f].facts
  PROVE  InHistory(x)
BY DEF FInv, FactsAreRead, BackupsAreMade, InHistory, PastLoad

LEMMA QuietKeepsFacts ==
  ASSUME FInv, Quiet
  PROVE  FInv' /\ \A x : Kept(x) => Kept(x)'
<1>1. \A r \in Runners : PastLoad(r)' => PastLoad(r) /\ Same(r)
  BY DEF Quiet, Same, PastLoad
<1>2. FactsAreRead' /\ \A x : Kept(x) => Kept(x)'
  BY <1>1, FactsStay DEF FInv, Quiet, Still, Same
<1>3. BackupsAreMade'
  BY <1>1, BackupsStay DEF FInv, Quiet, Still, Same, PastLoad
<1> QED
  BY <1>2, <1>3 DEF FInv

LEMMA EditKeepsFacts ==
  ASSUME TInv, Edited, "quietWiki" \in Assumed
  PROVE  FInv' /\ \A x : Kept(x) => Kept(x)'
<1>1. \A r \in Runners : runner'[r] = runner[r] /\ runner[r].pc \notin Merging
  BY DEF Edited, Busy
<1>2. FInv'
  BY <1>1 DEF FInv, FactsAreRead, BackupsAreMade, PastLoad, Merging
<1>3. PICK p \in Pages : Exists(p) /\ file' = [file EXCEPT ![p].facts = @ \cup {0}]
  BY DEF Edited
<1>4. \A f \in Files : Exists(f) => Exists(f)' /\ file[f].facts \subseteq file'[f].facts
  <2>1. file \in [Files -> Content \cup {Absent}] /\ p \in Files
    BY DEF TInv, TypeOK, Files
  <2>2. file[p] \in Content
    BY <1>3, <2>1 DEF Exists
  <2>3. file' = [file EXCEPT ![p] = [file[p] EXCEPT !.facts = @ \cup {0}]]
    BY <1>3
  <2>4. [file[p] EXCEPT !.facts = @ \cup {0}] \in Content
    BY <2>2 DEF Content, Facts
  <2>5. [file[p] EXCEPT !.facts = @ \cup {0}].facts = file[p].facts \cup {0}
    BY <2>2 DEF Content
  <2> QED
    BY <2>1, <2>3, <2>4, <2>5, NameAssumption DEF Exists
<1>5. \A x : Kept(x) => Kept(x)'
  BY <1>4 DEF Kept, Edited
<1> QED
  BY <1>2, <1>5

\* What a merge is about to write is what its group told, or what the file told.
LEMMA MergeKeepsFacts ==
  ASSUME TInv, FInv, NEW r \in Runners, MergeStep(r)
  PROVE  FInv' /\ \A x : Kept(x) => Kept(x)'
<1>1. TypeOK /\ FactsAreRead /\ BackupsAreMade
  BY DEF TInv, FInv
<1>2. \A s \in Runners \ {r} : runner'[s] = runner[s] /\ (PastLoad(s)' => PastLoad(s))
  BY DEF MergeStep, Loaded, Answered, BackedUp, CanonicalWritten, FileRewritten, AllRewritten,
         PageDeleted, PageLeft, AllDeleted, Ended, Advances, Onwards, Only, PastLoad
<1>3. CASE Loaded(r)
  <2>1. runner'[r].read = file /\ runner'[r].pc = "stream" /\ UNCHANGED <<file, history>>
    BY <1>3 DEF Loaded, Advances, Still
  <2>2. FactsAreRead' /\ \A x : Kept(x) => Kept(x)'
    BY <1>1, <1>2, <2>1, FactsStay
  <2>3. BackupsAreMade'
    BY <1>1, <1>2, <2>1, BackupsStay DEF Writing
  <2> QED
    BY <2>2, <2>3 DEF FInv
<1>4. CASE Answered(r)
  <2>1. /\ runner'[r].read = runner[r].read /\ runner[r].pc = "stream" /\ runner'[r].pc = "backup"
        /\ UNCHANGED <<file, history>>
    BY <1>4 DEF Answered, Advances, Still
  <2>2. FactsAreRead' /\ \A x : Kept(x) => Kept(x)'
    BY <1>1, <1>2, <2>1, FactsStay DEF PastLoad
  <2>3. BackupsAreMade'
    BY <1>1, <1>2, <2>1, BackupsStay
  <2> QED
    BY <2>2, <2>3 DEF FInv
<1>5. CASE BackedUp(r)
  <2>1. /\ runner'[r].read = runner[r].read /\ runner'[r].task = runner[r].task
        /\ runner[r].pc = "backup" /\ runner'[r].pc = "canonical"
        /\ history' = history \cup {runner[r].read[f] : f \in Group(r) \cup Rewritten(r)}
        /\ UNCHANGED file
    BY <1>5 DEF BackedUp, Onwards, Advances
  <2>2. FactsAreRead' /\ \A x : Kept(x) => Kept(x)'
    BY <1>1, <1>2, <2>1, FactsStay DEF PastLoad, Writing
  <2>3. BackupsAreMade'
    <3> SUFFICES ASSUME NEW s \in Runners, runner'[s].pc \in Writing \ {"backup"},
                        NEW f \in (Group(s) \cup Rewritten(s))'
                 PROVE  runner'[s].read[f] \in history'
      BY DEF BackupsAreMade
    <3>1. CASE s = r
      <4>1. f \in Group(r) \cup Rewritten(r)
        BY <2>1, <3>1, TaskTellsGroup, ReadsTellPlan
      <4> QED
        BY <2>1, <3>1, <4>1
    <3>2. CASE s # r
      <4>1. runner'[s] = runner[s]
        BY <1>2, <3>2
      <4>2. f \in Group(s) \cup Rewritten(s)
        BY <4>1, TaskTellsGroup, ReadsTellPlan
      <4> QED
        BY <1>1, <2>1, <4>1, <4>2 DEF BackupsAreMade
    <3> QED
      BY <3>1, <3>2
  <2> QED
    BY <2>2, <2>3 DEF FInv
<1>6. CASE CanonicalWritten(r)
  <2>1. /\ runner'[r].read = runner[r].read /\ runner'[r].task = runner[r].task
        /\ runner[r].pc = "canonical" /\ runner'[r].pc = "rewrite"
        /\ UNCHANGED history
    BY <1>6 DEF CanonicalWritten, Onwards, Advances
  <2>2. PICK c \in runner[r].new : file' = [file EXCEPT ![Canonical(r)] = c]
    BY <1>6 DEF CanonicalWritten
  <2>3. Canonical(r) \in Group(r) /\ Canonical(r) \in Files
    BY <2>1, TaskIsTyped DEF Merging, Writing, Files
  <2>4. Exists(Canonical(r)) => \A x \in file[Canonical(r)].facts : InHistory(x)'
    BY <2>1, <2>3, OverwrittenIsKept DEF Writing, InHistory
  <2>5. ASSUME NEW x \in c.facts PROVE InHistory(x)'
    <3>1. c.facts \subseteq Union(r, "facts")
      BY <2>1, <2>2 DEF TInv, PlanFits, Writing
    <3>2. PICK p \in Group(r) : x \in runner[r].read[p].facts
      BY <2>5, <3>1 DEF Union
    <3>3. runner[r].read[p] \in history
      BY <1>1, <2>1, <3>2 DEF BackupsAreMade, Writing
    <3> QED
      BY <2>1, <3>2, <3>3 DEF InHistory
  <2>6. \A s \in Runners : PastLoad(s)' => PastLoad(s) /\ runner'[s].read = runner[s].read
    BY <1>2, <2>1 DEF PastLoad, Writing
  <2>7. FactsAreRead' /\ \A x : Kept(x) => Kept(x)'
    BY <1>1, <2>1, <2>2, <2>3, <2>4, <2>5, <2>6, FactsMoveToHistory
  <2>8. BackupsAreMade'
    BY <1>1, <1>2, <2>1, BackupsStay DEF Writing
  <2> QED
    BY <2>7, <2>8 DEF FInv
<1>7. CASE FileRewritten(r)
  <2>1. /\ runner'[r].read = runner[r].read /\ runner'[r].task = runner[r].task
        /\ runner[r].pc = "rewrite" /\ runner'[r].pc = "rewrite"
        /\ UNCHANGED history
    BY <1>7 DEF FileRewritten, Onwards, Advances
  <2>2. PICK f \in runner[r].todo :
          file' = [file EXCEPT ![f] = [runner[r].read[f] EXCEPT !.refs = Redirect(@, r)]]
    BY <1>7 DEF FileRewritten
  <2>3. f \in Rewritten(r) /\ f \in Files /\ runner[r].read[f] \in Content
    <3>1. f \in Rewritten(r) /\ PastLoad(r)
      BY <2>1, <2>2 DEF TInv, PlanFits, PastLoad, Writing
    <3> QED
      BY <3>1, ReadsAreTyped
  <2> DEFINE c == [runner[r].read[f] EXCEPT !.refs = Redirect(@, r)]
  <2>4. c.facts = runner[r].read[f].facts
    BY <2>1, <2>3, RedirectIsTyped DEF Merging, Writing
  <2>5. Exists(f) => \A x \in file[f].facts : InHistory(x)'
    BY <2>1, <2>3, OverwrittenIsKept DEF Writing, InHistory
  <2>6. \A x \in runner[r].read[f].facts : InHistory(x)'
    BY <1>1, <2>1, <2>3 DEF BackupsAreMade, Writing, InHistory
  <2>7. \A s \in Runners : PastLoad(s)' => PastLoad(s) /\ runner'[s].read = runner[s].read
    BY <1>2, <2>1 DEF PastLoad, Writing
  <2> HIDE DEF c
  <2>8. file' = [file EXCEPT ![f] = c]
    BY <2>2 DEF c
  <2>9. FactsAreRead' /\ \A x : Kept(x) => Kept(x)'
    BY <1>1, <2>1, <2>3, <2>4, <2>5, <2>6, <2>7, <2>8, FactsMoveToHistory
  <2>10. BackupsAreMade'
    BY <1>1, <1>2, <2>1, BackupsStay DEF Writing
  <2> QED
    BY <2>9, <2>10 DEF FInv
<1>8. CASE AllRewritten(r) \/ PageLeft(r) \/ AllDeleted(r)
  <2>1. /\ runner'[r].read = runner[r].read /\ runner'[r].task = runner[r].task
        /\ runner[r].pc \in {"rewrite", "delete"} /\ UNCHANGED <<file, history>>
    BY <1>8 DEF AllRewritten, PageLeft, AllDeleted, Onwards, Advances, Still
  <2>2. FactsAreRead' /\ \A x : Kept(x) => Kept(x)'
    BY <1>1, <1>2, <2>1, FactsStay DEF PastLoad, Writing
  <2>3. BackupsAreMade'
    BY <1>1, <1>2, <2>1, BackupsStay DEF Writing
  <2> QED
    BY <2>2, <2>3 DEF FInv
<1>9. CASE PageDeleted(r)
  <2>1. /\ runner'[r].read = runner[r].read /\ runner'[r].task = runner[r].task
        /\ runner[r].pc = "delete" /\ runner'[r].pc = "delete" /\ UNCHANGED history
    BY <1>9 DEF PageDeleted, Onwards, Advances
  <2>2. PICK p \in runner[r].todo : file' = [file EXCEPT ![p] = Absent]
    BY <1>9 DEF PageDeleted
  <2>3. p \in Group(r) /\ p \in Files
    BY <2>1, <2>2, TaskIsTyped DEF TInv, PlanFits, Gone, Merging, Writing, Files
  <2>4. Exists(p) => \A x \in file[p].facts : InHistory(x)'
    BY <2>1, <2>3, OverwrittenIsKept DEF Writing, InHistory
  <2>5. \A s \in Runners : PastLoad(s)' => PastLoad(s) /\ runner'[s].read = runner[s].read
    BY <1>2, <2>1 DEF PastLoad, Writing
  <2>6. FactsAreRead' /\ \A x : Kept(x) => Kept(x)'
    BY <1>1, <2>1, <2>2, <2>3, <2>4, <2>5, FactsMoveToHistory
  <2>7. BackupsAreMade'
    BY <1>1, <1>2, <2>1, BackupsStay DEF Writing
  <2> QED
    BY <2>6, <2>7 DEF FInv
<1>10. CASE Ended(r)
  <2> DEFINE new == [runner[r].read[Index] EXCEPT !.refs = WithoutEntries(@, r)]
             c   == IF new # runner[r].read[Index] THEN new ELSE file[Index]
  <2>1. runner[r].pc = "index" /\ ~PastLoad(r)' /\ UNCHANGED history /\ PastLoad(r)
    BY <1>10 DEF Ended, PastLoad, Writing
  <2>2. runner[r].read[Index] \in Content /\ runner[r].read[Index].facts = {}
    BY <2>1, ReadsAreTyped DEF TInv, ReadIsWhole
  <2>3. new.facts = {}
    BY <2>2 DEF Content
  <2>4. file[Index].facts = {} /\ Index \in Files
    BY DEF TInv, IndexIsBare, Files
  <2>5. c.facts = {}
    BY <2>3, <2>4
  <2>6. file' = [file EXCEPT ![Index] = c]
    BY <1>1, <1>10, <2>4 DEF Ended, TypeOK
  <2>7. \A s \in Runners : PastLoad(s)' => PastLoad(s) /\ runner'[s].read = runner[s].read
    BY <1>2, <2>1
  <2> HIDE DEF c
  <2>8. FactsAreRead' /\ \A x : Kept(x) => Kept(x)'
    BY <1>1, <2>1, <2>4, <2>5, <2>6, <2>7, FactsMoveToHistory
  <2>9. BackupsAreMade'
    BY <1>1, <1>2, <2>1, BackupsStay DEF PastLoad, Writing
  <2> QED
    BY <2>8, <2>9 DEF FInv
<1> QED
  BY <1>3, <1>4, <1>5, <1>6, <1>7, <1>8, <1>9, <1>10 DEF MergeStep

LEMMA StepKeepsFacts ==
  ASSUME TInv, FInv, "quietWiki" \in Assumed, [Next]_vars
  PROVE  FInv' /\ \A x : Kept(x) => Kept(x)'
BY StepKinds, QuietKeepsFacts, EditKeepsFacts, MergeKeepsFacts

\* With nobody editing, what a file tells every merge under way has read, or the
\* history has; and a merge that writes has put away what it will overwrite
\* (executeMerge).
THEOREM FInvHolds == ASSUME "quietWiki" \in Assumed PROVE Spec => []FInv
<1>1. Init => FInv
  BY DEF Init, FInv, FactsAreRead, BackupsAreMade, PastLoad, Writing, Free
<1>2. TInv /\ FInv /\ [Next]_vars => FInv'
  BY StepKeepsFacts
<1> QED
  BY <1>1, <1>2, TInvHolds, PTL DEF Spec

\* Whatever is cancelled, aborted, failing or cut off, and though merges overlap,
\* what a page told is told by a page or kept in the history: a merge has put away
\* what it read before it writes, and what it did not read another merge wrote,
\* that had put it away (executeMerge).  Nobody edits a page meanwhile.
THEOREM FactsSurviveMerges == ASSUME "quietWiki" \in Assumed PROVE Spec => NothingIsLost
<1>1. TInv /\ FInv /\ [Next]_vars => [\A x \in Facts : Kept(x) => Kept(x)']_vars
  BY StepKeepsFacts
<1> QED
  BY <1>1, TInvHolds, FInvHolds, PTL DEF Spec, NothingIsLost

-----------------------------------------------------------------------------
(***************************************************************************)
(* A pending merge has something to wait for.                              *)
(***************************************************************************)
Held(r) == runner[r].pc \in {"marked", "done"} \cup Merging

LEMMA PendingIsInQueue ==
  ASSUME FirstPending' # 0
  PROVE  \E i \in 1..Len(queue') : queue'[i].status = "pending"
BY DEF FirstPending, SelectInSeq

LEMMA QueueTellsFirst ==
  ASSUME UNCHANGED queue
  PROVE  FirstPending' = FirstPending
BY DEF FirstPending, SelectInSeq

\* Somebody is there, so nothing is stranded.
LEMMA SomebodyWaits ==
  ASSUME FlagIsHeld', NEW r \in Runners, runner'[r].pc # "idle"
  PROVE  QInv'
BY DEF QInv, NoStrandedTask

LEMMA ClosedIsSound ==
  ASSUME ~open', ~processing'
  PROVE  QInv'
BY DEF QInv, FlagIsHeld, NoStrandedTask

\* A call that did not hold the flag begins anew or moves, the flag stays or falls.
LEMMA FlagStaysHeld ==
  ASSUME FlagIsHeld, UNCHANGED open, NEW r, ~Held(r), processing' => processing,
         \A s \in Runners \ {r} : runner'[s].pc = runner[s].pc
  PROVE  FlagIsHeld'
BY DEF FlagIsHeld, Held

\* A merge goes on, or leaves a call behind that will clear the flag.
LEMMA MergeHoldsFlag ==
  ASSUME QInv, UNCHANGED <<open, processing>>, NEW r \in Runners,
         open => runner'[r].pc \in {"marked", "done"} \cup Merging,
         \A s \in Runners \ {r} : runner'[s] = runner[s]
  PROVE  QInv'
<1>1. CASE ~open
  BY <1>1, ClosedIsSound DEF QInv, FlagIsHeld
<1>2. CASE open
  BY <1>2, SomebodyWaits DEF FlagIsHeld, Merging, Writing
<1> QED
  BY <1>1, <1>2 DEF QInv, FlagIsHeld

LEMMA UserKeepsQInv ==
  ASSUME TInv, QInv, NEW r \in Runners, User(r)
  PROVE  QInv'
<1>1. runner \in [Runners -> Runner] /\ FlagIsHeld
  BY DEF TInv, TypeOK, QInv
<1>2. ASSUME ThenKick(r), UNCHANGED open, processing' => processing PROVE QInv'
  <2>1. ~Held(r) /\ runner'[r].pc = "kick" /\ \A s \in Runners \ {r} : runner'[s] = runner[s]
    BY <1>1, <1>2, FreshCalls DEF ThenKick, Held, Merging, Writing
  <2>2. FlagIsHeld'
    BY <1>1, <1>2, <2>1, FlagStaysHeld
  <2> QED
    BY <2>1, <2>2, SomebodyWaits
<1>3. ASSUME NEW m \in Merges, enqueueMerge(m, r) PROVE QInv'
  BY <1>2, <1>3 DEF enqueueMerge
<1>4. ASSUME NEW i \in DOMAIN queue, retryTask(i, r) PROVE QInv'
  BY <1>2, <1>4 DEF retryTask
<1>5. ASSUME NEW i \in DOMAIN queue, cancelTask(i, r) PROVE QInv'
  <2>1. UNCHANGED open
    BY <1>5 DEF cancelTask
  <2>2. CASE ThenKick(r) /\ UNCHANGED processing
    BY <1>2, <2>1, <2>2
  <2>3. CASE runner' = [Aborted EXCEPT ![r] = [Free EXCEPT !.pc = "kick"]] /\ processing' = FALSE
    <3>1. runner'[r].pc = "kick"
      BY <2>3, AbortedCalls, FreshCalls
    <3>2. FlagIsHeld'
      BY <2>3 DEF FlagIsHeld
    <3> QED
      BY <3>1, <3>2, SomebodyWaits
  <2> QED
    BY <1>5, <2>2, <2>3 DEF cancelTask
<1>6. ASSUME restoreQueue(r) PROVE QInv'
  <2>1. FlagIsHeld'
    BY <1>6 DEF restoreQueue, FlagIsHeld
  <2>2. queue' = [i \in DOMAIN saved |->
                    IF saved[i].status = "processing" THEN [saved[i] EXCEPT !.status = "pending"]
                    ELSE saved[i]]
    BY <1>6 DEF restoreQueue
  <2>3. queue' \in Seq(Task)
    BY <2>2, PausedTasks DEF TInv, TypeOK
  <2>4. CASE \E i \in DOMAIN queue' : queue'[i].status = "pending"
    <3>1. ThenKick(r)
      BY <1>6, <2>4 DEF restoreQueue
    <3>2. runner'[r].pc = "kick"
      BY <1>1, <3>1, FreshCalls DEF ThenKick
    <3> QED
      BY <2>1, <3>2, SomebodyWaits
  <2>5. CASE ~\E i \in DOMAIN queue' : queue'[i].status = "pending"
    <3>1. DOMAIN queue' = 1..Len(queue')
      BY <2>3, LenProperties
    <3>2. FirstPending' = 0
      BY <2>5, <3>1, PendingIsInQueue
    <3> QED
      BY <2>1, <3>2 DEF QInv, NoStrandedTask
  <2> QED
    BY <2>4, <2>5
<1> QED
  BY <1>3, <1>4, <1>5, <1>6 DEF User

LEMMA OthersKeepQInv ==
  ASSUME QInv, pauseQueue \/ ChangeSettings \/ Crash \/ \E p \in Pages : Edit(p)
  PROVE  QInv'
<1>1. CASE pauseQueue
  BY <1>1, ClosedIsSound DEF pauseQueue
<1>2. CASE Crash
  BY <1>2, ClosedIsSound DEF Crash
<1>3. CASE ChangeSettings \/ \E p \in Pages : Edit(p)
  <2>1. UNCHANGED <<queueVars, runner, notes>>
    BY <1>3 DEF ChangeSettings, Edit
  <2> QED
    BY <2>1, QueueTellsFirst DEF QInv, FlagIsHeld, NoStrandedTask, queueVars, notes
<1> QED
  BY <1>1, <1>2, <1>3

LEMMA StartsKeepQInv ==
  ASSUME TInv, QInv, NEW r \in Runners,
         Kick(r) \/ EndElsewhere(r) \/ Lookup(r) \/ Marked(r)
  PROVE  QInv'
<1>1. runner \in [Runners -> Runner] /\ FlagIsHeld /\ NoStrandedTask
  BY DEF TInv, TypeOK, QInv
<1>2. ASSUME NEW next, GoTo(r, next) PROVE runner'[r].pc = next /\ \A s \in Runners \ {r} : runner'[s] = runner[s]
  BY <1>1, <1>2 DEF GoTo, Runner
<1>3. ASSUME Idle(r) PROVE runner'[r].pc = "idle" /\ \A s \in Runners \ {r} : runner'[s] = runner[s]
  BY <1>1, <1>3, FreshCalls DEF Idle
<1>4. CASE Kick(r)
  <2>1. /\ UNCHANGED <<open, queue>> /\ processing' = (processing /\ runner[r].pc # "done")
        /\ runner[r].pc \in {"kick", "done"} /\ FirstPending' = FirstPending
    BY <1>4, QueueTellsFirst DEF Kick
  <2> DEFINE x == [Free EXCEPT !.pc = "lookup", !.task = queue[FirstPending], !.visit = visits]
  <2>2. x.pc = "lookup"
    BY DEF Free
  <2>3. \A s \in Runners \ {r} : runner'[s] = runner[s]
    BY <1>1, <1>3, <1>4 DEF Kick
  <2>4. FlagIsHeld'
    <3>1. CASE runner[r].pc = "done"
      BY <2>1, <3>1 DEF FlagIsHeld
    <3>2. CASE runner[r].pc = "kick"
      <4>1. ~Held(r)
        BY <3>2 DEF Held, Merging, Writing
      <4> QED
        BY <1>1, <2>1, <2>3, <4>1, FlagStaysHeld
    <3> QED
      BY <2>1, <3>1, <3>2
  <2>5. CASE (runner[r].pc = "done" \/ ~processing) /\ open /\ FirstPending # 0
    <3>1. runner' = [runner EXCEPT ![r] = x]
      BY <1>4, <2>5 DEF Kick
    <3>2. runner'[r].pc = "lookup"
      BY <1>1, <2>2, <3>1
    <3> QED
      BY <2>4, <3>2, SomebodyWaits
  <2>6. CASE ~open \/ FirstPending = 0
    BY <2>1, <2>4, <2>6 DEF QInv, NoStrandedTask
  <2>7. CASE runner[r].pc # "done" /\ processing
    <3>1. PICK s \in Runners : Held(s)
      BY <1>1, <2>7 DEF FlagIsHeld, Held
    <3>2. s # r /\ runner[s].pc # "idle"
      BY <2>1, <2>7, <3>1 DEF Held, Merging, Writing
    <3>3. runner'[s].pc # "idle"
      BY <2>3, <3>2
    <3> QED
      BY <2>4, <3>3, SomebodyWaits
  <2> QED
    BY <2>5, <2>6, <2>7
<1>5. CASE EndElsewhere(r)
  <2>1. ~open' /\ ~processing'
    BY <1>1, <1>5 DEF EndElsewhere, queueVars, FlagIsHeld
  <2> QED
    BY <2>1 DEF QInv, FlagIsHeld, NoStrandedTask
<1>6. CASE Lookup(r)
  <2>1. UNCHANGED open /\ ~Held(r)
    BY <1>6 DEF Lookup, Held, Merging, Writing
  <2>2. CASE ~open /\ UNCHANGED processing
    BY <1>1, <2>1, <2>2 DEF QInv, FlagIsHeld, NoStrandedTask
  <2>3. CASE GoTo(r, "kick") /\ UNCHANGED processing
    <3>1. FlagIsHeld'
      BY <1>1, <1>2, <2>1, <2>3, FlagStaysHeld
    <3> QED
      BY <1>2, <2>3, <3>1, SomebodyWaits
  <2>4. CASE GoTo(r, "marked") /\ open
    <3>1. runner'[r].pc = "marked"
      BY <1>2, <2>4
    <3>2. FlagIsHeld'
      BY <2>1, <2>4, <3>1 DEF FlagIsHeld
    <3> QED
      BY <3>1, <3>2, SomebodyWaits
  <2> QED
    BY <1>6, <2>2, <2>3, <2>4 DEF Lookup
<1>7. CASE Marked(r)
  <2>1. UNCHANGED open
    BY <1>7 DEF Marked
  <2>2. CASE ~open /\ UNCHANGED processing
    BY <1>1, <2>1, <2>2 DEF QInv, FlagIsHeld, NoStrandedTask
  <2>3. CASE processing' = FALSE /\ halted' = TRUE
    BY <2>3 DEF QInv, FlagIsHeld, NoStrandedTask
  <2>4. CASE GoTo(r, "load") /\ UNCHANGED processing
    BY <1>2, <2>1, <2>4, MergeHoldsFlag DEF Merging
  <2> QED
    BY <1>7, <2>2, <2>3, <2>4 DEF Marked, TInv, TypeOK
<1> QED
  BY <1>4, <1>5, <1>6, <1>7

\* Where a step of a merge leads.
LEMMA MergeLeads ==
  ASSUME TInv, NEW r \in Runners,
         \/ Load(r) \/ Answer(r) \/ Backup(r) \/ WriteCanonical(r)
         \/ Rewrite(r) \/ DeleteMerged(r) \/ RewriteIndex(r)
  PROVE  /\ UNCHANGED <<open, processing, disturbed>> /\ runner[r].pc \in Merging
         /\ runner'[r].pc \in {"idle", "done"} \cup Merging
         /\ open => runner'[r].pc # "idle"
         /\ \A s \in Runners \ {r} : runner'[s] = runner[s]
<1> USE DEF Merging, Writing
<1>1. UNCHANGED <<open, processing, disturbed>> /\ runner[r].pc \in Merging
  BY DEF Load, Answer, Backup, WriteCanonical, Rewrite, DeleteMerged, RewriteIndex, notes
<1>2. runner \in [Runners -> Runner]
  BY DEF TInv, TypeOK
<1> DEFINE To(next) == runner'[r].pc = next /\ \A s \in Runners \ {r} : runner'[s] = runner[s]
<1>3. ASSUME NEW next, GoTo(r, next) PROVE To(next)
  BY <1>2, <1>3 DEF GoTo, Runner
<1>4. ASSUME Idle(r) PROVE To("idle")
  BY <1>2, <1>4, FreshCalls DEF Idle
<1>5. ASSUME Failure(r) PROVE IF open THEN To("done") ELSE To("idle")
  BY <1>3, <1>4, <1>5 DEF Failure
<1>6. CASE Load(r)
  <2>1. CASE runner' = [runner EXCEPT ![r].pc = "stream", ![r].read = file]
    BY <1>1, <1>2, <2>1 DEF Runner
  <2> QED
    BY <1>1, <1>5, <1>6, <2>1 DEF Load
<1>7. CASE Answer(r)
  <2>1. CASE \E new : runner' = [runner EXCEPT ![r].pc = "backup", ![r].new = new]
    BY <1>1, <1>2, <2>1 DEF Runner
  <2> QED
    BY <1>1, <1>5, <1>7, <2>1 DEF Answer
<1>8. CASE Backup(r)
  BY <1>1, <1>3, <1>5, <1>8 DEF Backup, Writes
<1>9. CASE WriteCanonical(r)
  <2>1. CASE runner' = [runner EXCEPT ![r].pc = "rewrite", ![r].todo = Rewritten(r)]
    BY <1>1, <1>2, <2>1 DEF Runner
  <2> QED
    BY <1>1, <1>5, <1>9, <2>1 DEF WriteCanonical, Writes
<1>10. ASSUME NEW f, runner' = [runner EXCEPT ![r].todo = @ \ {f}] PROVE To(runner[r].pc)
  BY <1>2, <1>10 DEF Runner
<1>11. CASE Rewrite(r)
  <2>1. CASE runner' = [runner EXCEPT ![r].pc = "delete", ![r].todo = Gone(r)]
    BY <1>1, <1>2, <2>1 DEF Runner
  <2> QED
    BY <1>1, <1>5, <1>10, <1>11, <2>1 DEF Rewrite, Writes
<1>12. CASE DeleteMerged(r)
  BY <1>1, <1>3, <1>10, <1>12 DEF DeleteMerged
<1>13. CASE RewriteIndex(r)
  BY <1>1, <1>3, <1>4, <1>5, <1>13 DEF RewriteIndex
<1> QED
  BY <1>6, <1>7, <1>8, <1>9, <1>11, <1>12, <1>13

LEMMA StepKeepsQInv ==
  ASSUME TInv, QInv, [Next]_vars
  PROVE  QInv'
<1>1. CASE UNCHANGED vars
  BY <1>1, QueueTellsFirst DEF vars, queueVars, notes, QInv, FlagIsHeld, NoStrandedTask
<1>2. CASE pauseQueue \/ ChangeSettings \/ Crash \/ \E p \in Pages : Edit(p)
  BY <1>2, OthersKeepQInv
<1>3. ASSUME NEW r \in Runners, User(r) PROVE QInv'
  BY <1>3, UserKeepsQInv
<1>4. ASSUME NEW r \in Runners, Run(r) PROVE QInv'
  <2>1. CASE Kick(r) \/ EndElsewhere(r) \/ Lookup(r) \/ Marked(r)
    BY <2>1, StartsKeepQInv
  <2>2. CASE \/ Load(r) \/ Answer(r) \/ Backup(r) \/ WriteCanonical(r)
             \/ Rewrite(r) \/ DeleteMerged(r) \/ RewriteIndex(r)
    BY <2>2, MergeLeads, MergeHoldsFlag
  <2> QED
    BY <1>4, <2>1, <2>2 DEF Run
<1> QED
  BY <1>1, <1>2, <1>3, <1>4 DEF Next

\* While `processing` is set a call is there that will clear it, and pending merges
\* have one to wait for (processNext, enqueueMerge, retryTask).
THEOREM QInvHolds == Spec => []QInv
<1>1. Init => QInv
  <2> SUFFICES ASSUME Init PROVE QInv
    OBVIOUS
  <2>1. FirstPending = 0
    BY DEF Init, FirstPending, SelectInSeq
  <2> QED
    BY <2>1 DEF Init, QInv, FlagIsHeld, NoStrandedTask
<1>2. TInv /\ QInv /\ [Next]_vars => QInv'
  BY StepKeepsQInv
<1> QED
  BY <1>1, <1>2, TInvHolds, PTL DEF Spec

\* A pending merge has a call to wait for, unless the last one gave up for want of
\* a usable model: while `processing` turns a call away, the one that set it is
\* still there and will look at the queue when it ends (processNext).
THEOREM PendingMergesAreDriven == Spec => []NoStrandedTask
<1>1. QInv => NoStrandedTask
  BY DEF QInv
<1> QED
  BY <1>1, QInvHolds, PTL

-----------------------------------------------------------------------------
(***************************************************************************)
(* Merges run one at a time.                                               *)
(***************************************************************************)
Claiming(r) == runner[r].pc \in {"lookup", "done"}

LEMMA QuickStaysOne ==
  ASSUME NEW r, \A s \in Runners \ {r} : ~Quick(s) /\ runner'[s].pc = runner[s].pc
  PROVE  OneQuick'
BY DEF OneQuick, Quick

\* A call that was active goes on or ends, or one that was not stays so.
LEMMA ActiveStaysOne ==
  ASSUME OneActive, NEW r, UNCHANGED <<processing, disturbed>>,
         \A s \in Runners \ {r} : runner'[s].pc = runner[s].pc,
         Active(r)' => Active(r), Claiming(r)' => Claiming(r) \/ Active(r)
  PROVE  OneActive'
<1> SUFFICES ASSUME ~disturbed
             PROVE  /\ \A s, t \in Runners : Active(s)' /\ Active(t)' => s = t
                    /\ \A s \in Runners : Active(s)' => processing
                    /\ \A s \in Runners : Claiming(s)' => \A t \in Runners : ~Active(t)'
  BY DEF OneActive, Claiming
<1>1. \A s \in Runners : Active(s)' => Active(s)
  BY DEF Active
<1>2. \A s \in Runners \ {r} : Claiming(s)' => Claiming(s)
  BY DEF Claiming
<1>3. /\ \A s, t \in Runners : Active(s) /\ Active(t) => s = t
      /\ \A s \in Runners : Active(s) => processing
      /\ \A s \in Runners : Claiming(s) => \A t \in Runners : ~Active(t)
  BY DEF OneActive, Claiming
<1>4. Claiming(r)' => ~Active(r)'
  BY DEF Claiming, Active, Merging, Writing
<1> QED
  BY <1>1, <1>2, <1>3, <1>4

\* Nobody is active.
LEMMA NobodyIsActive ==
  ASSUME \A s \in Runners : ~Active(s)'
  PROVE  OneActive'
BY DEF OneActive

LEMMA NoFlagNobodyActive ==
  ASSUME OneActive, ~disturbed, ~processing
  PROVE  \A s \in Runners : ~Active(s)
BY DEF OneActive

LEMMA UserKeepsOInv ==
  ASSUME TInv, QInv, OInv, NEW r \in Runners, User(r),
         \A s \in Runners \ {r} : ~Quick(s)
  PROVE  OInv'
<1>1. runner \in [Runners -> Runner] /\ OneActive
  BY DEF TInv, TypeOK, OInv
<1> DEFINE Kicked == /\ runner[r].pc = "idle" /\ runner'[r].pc = "kick"
                     /\ \A s \in Runners \ {r} : runner'[s].pc = runner[s].pc
<1>2. ThenKick(r) => Kicked
  BY <1>1, FreshCalls DEF ThenKick
<1>3. ASSUME Kicked, UNCHANGED <<processing, disturbed>> PROVE OneActive'
  <2>1. ~Active(r)' /\ ~Claiming(r)'
    BY <1>3 DEF Active, Claiming, Merging, Writing
  <2> HIDE DEF Kicked
  <2>2. \A s \in Runners \ {r} : runner'[s].pc = runner[s].pc
    BY <1>3 DEF Kicked
  <2> QED
    BY <1>1, <1>3, <2>1, <2>2, ActiveStaysOne
<1>4. ASSUME NEW m \in Merges, enqueueMerge(m, r) PROVE Kicked /\ OneActive'
  BY <1>2, <1>3, <1>4 DEF enqueueMerge, notes
<1>5. ASSUME NEW i \in DOMAIN queue, retryTask(i, r) PROVE Kicked /\ OneActive'
  BY <1>2, <1>3, <1>5 DEF retryTask, notes
<1>6. ASSUME NEW i \in DOMAIN queue, cancelTask(i, r) PROVE Kicked /\ OneActive'
  <2>1. CASE ThenKick(r) /\ UNCHANGED <<processing, disturbed>>
    BY <1>2, <1>3, <2>1
  <2>2. CASE runner' = [Aborted EXCEPT ![r] = [Free EXCEPT !.pc = "kick"]] /\ disturbed' = TRUE
    <3>1. runner[r].pc = "idle"
      BY <1>6 DEF cancelTask
    <3>2. runner'[r].pc = "kick" /\ \A s \in Runners \ {r} : runner'[s].pc = runner[s].pc
      BY <2>2, AbortedCalls, FreshCalls
    <3> QED
      BY <2>2, <3>1, <3>2 DEF OneActive
  <2> QED
    BY <1>6, <2>1, <2>2 DEF cancelTask
<1>7. ASSUME restoreQueue(r)
      PROVE  (\A s \in Runners \ {r} : runner'[s].pc = runner[s].pc) /\ OneActive'
  <2>1. ~processing /\ UNCHANGED disturbed
    BY <1>7 DEF restoreQueue, notes, QInv, FlagIsHeld
  <2>2. Kicked \/ UNCHANGED runner
    BY <1>2, <1>7 DEF restoreQueue
  <2>3. CASE disturbed
    BY <2>1, <2>2, <2>3 DEF OneActive
  <2>4. CASE ~disturbed
    <3>1. \A s \in Runners : ~Active(s)
      BY <1>1, <2>1, <2>4, NoFlagNobodyActive
    <3>2. \A s \in Runners : ~Active(s)'
      BY <2>2, <3>1 DEF Active, Merging, Writing
    <3> QED
      BY <2>2, <3>2, NobodyIsActive
  <2> QED
    BY <2>3, <2>4
<1>8. (\A s \in Runners \ {r} : runner'[s].pc = runner[s].pc) /\ OneActive'
  BY <1>4, <1>5, <1>6, <1>7 DEF User
<1> QED
  BY <1>8, QuickStaysOne DEF OInv

LEMMA OthersKeepOInv ==
  ASSUME TInv, OInv, \A s \in Runners : ~Quick(s),
         pauseQueue \/ ChangeSettings \/ Crash \/ \E p \in Pages : Edit(p)
  PROVE  OInv'
<1>1. CASE pauseQueue
  <2>1. \A s \in Runners : runner'[s].pc = runner[s].pc
    BY <1>1, AbortedCalls DEF pauseQueue
  <2>2. OneQuick'
    BY <2>1, QuickStaysOne
  <2>3. CASE disturbed'
    BY <2>2, <2>3 DEF OInv, OneActive
  <2>4. CASE ~disturbed'
    <3>1. ~disturbed /\ ~processing
      BY <1>1, <2>4 DEF pauseQueue
    <3>2. \A s \in Runners : ~Active(s)'
      BY <2>1, <3>1, NoFlagNobodyActive DEF OInv, Active
    <3> QED
      BY <2>2, <3>2, NobodyIsActive DEF OInv
  <2> QED
    BY <2>3, <2>4
<1>2. CASE Crash
  <2>1. \A s \in Runners : runner'[s].pc = "idle"
    BY <1>2, FreshCalls DEF Crash
  <2> QED
    BY <2>1 DEF OInv, OneQuick, OneActive, Quick, Active, Merging, Writing
<1>3. CASE ChangeSettings \/ \E p \in Pages : Edit(p)
  <2>1. UNCHANGED <<processing, disturbed, runner>>
    BY <1>3 DEF ChangeSettings, Edit, queueVars, notes
  <2> QED
    BY <2>1 DEF OInv, OneQuick, OneActive, Quick, Active
<1> QED
  BY <1>1, <1>2, <1>3

LEMMA StartsKeepOInv ==
  ASSUME TInv, QInv, OInv, NEW r \in Runners, \A s \in Runners \ {r} : ~Quick(s),
         Kick(r) \/ EndElsewhere(r) \/ Lookup(r) \/ Marked(r)
  PROVE  OInv'
<1>1. runner \in [Runners -> Runner] /\ OneActive
  BY DEF TInv, TypeOK, OInv
<1> DEFINE To(next) == runner'[r].pc = next /\ \A s \in Runners \ {r} : runner'[s].pc = runner[s].pc
<1>2. ASSUME NEW next, GoTo(r, next) PROVE To(next)
  BY <1>1, <1>2 DEF GoTo, Runner
<1>3. Idle(r) => To("idle")
  BY <1>1, FreshCalls DEF Idle
<1>4. ASSUME NEW next \in {"idle", "kick"}, To(next), UNCHANGED <<processing, disturbed>>
      PROVE  OneActive'
  <2>1. ~Active(r)' /\ ~Claiming(r)'
    BY <1>4 DEF Active, Claiming, Merging, Writing
  <2>2. \A s \in Runners \ {r} : runner'[s].pc = runner[s].pc
    BY <1>4
  <2> QED
    BY <1>1, <1>4, <2>1, <2>2, ActiveStaysOne
<1>5. CASE Kick(r)
  <2>1. /\ UNCHANGED disturbed /\ processing' = (processing /\ runner[r].pc # "done")
        /\ runner[r].pc \in {"kick", "done"}
    BY <1>5 DEF Kick
  <2>2. To("idle") \/ (To("lookup") /\ (runner[r].pc = "done" \/ ~processing))
    <3> DEFINE x == [Free EXCEPT !.pc = "lookup", !.task = queue[FirstPending], !.visit = visits]
    <3>1. x.pc = "lookup"
      BY DEF Free
    <3> HIDE DEF x
    <3>2. runner' = [runner EXCEPT ![r] = x] => To("lookup")
      BY <1>1, <3>1
    <3> QED
      BY <1>3, <1>5, <3>2 DEF Kick, x
  <2>3. OneQuick'
    BY <2>2, QuickStaysOne
  <2>4. CASE disturbed
    BY <2>1, <2>3, <2>4 DEF OInv, OneActive
  <2>5. CASE ~disturbed /\ (runner[r].pc = "done" \/ ~processing)
    <3>1. \A s \in Runners : ~Active(s)
      BY <1>1, <2>5, NoFlagNobodyActive DEF OneActive
    <3>2. \A s \in Runners : ~Active(s)'
      BY <2>2, <3>1 DEF Active, Merging, Writing
    <3> QED
      BY <2>3, <3>2, NobodyIsActive DEF OInv
  <2>6. CASE runner[r].pc # "done" /\ processing
    <3>1. To("idle") /\ UNCHANGED processing
      BY <2>1, <2>2, <2>6 DEF TInv, TypeOK
    <3>2. OneActive'
      BY <1>4, <2>1, <3>1
    <3> QED
      BY <2>3, <3>2 DEF OInv
  <2> QED
    BY <2>4, <2>5, <2>6
<1>6. CASE EndElsewhere(r)
  <2>1. To("idle") /\ UNCHANGED <<processing, disturbed>>
    BY <1>3, <1>6 DEF EndElsewhere, queueVars, notes
  <2> QED
    BY <1>4, <2>1, QuickStaysOne DEF OInv
<1>7. CASE Lookup(r)
  <2>1. UNCHANGED disturbed /\ runner[r].pc = "lookup"
    BY <1>7 DEF Lookup, notes
  <2>2. CASE UNCHANGED processing /\ (To("idle") \/ To("kick"))
    BY <1>4, <2>1, <2>2, QuickStaysOne DEF OInv
  <2>3. CASE processing' = TRUE /\ To("marked")
    <3>1. OneQuick'
      BY <2>3, QuickStaysOne
    <3>2. CASE disturbed
      BY <2>1, <3>1, <3>2 DEF OInv, OneActive
    <3>3. CASE ~disturbed
      <4>1. \A s \in Runners : ~Active(s)
        BY <1>1, <2>1, <3>3 DEF OneActive
      <4>2. \A s \in Runners : Active(s)' => s = r
        BY <2>3, <4>1 DEF Active
      <4>3. \A s \in Runners : ~Claiming(s)'
        BY <2>3 DEF Claiming, Quick
      <4> QED
        BY <2>3, <3>1, <4>2, <4>3 DEF OInv, OneActive, Claiming
    <3> QED
      BY <3>2, <3>3
  <2> QED
    BY <1>2, <1>3, <1>7, <2>2, <2>3 DEF Lookup
<1>8. CASE Marked(r)
  <2>1. UNCHANGED disturbed /\ runner[r].pc = "marked"
    BY <1>8 DEF Marked
  <2>2. CASE UNCHANGED processing /\ To("idle")
    BY <1>4, <2>1, <2>2, QuickStaysOne DEF OInv
  <2>3. CASE To("idle")
    <3>1. OneQuick'
      BY <2>3, QuickStaysOne
    <3>2. CASE disturbed
      BY <2>1, <3>1, <3>2 DEF OInv, OneActive
    <3>3. CASE ~disturbed
      <4>1. \A s \in Runners \ {r} : ~Active(s)
        BY <1>1, <2>1, <3>3 DEF OneActive, Active
      <4>2. \A s \in Runners : ~Active(s)'
        BY <2>3, <4>1 DEF Active, Merging, Writing
      <4> QED
        BY <3>1, <4>2, NobodyIsActive DEF OInv
    <3> QED
      BY <3>2, <3>3
  <2>4. CASE UNCHANGED processing /\ To("load")
    <3>1. Active(r) /\ ~Claiming(r)'
      BY <2>1, <2>4 DEF Active, Claiming
    <3> QED
      BY <1>1, <2>1, <2>4, <3>1, ActiveStaysOne, QuickStaysOne DEF OInv
  <2> QED
    BY <1>2, <1>3, <1>8, <2>2, <2>3, <2>4 DEF Marked
<1> QED
  BY <1>5, <1>6, <1>7, <1>8

LEMMA StepKeepsOInv ==
  ASSUME TInv, QInv, OInv, "quickStarts" \in Assumed, [Next]_vars
  PROVE  OInv'
<1>1. CASE UNCHANGED vars
  BY <1>1 DEF vars, queueVars, notes, OInv, OneQuick, OneActive, Quick, Active
<1>2. CASE Undisturbed(None) /\ (pauseQueue \/ ChangeSettings \/ Crash \/ \E p \in Pages : Edit(p))
  <2>1. \A s \in Runners : ~Quick(s)
    BY <1>2, NameAssumption DEF Undisturbed, Quick
  <2> QED
    BY <1>2, <2>1, OthersKeepOInv
<1>3. ASSUME NEW r \in Runners, Undisturbed(r), User(r) \/ Run(r) PROVE OInv'
  <2>1. \A s \in Runners \ {r} : ~Quick(s)
    BY <1>3 DEF Undisturbed, Quick
  <2>2. CASE User(r)
    BY <2>1, <2>2, UserKeepsOInv
  <2>3. CASE Kick(r) \/ EndElsewhere(r) \/ Lookup(r) \/ Marked(r)
    BY <2>1, <2>3, StartsKeepOInv
  <2>4. CASE \/ Load(r) \/ Answer(r) \/ Backup(r) \/ WriteCanonical(r)
             \/ Rewrite(r) \/ DeleteMerged(r) \/ RewriteIndex(r)
    <3>1. /\ Active(r) /\ UNCHANGED <<processing, disturbed>>
          /\ \A s \in Runners \ {r} : runner'[s].pc = runner[s].pc
      BY <2>4, MergeLeads DEF Active
    <3> QED
      BY <2>1, <3>1, ActiveStaysOne, QuickStaysOne DEF OInv
  <2> QED
    BY <1>3, <2>2, <2>3, <2>4 DEF Run
<1> QED
  BY <1>1, <1>2, <1>3 DEF Next

\* Given that nothing comes between the look at `processing` and the claim, at most
\* one call that is not cancelled or left behind is past the claim (processNext).
THEOREM OInvHolds == ASSUME "quickStarts" \in Assumed PROVE Spec => []OInv
<1>1. Init => OInv
  <2> SUFFICES ASSUME Init PROVE OInv
    OBVIOUS
  <2>1. \A r \in Runners : runner[r].pc = "idle"
    BY FreshCalls DEF Init
  <2> QED
    BY <2>1 DEF OInv, OneQuick, OneActive, Quick, Active, Merging, Writing
<1>2. TInv /\ QInv /\ OInv /\ [Next]_vars => OInv'
  BY StepKeepsOInv
<1> QED
  BY <1>1, <1>2, TInvHolds, QInvHolds, PTL DEF Spec

\* Merges run one at a time until one that is running is cancelled or left, given
\* that nothing comes between a call's look at `processing` and its claim: who is
\* active has set the flag, and nobody claims while one is (processNext).
THEOREM MergesTakeTurns == ASSUME "quickStarts" \in Assumed PROVE Spec => []OneAtATime
<1>1. OInv => OneAtATime
  <2> SUFFICES ASSUME OInv, ~disturbed PROVE Cardinality(Busy) <= 1
    BY DEF OneAtATime
  <2>1. \A r, s \in Busy : r = s
    BY DEF OInv, OneActive, Active, Busy
  <2>2. CASE Busy = {}
    BY <2>2, FS_EmptySet
  <2>3. CASE Busy # {}
    <3>1. PICK r \in Busy : Busy = {r}
      BY <2>1, <2>3
    <3>2. Cardinality({r}) = 1
      BY FS_Singleton
    <3>3. Cardinality(Busy) = Cardinality({r})
      BY <3>1
    <3> QED
      BY <3>2, <3>3
  <2> QED
    BY <2>2, <2>3
<1> QED
  BY <1>1, OInvHolds, PTL

-----------------------------------------------------------------------------
(***************************************************************************)
(* References follow.                                                      *)
(***************************************************************************)
\* Nothing moves but tasks, calls, facts and marks.
SameRefs(f) == (Exists(f)' <=> Exists(f)) /\ (Exists(f) => file'[f].refs = file[f].refs)
Stationary ==
  /\ \A f \in Files : SameRefs(f)
  /\ UNCHANGED <<mergedAway, canonicals>> /\ spoiled \subseteq spoiled'
  /\ \A r \in Runners : IF PastLoad(r)' THEN Same(r) ELSE PastLoad(r) => Group(r) \subseteq spoiled'

LEMMA QuietIsStationary ==
  ASSUME Quiet
  PROVE  Stationary
BY DEF Quiet, Still, Stationary, SameRefs, Exists

LEMMA EditIsStationary ==
  ASSUME TInv, Edited
  PROVE  Stationary
<1>1. PICK p \in Pages : Exists(p) /\ file' = [file EXCEPT ![p].facts = @ \cup {0}]
  BY DEF Edited
<1>2. file \in [Files -> Content \cup {Absent}] /\ p \in Files
  BY DEF TInv, TypeOK, Files
<1>3. file[p] \in Content
  BY <1>1, <1>2 DEF Exists
<1>4. file' = [file EXCEPT ![p] = [file[p] EXCEPT !.facts = @ \cup {0}]]
  BY <1>1
<1>5. [file[p] EXCEPT !.facts = @ \cup {0}] \in Content
  BY <1>3 DEF Content, Facts
<1>6. [file[p] EXCEPT !.facts = @ \cup {0}].refs = file[p].refs
  BY <1>3 DEF Content
<1>7. \A f \in Files : SameRefs(f)
  BY <1>2, <1>3, <1>4, <1>5, <1>6, NameAssumption DEF SameRefs, Exists
<1> QED
  BY <1>7 DEF Edited, Stationary, Same, PastLoad, marks

\* A merge under way before and after a stationary step.
LEMMA StationaryMerge ==
  ASSUME Stationary, NEW r \in Runners, PastLoad(r)'
  PROVE  /\ PastLoad(r) /\ Same(r)
         /\ Group(r)' = Group(r) /\ Gone(r)' = Gone(r) /\ Canonical(r)' = Canonical(r)
         /\ Rewritten(r)' = Rewritten(r)
         /\ \A refs : Redirect(refs, r)' = Redirect(refs, r)
         /\ Unmarked(r)' => Unmarked(r)
<1>1. Same(r) /\ spoiled \subseteq spoiled'
  BY DEF Stationary
<1>2. PastLoad(r)
  BY <1>1 DEF Same, PastLoad
<1>3. Group(r)' = Group(r) /\ Gone(r)' = Gone(r) /\ Canonical(r)' = Canonical(r)
  BY <1>1, TaskTellsGroup DEF Same
<1>4. Rewritten(r)' = Rewritten(r) /\ \A refs : Redirect(refs, r)' = Redirect(refs, r)
  BY <1>1, ReadsTellPlan DEF Same
<1>5. Unmarked(r)' => Unmarked(r)
  BY <1>1, <1>2, <1>3 DEF Unmarked
<1> QED
  BY <1>1, <1>2, <1>3, <1>4, <1>5

LEMMA StationaryKeepsLInv ==
  ASSUME TInv, LInv, Stationary
  PROVE  LInv'
<1>1. spoiled \subseteq spoiled' /\ UNCHANGED <<mergedAway, canonicals>> /\ Away' \subseteq Away
  BY DEF Stationary, Away
<1>2. OverlapsAreMarked'
  BY <1>1, StationaryMerge DEF LInv, OverlapsAreMarked
<1>3. Index \in Files /\ Pages \subseteq Files
  BY DEF Files
<1>4. ASSUME NEW p \in Away' PROVE p \in Away /\ p \in Pages /\ p \notin spoiled'
  BY <1>1, <1>4 DEF Away, TInv, TypeOK
<1>5. AwayStaysAway'
  <2>1. ASSUME NEW p \in Away' PROVE ~Exists(p)'
    BY <1>3, <1>4, <2>1 DEF LInv, AwayStaysAway, Stationary, SameRefs
  <2>2. ASSUME NEW p \in Away', NEW r \in Runners, PastLoad(r)'
        PROVE  Deletes(p, r)' \/ NotRead(p, r)'
    <3>1. PastLoad(r) /\ Same(r) /\ Gone(r)' = Gone(r)
      BY <2>2, StationaryMerge
    <3>2. Deletes(p, r) \/ NotRead(p, r)
      BY <1>4, <2>2, <3>1 DEF LInv, AwayStaysAway
    <3> QED
      BY <1>1, <3>1, <3>2 DEF Deletes, NotRead, Same, OwnNames, Names
  <2> QED
    BY <2>1, <2>2 DEF AwayStaysAway
<1>6. AwayIsForgotten'
  <2> SUFFICES ASSUME NEW p \in Away'
               PROVE  /\ \A f \in Pages \ canonicals : Exists(f)' =>
                           \/ file'[f].refs \cap OwnNames({p}) = {}
                           \/ \E r \in Runners : PastLoad(r)' /\ {p, f} \subseteq Gone(r)'
                      /\ (\A r \in Runners : p \notin Group(r)' \/ ~PastLoad(r)')
                           => Slug[p] \notin OwnNames({p}) \cap file'[Index].refs
    BY <1>1 DEF AwayIsForgotten, OwnNames, Names
  <2>1. ASSUME NEW r \in Runners, PastLoad(r), p \in Group(r) PROVE PastLoad(r)' /\ p \in Group(r)'
    <3>1. PastLoad(r)'
      BY <1>4, <2>1 DEF Stationary
    <3> QED
      BY <2>1, <3>1, StationaryMerge
  <2>2. ASSUME NEW f \in Pages \ canonicals, Exists(f)', ~(file'[f].refs \cap OwnNames({p}) = {})
        PROVE  \E r \in Runners : PastLoad(r)' /\ {p, f} \subseteq Gone(r)'
    <3>1. Exists(f) /\ ~(file[f].refs \cap OwnNames({p}) = {})
      BY <1>3, <2>2 DEF Stationary, SameRefs
    <3>2. PICK r \in Runners : PastLoad(r) /\ {p, f} \subseteq Gone(r)
      BY <1>4, <3>1 DEF LInv, AwayIsForgotten
    <3>3. PastLoad(r)'
      BY <2>1, <3>2 DEF Gone
    <3> QED
      BY <3>2, <3>3, StationaryMerge
  <2>3. ASSUME \A r \in Runners : p \notin Group(r)' \/ ~PastLoad(r)'
        PROVE  Slug[p] \notin OwnNames({p}) \cap file'[Index].refs
    <3>1. \A r \in Runners : p \notin Group(r) \/ ~PastLoad(r)
      BY <2>1, <2>3
    <3>2. Slug[p] \notin OwnNames({p}) \cap file[Index].refs
      BY <1>4, <3>1 DEF LInv, AwayIsForgotten
    <3> QED
      BY <1>3, <3>2 DEF Stationary, SameRefs, TInv, IndexIsBare
  <2> QED
    BY <2>2, <2>3
<1>7. WritesFollowReads'
  <2> SUFFICES ASSUME NEW r \in Runners, Unmarked(r)'
               PROVE  /\ runner'[r].pc \in {"stream", "backup", "canonical"}
                           => \A f \in Files : AsRead(f, r)'
                      /\ runner'[r].pc = "rewrite" => \A f \in Files \ {Canonical(r)'} :
                           IF f \in Rewritten(r)' \ runner'[r].todo THEN Redirected(f, r)'
                           ELSE AsRead(f, r)'
                      /\ runner'[r].pc \in {"delete", "index"} => \A f \in Files \ Group(r)' :
                           Exists(f)' => file'[f].refs \cap OwnNames(Gone(r)') = {}
                      /\ runner'[r].pc = "delete" => \A p \in Gone(r)' \ runner'[r].todo : ~Exists(p)'
                      /\ runner'[r].pc = "index" => \A p \in Gone(r)' : ~Exists(p)'
    BY DEF WritesFollowReads, OwnNames, Names
  <2>1. PastLoad(r)' /\ Unmarked(r) /\ Same(r)
    BY StationaryMerge DEF Unmarked
  <2>2. /\ Group(r)' = Group(r) /\ Gone(r)' = Gone(r) /\ Canonical(r)' = Canonical(r)
        /\ Rewritten(r)' = Rewritten(r) /\ \A refs : Redirect(refs, r)' = Redirect(refs, r)
    BY <2>1, StationaryMerge
  <2>3. \A f \in Files : SameRefs(f)
    BY DEF Stationary
  <2>4. ASSUME NEW f \in Files
        PROVE  (AsRead(f, r) => AsRead(f, r)') /\ (Redirected(f, r) => Redirected(f, r)')
    BY <2>1, <2>2, <2>3 DEF AsRead, Redirected, SameRefs, Same
  <2>5. Gone(r) \subseteq Files
    <3>1. runner[r].pc \in Merging
      BY <2>1 DEF Unmarked, PastLoad, Merging
    <3> QED
      BY <1>3, <3>1, TaskIsTyped
  <2>6. /\ runner[r].pc \in {"stream", "backup", "canonical"} => \A f \in Files : AsRead(f, r)
        /\ runner[r].pc = "rewrite" => \A f \in Files \ {Canonical(r)} :
             IF f \in Rewritten(r) \ runner[r].todo THEN Redirected(f, r) ELSE AsRead(f, r)
        /\ runner[r].pc \in {"delete", "index"} => \A f \in Files \ Group(r) :
             Exists(f) => file[f].refs \cap OwnNames(Gone(r)) = {}
        /\ runner[r].pc = "delete" => \A p \in Gone(r) \ runner[r].todo : ~Exists(p)
        /\ runner[r].pc = "index" => \A p \in Gone(r) : ~Exists(p)
    BY <2>1 DEF LInv, WritesFollowReads
  <2>7. runner'[r].pc = runner[r].pc /\ runner'[r].todo = runner[r].todo
    BY <2>1 DEF Same
  <2>8. \A f \in Files : Exists(f)' => Exists(f) /\ file'[f].refs = file[f].refs
    BY <2>3 DEF SameRefs
  <2> QED
    BY <2>2, <2>4, <2>5, <2>6, <2>7, <2>8
<1>8. CanonicalsAreMarked'
  BY <1>1, StationaryMerge DEF LInv, CanonicalsAreMarked, Same, PastLoad, Writing
<1> QED
  BY <1>2, <1>5, <1>6, <1>7, <1>8 DEF LInv

\* What all steps of a merge have in common.
LEMMA MergeBasics ==
  ASSUME TInv, NEW r \in Runners, MergeStep(r)
  PROVE  /\ \A s \in Runners \ {r} :
              /\ runner'[s] = runner[s] /\ (PastLoad(s)' <=> PastLoad(s))
              /\ Group(s)' = Group(s) /\ Gone(s)' = Gone(s)
         /\ Loaded(r) \/ PastLoad(r)
         /\ PastLoad(r)' => runner'[r].task = runner[r].task
         /\ PastLoad(r)' => Group(r)' = Group(r) /\ Gone(r)' = Gone(r) /\ Canonical(r)' = Canonical(r)
         /\ spoiled \subseteq spoiled' /\ runner[r].pc \in Merging
<1>1. Only(r)
  BY DEF MergeStep, Loaded, Answered, BackedUp, CanonicalWritten, FileRewritten, AllRewritten,
         PageDeleted, PageLeft, AllDeleted, Ended, Advances, Onwards
<1>2. Loaded(r) \/ PastLoad(r)
  BY DEF MergeStep, Answered, BackedUp, CanonicalWritten, FileRewritten, AllRewritten,
         PageDeleted, PageLeft, AllDeleted, Ended, Advances, Onwards, PastLoad, Writing
<1>3. PastLoad(r)' => runner'[r].task = runner[r].task
  BY DEF MergeStep, Loaded, Answered, BackedUp, CanonicalWritten, FileRewritten, AllRewritten,
         PageDeleted, PageLeft, AllDeleted, Ended, Advances, Onwards
<1>4. spoiled \subseteq spoiled'
  BY DEF MergeStep, Loaded, Answered, BackedUp, CanonicalWritten, FileRewritten, AllRewritten,
         PageDeleted, PageLeft, AllDeleted, Ended, marks
<1>5. runner[r].pc \in Merging
  BY <1>2 DEF Loaded, Advances, PastLoad, Merging
<1>6. ASSUME NEW s \in Runners \ {r}
      PROVE  /\ runner'[s] = runner[s] /\ (PastLoad(s)' <=> PastLoad(s))
             /\ Group(s)' = Group(s) /\ Gone(s)' = Gone(s)
  <2>1. runner'[s] = runner[s]
    BY <1>1 DEF Only
  <2> QED
    BY <2>1, TaskTellsGroup DEF PastLoad
<1> QED
  BY <1>2, <1>3, <1>4, <1>5, <1>6, TaskTellsGroup

LEMMA MergeMarksOverlaps ==
  ASSUME TInv, LInv, NEW r \in Runners, MergeStep(r)
  PROVE  OverlapsAreMarked'
<1> SUFFICES ASSUME NEW s \in Runners, NEW t \in Runners, s # t, PastLoad(s)', PastLoad(t)'
             PROVE  Group(s)' \cup Group(t)' \subseteq spoiled'
  BY DEF OverlapsAreMarked
<1>1. OverlapsAreMarked /\ spoiled \subseteq spoiled'
  BY MergeBasics DEF LInv
<1>2. Group(s)' = Group(s) /\ Group(t)' = Group(t)
  BY MergeBasics
<1>3. CASE s # r /\ t # r
  BY <1>1, <1>2, <1>3, MergeBasics DEF OverlapsAreMarked
<1>4. ASSUME NEW u \in Runners \ {r}, PastLoad(u)' PROVE Group(r) \cup Group(u) \subseteq spoiled'
  <2>1. PastLoad(u)
    BY <1>4, MergeBasics
  <2>2. CASE Loaded(r)
    BY <2>1, <2>2 DEF Loaded, PastLoad, Merging
  <2>3. CASE PastLoad(r)
    BY <1>1, <2>1, <2>3 DEF OverlapsAreMarked
  <2> QED
    BY <2>2, <2>3, MergeBasics
<1> QED
  BY <1>2, <1>3, <1>4

\* A merge that is not marked is alone with the wiki.
LEMMA UnmarkedIsAlone ==
  ASSUME TInv, LInv, NEW r \in Runners, MergeStep(r), NEW s \in Runners, Unmarked(s)'
  PROVE  s = r /\ (Loaded(r) \/ Unmarked(r))
<1>1. PastLoad(s)' /\ ~(Group(s)' \subseteq spoiled')
  BY DEF Unmarked
<1>2. s = r
  <2> SUFFICES ASSUME s # r PROVE FALSE
    OBVIOUS
  <2>1. PastLoad(s) /\ Group(s)' = Group(s)
    BY <1>1, MergeBasics
  <2>2. CASE Loaded(r)
    BY <1>1, <2>1, <2>2 DEF Loaded, PastLoad, Merging
  <2>3. CASE PastLoad(r)
    <3>1. Group(s) \subseteq spoiled
      BY <2>1, <2>3 DEF LInv, OverlapsAreMarked
    <3> QED
      BY <1>1, <2>1, <3>1, MergeBasics
  <2> QED
    BY <2>2, <2>3, MergeBasics
<1>3. ~(Group(r) \subseteq spoiled)
  BY <1>1, <1>2, MergeBasics
<1> QED
  BY <1>2, <1>3, MergeBasics DEF Unmarked

LEMMA MergeMarksCanonicals ==
  ASSUME TInv, LInv, NEW r \in Runners, MergeStep(r)
  PROVE  CanonicalsAreMarked'
<1>1. CanonicalsAreMarked /\ canonicals \subseteq canonicals'
  BY DEF LInv, MergeStep, Loaded, Answered, BackedUp, CanonicalWritten, FileRewritten,
         AllRewritten, PageDeleted, PageLeft, AllDeleted, Ended, Still, marks
<1>2. ASSUME NEW s \in Runners \ {r}, runner'[s].pc \in {"rewrite", "delete", "index"}
      PROVE  Canonical(s)' \in canonicals'
  <2>1. runner'[s] = runner[s]
    BY MergeBasics
  <2> QED
    BY <1>1, <1>2, <2>1, TaskTellsGroup DEF CanonicalsAreMarked
<1>3. ASSUME runner'[r].pc \in {"rewrite", "delete", "index"}
      PROVE  Canonical(r)' \in canonicals'
  <2>1. Canonical(r)' = Canonical(r)
    BY <1>3, MergeBasics DEF PastLoad, Writing
  <2>2. CASE CanonicalWritten(r)
    BY <2>1, <2>2 DEF CanonicalWritten
  <2>3. CASE ~CanonicalWritten(r)
    <3>1. runner[r].pc \in {"rewrite", "delete", "index"}
      BY <1>3, <2>3
         DEF MergeStep, Loaded, Answered, BackedUp, FileRewritten, AllRewritten, PageDeleted,
             PageLeft, AllDeleted, Ended, Advances, Onwards
    <3> QED
      BY <1>1, <2>1, <3>1 DEF CanonicalsAreMarked
  <2> QED
    BY <2>2, <2>3
<1> QED
  BY <1>2, <1>3 DEF CanonicalsAreMarked

\* What is redirected refers to nothing that is merged away, and to no other
\* page but the canonical one anew.
LEMMA RedirectionFollows ==
  ASSUME TInv, NEW r \in Runners, runner[r].pc \in Merging, NEW refs
  PROVE  /\ Redirect(refs, r) \cap OwnNames(Gone(r)) = {}
         /\ \A p \in Pages \ {Canonical(r)} :
              /\ refs \cap OwnNames({p}) = {} => Redirect(refs, r) \cap OwnNames({p}) = {}
              /\ Slug[p] \notin OwnNames({p}) \cap refs
                   => Slug[p] \notin OwnNames({p}) \cap Redirect(refs, r)
<1> DEFINE c == Canonical(r)
<1>1. c \in Pages /\ Gone(r) \subseteq Pages /\ c \notin Gone(r)
  BY TaskIsTyped DEF Gone
<1>2. \A p \in Pages \ {c} : Slug[c] \notin OwnNames({p})
  BY <1>1 DEF OwnNames
<1>3. Slug[c] \notin OwnNames(Gone(r)) /\ OwnNames(Gone(r)) \subseteq Names(Gone(r))
  BY <1>1 DEF OwnNames, Names
<1>4. Redirect(refs, r) = refs \/ Redirect(refs, r) = (refs \ Names(Gone(r))) \cup {Slug[c]}
  BY DEF Redirect
<1>5. Redirect(refs, r) = refs => refs \cap OwnNames(Gone(r)) = {}
  BY <1>3 DEF Redirect
<1> QED
  BY <1>2, <1>3, <1>4, <1>5

\* The merge that is alone finds what it wrote.
LEMMA MergeFollowsReads ==
  ASSUME TInv, LInv, NEW r \in Runners, MergeStep(r)
  PROVE  WritesFollowReads'
<1> DEFINE Goal(s) ==
      /\ runner'[s].pc \in {"stream", "backup", "canonical"} => \A f \in Files : AsRead(f, s)'
      /\ runner'[s].pc = "rewrite" => \A f \in Files \ {Canonical(s)'} :
           IF f \in Rewritten(s)' \ runner'[s].todo THEN Redirected(f, s)' ELSE AsRead(f, s)'
      /\ runner'[s].pc \in {"delete", "index"} => \A f \in Files \ Group(s)' :
           Exists(f)' => file'[f].refs \cap OwnNames(Gone(s)') = {}
      /\ runner'[s].pc = "delete" => \A p \in Gone(s)' \ runner'[s].todo : ~Exists(p)'
      /\ runner'[s].pc = "index" => \A p \in Gone(s)' : ~Exists(p)'
<1> HIDE DEF Goal
<1> SUFFICES ASSUME NEW s \in Runners, Unmarked(s)' PROVE Goal(s)
  BY DEF WritesFollowReads, Goal, OwnNames, Names
<1>1. s = r /\ (Loaded(r) \/ Unmarked(r)) /\ PastLoad(r)' /\ ~(Group(r)' \subseteq spoiled')
  BY UnmarkedIsAlone DEF Unmarked
<1>2. Group(r)' = Group(r) /\ Gone(r)' = Gone(r) /\ Canonical(r)' = Canonical(r)
      /\ runner'[r].task = runner[r].task /\ runner[r].pc \in Merging
  BY <1>1, MergeBasics
<1>3. file \in [Files -> Content \cup {Absent}] /\ Pages \subseteq Files /\ Gone(r) \subseteq Pages
      /\ Canonical(r) \in Files /\ Canonical(r) \in Group(r) /\ Gone(r) = Group(r) \ {Canonical(r)}
  BY <1>2, TaskIsTyped DEF TInv, TypeOK, Files, Gone
<1>4. ASSUME NEW f, runner'[r].read = runner[r].read, file'[f] = file[f]
      PROVE  /\ AsRead(f, r)' <=> AsRead(f, r)
             /\ Redirected(f, r)' <=> Redirected(f, r)
             /\ Exists(f)' <=> Exists(f)
  BY <1>2, <1>4, ReadsTellPlan DEF AsRead, Redirected, Exists
<1>5. CASE Loaded(r)
  <2>1. runner'[r].pc = "stream" /\ runner'[r].read = file /\ UNCHANGED file
    BY <1>5 DEF Loaded, Advances, Still
  <2>2. \A f \in Files : AsRead(f, r)'
    BY <2>1 DEF AsRead, Exists
  <2> QED
    BY <1>1, <2>1, <2>2 DEF Goal
<1>6. CASE Answered(r) \/ BackedUp(r)
  <2>1. /\ runner[r].pc \in {"stream", "backup"} /\ runner'[r].pc \in {"backup", "canonical"}
        /\ UNCHANGED file /\ runner'[r].read = runner[r].read /\ Unmarked(r)
    BY <1>1, <1>6 DEF Answered, BackedUp, Onwards, Advances, Still, Loaded
  <2>2. \A f \in Files : AsRead(f, r)
    BY <2>1 DEF LInv, WritesFollowReads
  <2> QED
    BY <1>1, <1>4, <2>1, <2>2 DEF Goal
<1>7. CASE CanonicalWritten(r)
  <2>1. /\ runner[r].pc = "canonical" /\ runner'[r].pc = "rewrite" /\ Unmarked(r)
        /\ runner'[r].read = runner[r].read /\ runner'[r].todo = Rewritten(r)
    BY <1>1, <1>7 DEF CanonicalWritten, Onwards, Advances, Loaded
  <2>2. PICK c : file' = [file EXCEPT ![Canonical(r)] = c]
    BY <1>7 DEF CanonicalWritten
  <2>3. \A f \in Files \ {Canonical(r)} : file'[f] = file[f]
    BY <1>3, <2>2
  <2>4. \A f \in Files : AsRead(f, r)
    BY <2>1 DEF LInv, WritesFollowReads
  <2>5. Rewritten(r)' = Rewritten(r)
    BY <1>2, <2>1, ReadsTellPlan
  <2>6. \A f \in Files \ {Canonical(r)} : AsRead(f, r)'
    BY <1>4, <2>1, <2>3, <2>4
  <2> QED
    BY <1>1, <1>2, <2>1, <2>5, <2>6 DEF Goal
<1>8. CASE FileRewritten(r)
  <2>1. /\ runner[r].pc = "rewrite" /\ runner'[r].pc = "rewrite" /\ Unmarked(r)
        /\ runner'[r].read = runner[r].read
    BY <1>1, <1>8 DEF FileRewritten, Onwards, Advances, Loaded
  <2>2. PICK f \in runner[r].todo :
          /\ runner'[r].todo = runner[r].todo \ {f}
          /\ file' = [file EXCEPT ![f] = [runner[r].read[f] EXCEPT !.refs = Redirect(@, r)]]
    BY <1>8 DEF FileRewritten
  <2>3. f \in Rewritten(r) /\ PastLoad(r)
    BY <2>1, <2>2 DEF TInv, PlanFits, Unmarked
  <2>4. f \in Files \ Group(r) /\ runner[r].read[f] \in Content
    BY <2>3, ReadsAreTyped
  <2> DEFINE new == [runner[r].read[f] EXCEPT !.refs = Redirect(@, r)]
  <2>5. new \in Content /\ new.refs = Redirect(runner[r].read[f].refs, r)
    BY <1>2, <2>4, RedirectIsTyped
  <2> HIDE DEF new
  <2>6. file'[f] = new /\ \A g \in Files \ {f} : file'[g] = file[g]
    BY <1>3, <2>2, <2>4 DEF new
  <2>7. Rewritten(r)' = Rewritten(r) /\ \A refs : Redirect(refs, r)' = Redirect(refs, r)
    BY <1>2, <2>1, ReadsTellPlan
  <2>8. Redirected(f, r)'
    BY <2>1, <2>5, <2>6, <2>7, NameAssumption DEF Redirected, Exists
  <2>9. ASSUME NEW g \in Files \ {Canonical(r)}
        PROVE  IF g \in Rewritten(r)' \ runner'[r].todo THEN Redirected(g, r)' ELSE AsRead(g, r)'
    <3>1. CASE g = f
      BY <2>2, <2>3, <2>7, <2>8, <3>1
    <3>2. CASE g # f
      <4>1. IF g \in Rewritten(r) \ runner[r].todo THEN Redirected(g, r) ELSE AsRead(g, r)
        BY <2>1, <2>9 DEF LInv, WritesFollowReads
      <4>2. (Redirected(g, r)' <=> Redirected(g, r)) /\ (AsRead(g, r)' <=> AsRead(g, r))
        BY <1>4, <2>1, <2>6, <3>2
      <4> QED
        BY <2>2, <2>7, <3>2, <4>1, <4>2
    <3> QED
      BY <3>1, <3>2
  <2> QED
    BY <1>1, <1>2, <2>1, <2>9 DEF Goal
<1>9. CASE AllRewritten(r)
  <2>1. /\ runner[r].pc = "rewrite" /\ runner'[r].pc = "delete" /\ Unmarked(r) /\ PastLoad(r)
        /\ runner[r].todo = {} /\ runner'[r].todo = Gone(r) /\ UNCHANGED file
    BY <1>1, <1>9 DEF AllRewritten, Onwards, Advances, Loaded, Unmarked, Still
  <2>2. ASSUME NEW f \in Files \ Group(r), Exists(f) PROVE file[f].refs \cap OwnNames(Gone(r)) = {}
    <3>1. f # Canonical(r)
      BY <1>3, <2>2
    <3>2. IF f \in Rewritten(r) THEN Redirected(f, r) ELSE AsRead(f, r)
      BY <2>1, <2>2, <3>1 DEF LInv, WritesFollowReads
    <3>3. CASE f \in Rewritten(r)
      BY <1>2, <3>2, <3>3, RedirectionFollows DEF Redirected
    <3>4. CASE f \notin Rewritten(r)
      <4>1. runner[r].read[f] # Absent /\ file[f].refs = runner[r].read[f].refs
        BY <2>2, <3>2, <3>4 DEF AsRead
      <4>2. Redirect(file[f].refs, r) = file[f].refs
        BY <2>2, <3>4, <4>1 DEF Rewritten, Read
      <4> QED
        BY <1>2, <4>2, RedirectionFollows
    <3> QED
      BY <3>3, <3>4
  <2> QED
    BY <1>1, <1>2, <2>1, <2>2 DEF Goal, Exists
<1>10. CASE PageDeleted(r)
  <2>1. /\ runner[r].pc = "delete" /\ runner'[r].pc = "delete" /\ Unmarked(r)
    BY <1>1, <1>10 DEF PageDeleted, Onwards, Advances, Loaded
  <2>2. PICK p \in runner[r].todo :
          runner'[r].todo = runner[r].todo \ {p} /\ file' = [file EXCEPT ![p] = Absent]
    BY <1>10 DEF PageDeleted
  <2>3. p \in Files
    BY <1>3, <2>1, <2>2 DEF TInv, PlanFits
  <2>4. file'[p] = Absent /\ \A f \in Files \ {p} : file'[f] = file[f]
    BY <1>3, <2>2, <2>3
  <2>5. /\ \A f \in Files \ Group(r) : Exists(f) => file[f].refs \cap OwnNames(Gone(r)) = {}
        /\ \A q \in Gone(r) \ runner[r].todo : ~Exists(q)
    BY <2>1 DEF LInv, WritesFollowReads
  <2>6. \A q \in Gone(r) \ runner'[r].todo : ~Exists(q)'
    BY <1>3, <2>2, <2>4, <2>5 DEF Exists
  <2>7. \A f \in Files \ Group(r) : Exists(f)' => file'[f].refs \cap OwnNames(Gone(r)) = {}
    BY <2>4, <2>5 DEF Exists
  <2> QED
    BY <1>1, <1>2, <2>1, <2>6, <2>7 DEF Goal
<1>11. CASE PageLeft(r)
  BY <1>1, <1>2, <1>11 DEF PageLeft
<1>12. CASE AllDeleted(r)
  <2>1. /\ runner[r].pc = "delete" /\ runner'[r].pc = "index" /\ Unmarked(r)
        /\ runner[r].todo = {} /\ UNCHANGED file
    BY <1>1, <1>12 DEF AllDeleted, Onwards, Advances, Loaded, Still
  <2>2. /\ \A f \in Files \ Group(r) : Exists(f) => file[f].refs \cap OwnNames(Gone(r)) = {}
        /\ \A q \in Gone(r) : ~Exists(q)
    BY <2>1 DEF LInv, WritesFollowReads
  <2> QED
    BY <1>1, <1>2, <2>1, <2>2 DEF Goal, Exists
<1>13. CASE Ended(r)
  BY <1>1, <1>13 DEF Ended
<1> QED
  BY <1>5, <1>6, <1>7, <1>8, <1>9, <1>10, <1>11, <1>12, <1>13 DEF MergeStep

\* What AwayIsForgotten says of one page.
NamedBy(p, f) == Exists(f) /\ file[f].refs \cap OwnNames({p}) # {}
InUse(p) == \E r \in Runners : PastLoad(r) /\ p \in Group(r)
Forgotten(p) ==
  /\ \A f \in Pages \ canonicals : NamedBy(p, f) =>
       \E r \in Runners : PastLoad(r) /\ {p, f} \subseteq Gone(r)
  /\ ~InUse(p) => Slug[p] \notin OwnNames({p}) \cap file[Index].refs

LEMMA ForgottenIsAll == AwayIsForgotten <=> \A p \in Away : Forgotten(p)
BY DEF AwayIsForgotten, Forgotten, NamedBy, InUse

LEMMA ForgottenIsAllNext == AwayIsForgotten' <=> \A p \in Away' : Forgotten(p)'
BY DEF AwayIsForgotten, Forgotten, NamedBy, InUse, OwnNames, Names

\* A page that was away before the step, and what is known of it.
LEMMA AwayBefore ==
  ASSUME TInv, LInv, NEW p \in Away
  PROVE  /\ p \in Pages /\ p \in Files /\ p \notin spoiled /\ ~Exists(p) /\ Forgotten(p)
         /\ \A s \in Runners : PastLoad(s) => Deletes(p, s) \/ NotRead(p, s)
BY ForgottenIsAll DEF LInv, AwayStaysAway, Away, TInv, TypeOK, Files

\* Other merges have not read it, nor has this one if it had read before.
LEMMA AwayStaysUnread ==
  ASSUME TInv, LInv, NEW r \in Runners, MergeStep(r), ~Loaded(r), NEW p \in Away,
         NEW s \in Runners, PastLoad(s)'
  PROVE  Deletes(p, s)' \/ NotRead(p, s)'
<1>1. canonicals \subseteq canonicals'
  BY DEF MergeStep, Answered, BackedUp, CanonicalWritten, FileRewritten,
         AllRewritten, PageDeleted, PageLeft, AllDeleted, Ended, Still, marks
<1>2. PastLoad(s) /\ Gone(s)' = Gone(s)
  BY MergeBasics
<1>3. Deletes(p, s) \/ NotRead(p, s)
  BY <1>2, AwayBefore
<1>4. runner'[s].read = runner[s].read
  <2>1. CASE s = r
    BY <2>1 DEF MergeStep, Answered, BackedUp, CanonicalWritten, FileRewritten,
                AllRewritten, PageDeleted, PageLeft, AllDeleted, Ended, Onwards
  <2>2. CASE s # r
    BY <2>2, MergeBasics
  <2> QED
    BY <2>1, <2>2
<1>5. runner[s].pc \in {"delete", "index"} => runner'[s].pc \in {"delete", "index"}
  <2>1. CASE s = r
    BY <2>1 DEF MergeStep, Answered, BackedUp, CanonicalWritten, FileRewritten,
                AllRewritten, PageDeleted, PageLeft, AllDeleted, Ended, Onwards, Advances
  <2>2. CASE s # r
    BY <2>2, MergeBasics
  <2> QED
    BY <2>1, <2>2
<1>6. CASE Deletes(p, s)
  BY <1>2, <1>5, <1>6 DEF Deletes
<1>7. CASE NotRead(p, s)
  BY <1>1, <1>4, <1>7 DEF NotRead, OwnNames, Names
<1> QED
  BY <1>3, <1>6, <1>7

\* What a merge has read and will write is no page that is away, and names none.
LEMMA ReadIsNotAway ==
  ASSUME TInv, LInv, NEW r \in Runners, PastLoad(r), NEW p \in Away
  PROVE  /\ p # Canonical(r)
         /\ p \in Group(r) => Deletes(p, r)
         /\ ~Deletes(p, r) => NotRead(p, r)
<1>1. Deletes(p, r) \/ NotRead(p, r)
  BY AwayBefore
<1>2. \A q \in Group(r) : runner[r].read[q] # Absent
  BY DEF TInv, ReadIsWhole
<1>3. runner[r].pc \in Merging
  BY DEF PastLoad, Merging
<1> QED
  BY <1>1, <1>2, <1>3, TaskIsTyped DEF Deletes, NotRead, Gone

\* Merges that are under way stay so, but for the one that ends.
LEMMA InUseStays ==
  ASSUME TInv, NEW r \in Runners, MergeStep(r), ~Ended(r), NEW s \in Runners, PastLoad(s)
  PROVE  PastLoad(s)' /\ Group(s)' = Group(s) /\ Gone(s)' = Gone(s)
<1>1. CASE s # r
  BY <1>1, MergeBasics
<1>2. CASE s = r
  <2>1. PastLoad(r)'
    BY DEF MergeStep, Loaded, Answered, BackedUp, CanonicalWritten, FileRewritten, AllRewritten,
           PageDeleted, PageLeft, AllDeleted, Onwards, Advances, PastLoad, Writing
  <2> QED
    BY <1>2, <2>1, MergeBasics
<1> QED
  BY <1>1, <1>2

\* A page that was forgotten stays so when nothing written names it.
LEMMA ForgottenStays ==
  ASSUME TInv, NEW r \in Runners, MergeStep(r), ~Ended(r), NEW p \in Pages, Forgotten(p),
         canonicals \subseteq canonicals',
         \A f \in Pages \ canonicals' : NamedBy(p, f)' => NamedBy(p, f),
         ~InUse(p) => \/ file'[Index].refs \subseteq file[Index].refs
                      \/ Slug[p] \notin OwnNames({p}) \cap file'[Index].refs
  PROVE  Forgotten(p)'
<1>1. InUse(p) => InUse(p)'
  BY InUseStays DEF InUse
<1>2. ASSUME NEW f \in Pages \ canonicals', NamedBy(p, f)'
      PROVE  \E s \in Runners : PastLoad(s)' /\ {p, f} \subseteq Gone(s)'
  <2>1. PICK s \in Runners : PastLoad(s) /\ {p, f} \subseteq Gone(s)
    BY <1>2 DEF Forgotten
  <2> QED
    BY <2>1, InUseStays
<1> QED
  BY <1>1, <1>2 DEF Forgotten

\* A page that is away stays away and forgotten, whatever merge takes a step.
LEMMA AwayStays ==
  ASSUME TInv, LInv, NEW r \in Runners, MergeStep(r), NEW p \in Away, p \notin spoiled'
  PROVE  /\ ~Exists(p)' /\ Forgotten(p)'
         /\ \A s \in Runners : PastLoad(s)' => Deletes(p, s)' \/ NotRead(p, s)'
<1>1. /\ p \in Pages /\ p \in Files /\ ~Exists(p) /\ Forgotten(p)
      /\ \A s \in Runners : PastLoad(s) => Deletes(p, s) \/ NotRead(p, s)
  BY AwayBefore
<1>2. file \in [Files -> Content \cup {Absent}] /\ p # Index /\ Index \in Files /\ Pages \subseteq Files
      /\ Exists(Index) /\ Index \notin Pages
  BY <1>1, NameAssumption DEF TInv, TypeOK, IndexIsBare, Files
<1>3. ~Loaded(r) => \A s \in Runners : PastLoad(s)' => Deletes(p, s)' \/ NotRead(p, s)'
  BY AwayStaysUnread
<1>4. CASE Loaded(r)
  <2>1. /\ runner[r].pc = "load" /\ runner'[r].pc = "stream" /\ runner'[r].read = file
        /\ UNCHANGED <<file, canonicals>> /\ \A q \in Group(r) : Exists(q)
        /\ \A s \in Runners \ {r} : runner[s].pc \in Merging => Group(s) \subseteq spoiled'
    BY <1>4 DEF Loaded, Advances, Still
  <2>2. p \notin Group(r)
    BY <1>1, <2>1
  <2>3. ~InUse(p)
    <3> SUFFICES ASSUME NEW s \in Runners, PastLoad(s), p \in Group(s) PROVE FALSE
      BY DEF InUse
    <3>1. s # r
      BY <2>2
    <3> QED
      BY <2>1, <3>1 DEF PastLoad, Merging
  <2>4. /\ \A f \in Pages \ canonicals : ~NamedBy(p, f)
        /\ Slug[p] \notin OwnNames({p}) \cap file[Index].refs
    BY <1>1, <2>3 DEF Forgotten, InUse, Gone
  <2>5. NotRead(p, r)'
    BY <1>1, <1>2, <2>1, <2>4 DEF NotRead, NamedBy, Exists, OwnNames, Names
  <2>6. ASSUME NEW s \in Runners \ {r}, PastLoad(s)' PROVE Deletes(p, s)' \/ NotRead(p, s)'
    <3>1. runner'[s] = runner[s] /\ PastLoad(s) /\ Gone(s)' = Gone(s)
      BY <2>6, MergeBasics
    <3> QED
      BY <1>1, <2>1, <3>1 DEF Deletes, NotRead, OwnNames, Names
  <2>7. ~Exists(p)'
    BY <1>1, <2>1 DEF Exists
  <2>8. Forgotten(p)'
    BY <2>1, <2>4 DEF Forgotten, NamedBy, Exists, OwnNames, Names
  <2> QED
    BY <2>5, <2>6, <2>7, <2>8
<1>5. CASE Answered(r) \/ BackedUp(r) \/ AllRewritten(r) \/ PageLeft(r) \/ AllDeleted(r)
  <2>1. UNCHANGED <<file, canonicals>> /\ ~Loaded(r) /\ ~Ended(r)
    BY <1>5 DEF Answered, BackedUp, AllRewritten, PageLeft, AllDeleted, Still, marks, Loaded,
                Ended, Onwards, Advances
  <2>2. ~Exists(p)' /\ \A f \in Files : NamedBy(p, f)' => NamedBy(p, f)
    BY <1>1, <2>1 DEF Exists, NamedBy, OwnNames, Names
  <2>3. Forgotten(p)'
    BY <1>1, <1>2, <2>1, <2>2, ForgottenStays
  <2> QED
    BY <1>3, <2>1, <2>2, <2>3
<1>6. CASE CanonicalWritten(r)
  <2>1. ~Loaded(r) /\ ~Ended(r) /\ PastLoad(r) /\ canonicals' = canonicals \cup {Canonical(r)}
        /\ runner[r].pc \in Merging
    BY <1>6 DEF CanonicalWritten, Loaded, Ended, Onwards, Advances, PastLoad, Merging, Writing
  <2>2. PICK c : file' = [file EXCEPT ![Canonical(r)] = c]
    BY <1>6 DEF CanonicalWritten
  <2>3. p # Canonical(r) /\ Canonical(r) \in Pages
    BY <2>1, ReadIsNotAway, TaskIsTyped
  <2>4. \A f \in Files \ {Canonical(r)} : file'[f] = file[f]
    BY <1>2, <2>2
  <2>5. ~Exists(p)' /\ \A f \in Pages \ canonicals' : NamedBy(p, f)' => NamedBy(p, f)
    BY <1>1, <1>2, <2>1, <2>3, <2>4 DEF Exists, NamedBy, OwnNames, Names
  <2>6. file'[Index] = file[Index]
    BY <1>2, <2>3, <2>4
  <2>7. Forgotten(p)'
    BY <1>1, <2>1, <2>5, <2>6, ForgottenStays
  <2> QED
    BY <1>3, <2>1, <2>5, <2>7
<1>7. CASE FileRewritten(r)
  <2>1. /\ ~Loaded(r) /\ ~Ended(r) /\ PastLoad(r) /\ UNCHANGED canonicals
        /\ runner[r].pc = "rewrite" /\ runner[r].pc \in Merging
    BY <1>7 DEF FileRewritten, Loaded, Ended, Onwards, Advances, PastLoad, Merging, Writing, marks
  <2>2. PICK g \in runner[r].todo :
          file' = [file EXCEPT ![g] = [runner[r].read[g] EXCEPT !.refs = Redirect(@, r)]]
    BY <1>7 DEF FileRewritten
  <2>3. p # Canonical(r) /\ NotRead(p, r)
    BY <2>1, ReadIsNotAway DEF Deletes
  <2>4. g \in Files /\ runner[r].read[g] \in Content
    <3>1. g \in Rewritten(r)
      BY <2>1, <2>2 DEF TInv, PlanFits
    <3> QED
      BY <2>1, <3>1, ReadsAreTyped
  <2> DEFINE new == [runner[r].read[g] EXCEPT !.refs = Redirect(@, r)]
  <2>5. new.refs = Redirect(runner[r].read[g].refs, r)
    BY <2>1, <2>4, RedirectIsTyped
  <2> HIDE DEF new
  <2>6. file'[g] = new /\ \A f \in Files \ {g} : file'[f] = file[f]
    BY <1>2, <2>2, <2>4 DEF new
  <2>7. p # g
    BY <2>3, <2>4, NameAssumption DEF NotRead
  <2>8. ~Exists(p)'
    BY <1>1, <2>6, <2>7 DEF Exists
  <2>9. ASSUME NEW f \in Pages \ canonicals', NamedBy(p, f)' PROVE NamedBy(p, f)
    <3>1. CASE f = g
      <4>1. runner[r].read[g].refs \cap OwnNames({p}) = {}
        BY <2>1, <2>3, <2>4, <2>9, <3>1, NameAssumption DEF NotRead
      <4>2. new.refs \cap OwnNames({p}) = {}
        BY <1>1, <2>1, <2>3, <2>5, <4>1, RedirectionFollows
      <4> QED
        BY <2>6, <2>9, <3>1, <4>2 DEF NamedBy, OwnNames, Names
    <3>2. CASE f # g
      BY <1>2, <2>6, <2>9, <3>2 DEF NamedBy, Exists, OwnNames, Names
    <3> QED
      BY <3>1, <3>2
  <2>10. file'[Index] = file[Index] \/ Slug[p] \notin OwnNames({p}) \cap file'[Index].refs
    <3>1. CASE g = Index
      <4>1. Slug[p] \notin OwnNames({p}) \cap runner[r].read[g].refs
        BY <2>3, <3>1 DEF NotRead
      <4>2. Slug[p] \notin OwnNames({p}) \cap new.refs
        BY <1>1, <2>1, <2>3, <2>5, <4>1, RedirectionFollows
      <4> QED
        BY <2>6, <3>1, <4>2
    <3>2. CASE g # Index
      BY <1>2, <2>6, <3>2
    <3> QED
      BY <3>1, <3>2
  <2>11. Forgotten(p)'
    BY <1>1, <2>1, <2>9, <2>10, ForgottenStays
  <2> QED
    BY <1>3, <2>1, <2>8, <2>11
<1>8. CASE PageDeleted(r)
  <2>1. ~Loaded(r) /\ ~Ended(r) /\ UNCHANGED canonicals /\ runner[r].pc = "delete"
        /\ runner[r].pc \in Merging
    BY <1>8 DEF PageDeleted, Loaded, Ended, Onwards, Advances, Merging, Writing
  <2>2. PICK q \in runner[r].todo : file' = [file EXCEPT ![q] = Absent]
    BY <1>8 DEF PageDeleted
  <2>3. q \in Pages /\ q \in Files
    BY <1>2, <2>1, <2>2, TaskIsTyped DEF TInv, PlanFits
  <2>4. file'[q] = Absent /\ \A f \in Files \ {q} : file'[f] = file[f]
    BY <1>2, <2>2, <2>3
  <2>5. ~Exists(p)' /\ \A f \in Files : NamedBy(p, f)' => NamedBy(p, f)
    BY <1>1, <2>4 DEF Exists, NamedBy, OwnNames, Names
  <2>6. file'[Index] = file[Index]
    BY <1>2, <2>3, <2>4
  <2>7. Forgotten(p)'
    BY <1>1, <1>2, <2>1, <2>5, <2>6, ForgottenStays
  <2> QED
    BY <1>3, <2>1, <2>5, <2>7
<1>9. CASE Ended(r)
  <2> DEFINE old == runner[r].read[Index]
             new == [old EXCEPT !.refs = WithoutEntries(@, r)]
  <2>1. /\ ~Loaded(r) /\ PastLoad(r) /\ runner[r].pc = "index" /\ ~PastLoad(r)'
        /\ UNCHANGED canonicals
        /\ file' = IF new # old THEN [file EXCEPT ![Index] = new] ELSE file
    BY <1>9 DEF Ended, Loaded, Advances, PastLoad, Writing, marks
  <2>2. old \in Content /\ new.refs = old.refs \ {Slug[q] : q \in Gone(r)}
    BY <2>1, ReadsAreTyped DEF Content, WithoutEntries
  <2> HIDE DEF new, old
  <2>3. (\A f \in Files \ {Index} : file'[f] = file[f]) /\ file'[Index] \in {new, file[Index]}
    BY <1>2, <2>1
  <2>4. \A s \in Runners \ {r} : PastLoad(s) => PastLoad(s)' /\ Group(s)' = Group(s) /\ Gone(s)' = Gone(s)
    BY MergeBasics
  <2>5. p \in Group(r) => /\ p \in Gone(r) /\ \A q \in Gone(r) : ~Exists(q)
                          /\ file[Index].refs \cap OwnNames(Gone(r)) = {}
    <3> SUFFICES ASSUME p \in Group(r)
                 PROVE  /\ p \in Gone(r) /\ \A q \in Gone(r) : ~Exists(q)
                        /\ file[Index].refs \cap OwnNames(Gone(r)) = {}
      OBVIOUS
    <3>1. p \in Gone(r)
      BY <2>1, ReadIsNotAway DEF Deletes
    <3>2. Unmarked(r)
      BY <2>1, AwayBefore DEF Unmarked
    <3>3. Index \in Files \ Group(r)
      BY <1>2, <2>1, TaskIsTyped DEF Merging, Writing
    <3> QED
      BY <1>2, <2>1, <3>1, <3>2, <3>3 DEF LInv, WritesFollowReads
  <2>6. ~Exists(p)'
    BY <1>1, <1>2, <2>3 DEF Exists
  <2>7. ASSUME NEW f \in Pages \ canonicals', NamedBy(p, f)'
        PROVE  \E s \in Runners : PastLoad(s)' /\ {p, f} \subseteq Gone(s)'
    <3>1. NamedBy(p, f)
      BY <1>2, <2>3, <2>7 DEF NamedBy, Exists, OwnNames, Names
    <3>2. PICK s \in Runners : PastLoad(s) /\ {p, f} \subseteq Gone(s)
      BY <1>1, <2>1, <2>7, <3>1 DEF Forgotten
    <3>3. s # r
      BY <2>5, <3>1, <3>2 DEF NamedBy, Gone
    <3> QED
      BY <2>4, <3>2, <3>3
  <2>8. ASSUME ~InUse(p)' PROVE Slug[p] \notin OwnNames({p}) \cap file'[Index].refs
    <3>1. \A s \in Runners \ {r} : ~(PastLoad(s) /\ p \in Group(s))
      BY <2>4, <2>8 DEF InUse
    <3>2. CASE p \in Group(r)
      <4>1. OwnNames({p}) \subseteq OwnNames(Gone(r)) /\ Slug[p] \in {Slug[q] : q \in Gone(r)}
        BY <2>5, <3>2 DEF OwnNames
      <4> QED
        BY <2>2, <2>3, <2>5, <3>2, <4>1
    <3>3. CASE p \notin Group(r)
      <4>1. NotRead(p, r)
        BY <2>1, <3>3, ReadIsNotAway DEF Deletes, Gone
      <4>2. Slug[p] \notin OwnNames({p}) \cap old.refs
        BY <4>1 DEF NotRead, old
      <4>3. Slug[p] \notin OwnNames({p}) \cap file[Index].refs
        BY <1>1, <3>1, <3>3 DEF Forgotten, InUse
      <4> QED
        BY <2>2, <2>3, <4>2, <4>3
    <3> QED
      BY <3>2, <3>3
  <2>9. Forgotten(p)'
    BY <2>7, <2>8 DEF Forgotten
  <2> QED
    BY <1>3, <2>1, <2>6, <2>9
<1> QED
  BY <1>4, <1>5, <1>6, <1>7, <1>8, <1>9 DEF MergeStep

\* The page a merge deletes is away from then on.
LEMMA DeletedIsAway ==
  ASSUME TInv, LInv, NEW r \in Runners, PageDeleted(r), NEW p \in runner[r].todo,
         file' = [file EXCEPT ![p] = Absent], p \notin spoiled
  PROVE  /\ ~Exists(p)' /\ Forgotten(p)'
         /\ \A s \in Runners : PastLoad(s)' => Deletes(p, s)' \/ NotRead(p, s)'
<1>1. MergeStep(r) /\ UNCHANGED canonicals /\ PastLoad(r) /\ PastLoad(r)'
      /\ runner[r].pc = "delete" /\ runner'[r].pc = "delete"
  BY DEF MergeStep, PageDeleted, Onwards, Advances, PastLoad, Writing
<1>2. p \in Gone(r) /\ Gone(r) = Group(r) \ {Canonical(r)} /\ Gone(r) \subseteq Pages
  BY <1>1, TaskIsTyped DEF TInv, PlanFits, Gone, Merging, Writing
<1>3. Gone(r)' = Gone(r) /\ Group(r)' = Group(r)
  BY <1>1, MergeBasics
<1>4. file \in [Files -> Content \cup {Absent}] /\ p \in Files /\ Pages \subseteq Files
  BY <1>2 DEF TInv, TypeOK, Files
<1>5. file'[p] = Absent /\ \A f \in Files \ {p} : file'[f] = file[f]
  BY <1>4
<1>6. Unmarked(r)
  BY <1>1, <1>2 DEF Unmarked
<1>7. \A s \in Runners : PastLoad(s)' => s = r
  BY <1>1, <1>2, MergeBasics DEF LInv, OverlapsAreMarked
<1>8. \A s \in Runners : PastLoad(s)' => Deletes(p, s)'
  BY <1>1, <1>2, <1>3, <1>7 DEF Deletes
<1>9. ASSUME NEW f \in Pages \ canonicals', NamedBy(p, f)' PROVE {p, f} \subseteq Gone(r)'
  <2>1. f # p /\ Exists(f) /\ file[f].refs \cap OwnNames({p}) # {}
    BY <1>4, <1>5, <1>9 DEF NamedBy, Exists, OwnNames, Names
  <2>2. f # Canonical(r)
    BY <1>1, <1>9 DEF LInv, CanonicalsAreMarked
  <2>3. \A g \in Files \ Group(r) : Exists(g) => file[g].refs \cap OwnNames(Gone(r)) = {}
    BY <1>1, <1>6 DEF LInv, WritesFollowReads
  <2>4. OwnNames({p}) \subseteq OwnNames(Gone(r))
    BY <1>2 DEF OwnNames
  <2>5. f \in Group(r)
    BY <1>4, <2>1, <2>3, <2>4
  <2> QED
    BY <1>2, <1>3, <2>2, <2>5
<1>10. InUse(p)'
  BY <1>1, <1>2, <1>3 DEF InUse
<1>11. Forgotten(p)'
  BY <1>1, <1>9, <1>10 DEF Forgotten
<1> QED
  BY <1>5, <1>8, <1>11 DEF Exists

LEMMA MergeKeepsLInv ==
  ASSUME TInv, LInv, NEW r \in Runners, MergeStep(r)
  PROVE  LInv'
<1>1. ASSUME NEW p \in Away'
      PROVE  /\ ~Exists(p)' /\ Forgotten(p)'
             /\ \A s \in Runners : PastLoad(s)' => Deletes(p, s)' \/ NotRead(p, s)'
  <2>1. p \notin spoiled' /\ spoiled \subseteq spoiled' /\ p \in mergedAway'
    BY <1>1, MergeBasics DEF Away
  <2>2. CASE p \in mergedAway
    BY <2>1, <2>2, AwayStays DEF Away
  <2>3. CASE p \notin mergedAway
    <3>1. PageDeleted(r)
      BY <2>1, <2>3 DEF MergeStep, Loaded, Answered, BackedUp, CanonicalWritten, FileRewritten,
                        AllRewritten, PageLeft, AllDeleted, Ended, Still, marks
    <3>2. p \in runner[r].todo /\ file' = [file EXCEPT ![p] = Absent]
      BY <2>1, <2>3, <3>1 DEF PageDeleted
    <3> QED
      BY <2>1, <3>1, <3>2, DeletedIsAway
  <2> QED
    BY <2>2, <2>3
<1>2. AwayStaysAway'
  BY <1>1 DEF AwayStaysAway
<1>3. AwayIsForgotten'
  BY <1>1, ForgottenIsAllNext
<1> QED
  BY <1>2, <1>3, MergeMarksOverlaps, MergeFollowsReads, MergeMarksCanonicals DEF LInv

\* A merge that nobody overlaps finds the files as it read or wrote them, and pages
\* that were merged away are forgotten (executeMerge).
THEOREM LInvHolds == Spec => []LInv
<1>1. Init => LInv
  <2> SUFFICES ASSUME Init PROVE LInv
    OBVIOUS
  <2>1. \A r \in Runners : runner[r].pc = "idle"
    BY FreshCalls DEF Init
  <2>2. \A r \in Runners : ~PastLoad(r) /\ ~Unmarked(r)
    BY <2>1 DEF PastLoad, Unmarked, Writing
  <2>3. Away = {}
    BY DEF Init, Away
  <2> QED
    BY <2>1, <2>2, <2>3 DEF LInv, OverlapsAreMarked, AwayStaysAway, AwayIsForgotten,
                            WritesFollowReads, CanonicalsAreMarked
<1>2. TInv /\ LInv /\ [Next]_vars => LInv'
  BY StepKinds, QuietIsStationary, EditIsStationary, StationaryKeepsLInv, MergeKeepsLInv
<1> QED
  BY <1>1, <1>2, TInvHolds, PTL DEF Spec

\* What refers to a page that was merged away follows it, by slug and by title:
\* a merge that nobody overlaps finds the wiki as it has read it, redirects every
\* file outside its group before it deletes a page, and ends only when the pages
\* that it deletes together are gone (executeMerge).
THEOREM ReferencesFollow == Spec => []LinksFollow
<1>1. TInv /\ LInv => LinksFollow
  <2> SUFFICES ASSUME TInv, LInv, NEW p \in Away
               PROVE  /\ ~Exists(p)
                      /\ \A f \in Pages \ canonicals : Exists(f) =>
                           file[f].refs \cap OwnNames({p}) = {} \/ DeletedTogether(p, f)
                      /\ (\A r \in Runners : p \notin Group(r) \/ runner[r].pc \notin Merging)
                           => Slug[p] \notin OwnNames({p}) \cap file[Index].refs
    BY DEF LinksFollow, Away
  <2>1. \A r \in Runners : PastLoad(r) => runner[r].pc \in Merging
    BY DEF PastLoad, Merging
  <2>2. ~Exists(p) /\ Forgotten(p)
    BY AwayBefore
  <2> QED
    BY <2>1, <2>2 DEF Forgotten, NamedBy, InUse, DeletedTogether
<1> QED
  BY <1>1, TInvHolds, LInvHolds, PTL

\* All that the run checks of the queue and its merges, together.
THEOREM QueuedMergesAreSound ==
  ASSUME "quickStarts" \in Assumed PROVE Spec => []MergesAreSound
<1>1. TypeOK /\ OneAtATime /\ NoStrandedTask /\ LinksFollow => MergesAreSound
  BY DEF MergesAreSound
<1> QED
  BY <1>1, TypeCorrect, MergesTakeTurns, PendingMergesAreDriven, ReferencesFollow, PTL

-----------------------------------------------------------------------------
(***************************************************************************)
(* The per-project mutex a merge runs under, for any set of calls and of   *)
(* paths.                                                                  *)
(*                                                                         *)
(* A call waits for one promise, the tail it found in the map.  IInv says  *)
(* what the settling of that one promise tells it about everybody ahead;   *)
(* AllBeforeHaveFinished draws the conclusion, and mutual exclusion, the   *)
(* order of service and the refinement of the ticket lock follow from it.  *)
(***************************************************************************)
\* A call whose predecessor's tail has settled finds that every earlier call
\* on its path has finished.
LEMMA AllBeforeHaveFinished ==
  ASSUME IInv, NEW c \in Calls, NEW e \in Calls,
         Entered(c), Entered(e), PrevSettled(c),
         path[e] = path[c], arrival[e] < arrival[c]
  PROVE  pc[e] = "released"
<1>1. CASE pc[e] = "released"
  BY <1>1
<1>2. CASE prev[c] # NoCall /\ arrival[e] <= arrival[prev[c]]
  <2>1. prev[c] \in settled
    BY <1>2 DEF PrevSettled
  <2>2. path[e] = path[prev[c]]
    BY <1>2 DEF IInv, ChainStaysOnPath
  <2> QED
    BY <1>2, <2>1, <2>2 DEF IInv, SettledMeansFinished
<1> QED
  BY <1>1, <1>2 DEF IInv, ChainCoversEarlier

\* Initially nobody has arrived, so the invariant holds.
LEMMA InitIInv == LockInit => IInv
  BY NoCallAssumption
  DEF LockInit, IInv, LockTypeOK, States, DistinctArrivals, MapHoldsLast, ChainStaysOnPath,
      ChainCoversEarlier, SettledMeansFinished, RunsAfterPrev, CleanupAfterRelease,
      NoBrokenChain, NoLeak, Entered, Live

\* A new call chains behind the last one to arrive, or behind nobody when
\* everybody has finished.
LEMMA EnterKeepsIInv ==
  ASSUME IInv, NEW c \in Calls, Enter(c)
  PROVE  IInv'
<1> USE NoCallAssumption DEF IInv, LockTypeOK, States, Enter, Entered, Live, PrevSettled
<1>1. LockTypeOK'
  OBVIOUS
<1>2. DistinctArrivals'
  BY DEF DistinctArrivals
<1>3. MapHoldsLast'
  BY DEF MapHoldsLast, DistinctArrivals
<1>4. ChainStaysOnPath'
  BY DEF ChainStaysOnPath, MapHoldsLast
<1>5. ChainCoversEarlier'
  <2> SUFFICES ASSUME NEW d \in Calls, NEW e \in Calls,
                      Entered(d)', Entered(e)',
                      path'[e] = path'[d], arrival'[e] < arrival'[d]
               PROVE  \/ pc'[e] = "released"
                      \/ prev'[d] # NoCall /\ arrival'[e] <= arrival'[prev'[d]]
    BY DEF ChainCoversEarlier
  <2>1. e # c
    BY DEF DistinctArrivals
  <2>2. CASE d = c
    BY <2>1, <2>2 DEF MapHoldsLast, NoBrokenChain
  <2>3. CASE d # c
    BY <2>1, <2>3 DEF ChainCoversEarlier, ChainStaysOnPath
  <2> QED
    BY <2>2, <2>3
<1>6. SettledMeansFinished'
  BY DEF SettledMeansFinished, DistinctArrivals
<1>7. RunsAfterPrev'
  BY DEF RunsAfterPrev
<1>8. CleanupAfterRelease'
  BY DEF CleanupAfterRelease
<1>9. NoBrokenChain'
  BY DEF NoBrokenChain, DistinctArrivals
<1>10. NoLeak'
  BY DEF NoLeak
<1> QED
  BY <1>1, <1>2, <1>3, <1>4, <1>5, <1>6, <1>7, <1>8, <1>9, <1>10

\* A call resumes only once its predecessor's tail has settled.
LEMMA AcquireKeepsIInv ==
  ASSUME IInv, NEW c \in Calls, Acquire(c)
  PROVE  IInv'
  BY NoCallAssumption
  DEF Acquire, IInv, LockTypeOK, States, DistinctArrivals, MapHoldsLast, ChainStaysOnPath,
      ChainCoversEarlier, SettledMeansFinished, RunsAfterPrev, CleanupAfterRelease,
      NoBrokenChain, NoLeak, Entered, Live, PrevSettled

\* A finished call that is still the tail queues its cleanup, so its entry
\* stays accounted for.
LEMMA ReleaseKeepsIInv ==
  ASSUME IInv, NEW c \in Calls, Release(c)
  PROVE  IInv'
<1> USE NoCallAssumption
        DEF IInv, LockTypeOK, States, Release, CleansUp, Entered, Live, PrevSettled
<1>1. /\ LockTypeOK'
      /\ DistinctArrivals'
      /\ MapHoldsLast'
      /\ ChainStaysOnPath'
      /\ ChainCoversEarlier'
  BY DEF DistinctArrivals, MapHoldsLast, ChainStaysOnPath, ChainCoversEarlier
<1>2. SettledMeansFinished' /\ RunsAfterPrev' /\ CleanupAfterRelease'
  BY DEF SettledMeansFinished, RunsAfterPrev, CleanupAfterRelease
<1>3. NoBrokenChain'
  BY DEF NoBrokenChain
<1>4. NoLeak'
  BY DEF NoLeak, MapHoldsLast
<1> QED
  BY <1>1, <1>2, <1>3, <1>4

\* A tail settles after its call and its predecessor's tail, hence after
\* everybody before it.
LEMMA SettleTailKeepsIInv ==
  ASSUME IInv, NEW c \in Calls, SettleTail(c)
  PROVE  IInv'
<1> USE NoCallAssumption DEF IInv, LockTypeOK, States, SettleTail, Entered, Live, PrevSettled
<1>1. /\ LockTypeOK'
      /\ DistinctArrivals'
      /\ MapHoldsLast'
      /\ ChainStaysOnPath'
      /\ ChainCoversEarlier'
  BY DEF DistinctArrivals, MapHoldsLast, ChainStaysOnPath, ChainCoversEarlier
<1>2. SettledMeansFinished'
  <2>1. ASSUME NEW e \in Calls, Entered(e), path[e] = path[c], arrival[e] <= arrival[c]
        PROVE  pc[e] = "released"
    <3>1. CASE arrival[e] = arrival[c]
      BY <2>1, <3>1 DEF DistinctArrivals
    <3>2. CASE arrival[e] < arrival[c]
      BY <2>1, <3>2, AllBeforeHaveFinished
    <3> QED
      BY <2>1, <3>1, <3>2
  <2> QED
    BY <2>1 DEF SettledMeansFinished
<1>3. RunsAfterPrev' /\ CleanupAfterRelease' /\ NoBrokenChain' /\ NoLeak'
  BY DEF RunsAfterPrev, CleanupAfterRelease, NoBrokenChain, NoLeak
<1> QED
  BY <1>1, <1>2, <1>3

\* Dropping the entry of a finished call leaves nobody behind: the entry held
\* the last call to arrive, so everybody on the path has finished.
LEMMA CleanupKeepsIInv ==
  ASSUME IInv, NEW c \in Calls, Cleanup(c)
  PROVE  IInv'
<1> USE NoCallAssumption DEF IInv, LockTypeOK, States, Cleanup, Entered, Live, PrevSettled
<1>1. /\ LockTypeOK'
      /\ DistinctArrivals'
      /\ ChainStaysOnPath'
      /\ ChainCoversEarlier'
      /\ SettledMeansFinished'
      /\ RunsAfterPrev'
      /\ CleanupAfterRelease'
  BY DEF DistinctArrivals, ChainStaysOnPath, ChainCoversEarlier, SettledMeansFinished,
         RunsAfterPrev, CleanupAfterRelease
<1>2. MapHoldsLast'
  BY DEF MapHoldsLast
<1>3. ASSUME locks[path[c]] = c, NEW e \in Calls, path[e] = path[c]
      PROVE  ~Live(e)
  <2> SUFFICES ASSUME Entered(e)
               PROVE  pc[e] = "released"
    OBVIOUS
  <2>1. arrival[e] <= arrival[c]
    BY <1>3 DEF MapHoldsLast
  <2>2. pc[c] = "released" /\ PrevSettled(c)
    BY DEF CleanupAfterRelease, RunsAfterPrev
  <2>3. CASE arrival[e] = arrival[c]
    BY <2>2, <2>3 DEF DistinctArrivals
  <2>4. CASE arrival[e] < arrival[c]
    BY <1>3, <2>2, <2>4, AllBeforeHaveFinished
  <2> QED
    BY <2>1, <2>3, <2>4
<1>4. NoBrokenChain'
  BY <1>3 DEF NoBrokenChain
<1>5. NoLeak'
  BY DEF NoLeak, MapHoldsLast
<1> QED
  BY <1>1, <1>2, <1>4, <1>5

\* Every step of the lock, or a step of the rest of the program, keeps IInv.
LEMMA NextKeepsIInv == IInv /\ [LockNext]_lockVars => IInv'
<1> SUFFICES ASSUME IInv, [LockNext]_lockVars PROVE IInv'
  OBVIOUS
<1>1. CASE LockNext
  BY <1>1, EnterKeepsIInv, AcquireKeepsIInv, ReleaseKeepsIInv, SettleTailKeepsIInv,
     CleanupKeepsIInv
  DEF LockNext
<1>2. CASE UNCHANGED lockVars
  BY <1>2
  DEF lockVars, IInv, LockTypeOK, DistinctArrivals, MapHoldsLast, ChainStaysOnPath,
      ChainCoversEarlier, SettledMeansFinished, RunsAfterPrev, CleanupAfterRelease,
      NoBrokenChain, NoLeak, Entered, Live, PrevSettled
<1> QED
  BY <1>1, <1>2

\* The inductive invariant holds in every reachable state of project-mutex.ts,
\* whatever the number of concurrent callers and projects.
THEOREM Invariance == LockSpec => []IInv
  BY InitIInv, NextKeepsIInv, PTL DEF LockSpec

\* Two bodies passed to withProjectLock for the same project never overlap.
THEOREM Exclusion == LockSpec => []MutualExclusion
<1>1. IInv => MutualExclusion
  <2> SUFFICES ASSUME IInv, NEW c \in Calls, NEW d \in Calls,
                      pc[c] = "running", pc[d] = "running",
                      path[c] = path[d], c # d
               PROVE  FALSE
    BY DEF MutualExclusion
  <2>1. PrevSettled(c) /\ PrevSettled(d) /\ Entered(c) /\ Entered(d)
    BY DEF IInv, RunsAfterPrev, Entered
  <2>2. arrival[c] < arrival[d] \/ arrival[d] < arrival[c]
    BY <2>1 DEF IInv, LockTypeOK, DistinctArrivals
  <2> QED
    BY <2>1, <2>2, AllBeforeHaveFinished
<1> QED
  BY <1>1, Invariance, PTL

\* The lock is granted in the order in which withProjectLock was called.
THEOREM Fifo == LockSpec => []ArrivalOrder
<1>1. IInv => ArrivalOrder
  <2> SUFFICES ASSUME IInv, NEW c \in Calls, NEW d \in Calls,
                      pc[c] = "waiting", pc[d] \in {"running", "released"},
                      path[c] = path[d], ~(arrival[d] < arrival[c])
               PROVE  FALSE
    BY DEF ArrivalOrder
  <2>1. PrevSettled(d) /\ Entered(c) /\ Entered(d)
    BY DEF IInv, RunsAfterPrev, Entered
  <2>2. arrival[c] < arrival[d]
    BY <2>1 DEF IInv, LockTypeOK, DistinctArrivals
  <2> QED
    BY <2>1, <2>2, AllBeforeHaveFinished
<1> QED
  BY <1>1, Invariance, PTL

\* The promise chain of project-mutex.ts implements the ticket lock.
THEOREM Refinement == LockSpec => ImplementsTicketLock
<1>1. LockInit => Ticket!Init
  BY DEF LockInit, Ticket!Init
<1>2. ASSUME IInv, LockNext PROVE Ticket!Next \/ UNCHANGED Ticket!vars
  <2> SUFFICES ASSUME NEW c \in Calls,
                      Enter(c) \/ Acquire(c) \/ Release(c) \/ SettleTail(c) \/ Cleanup(c)
               PROVE  Ticket!Next \/ UNCHANGED Ticket!vars
    BY <1>2 DEF LockNext
  <2>1. CASE Enter(c)
    BY <2>1 DEF Enter, Ticket!Next, Ticket!TakeTicket
  <2>2. CASE Acquire(c)
    <3>1. Entered(c) /\ PrevSettled(c)
      BY <2>2 DEF Acquire, Entered
    <3>2. ASSUME NEW d \in Ticket!Rivals(c)
          PROVE  pc[d] # "running" /\ (pc[d] = "waiting" => arrival[c] < arrival[d])
      <4> SUFFICES ASSUME Live(d)
                   PROVE  pc[d] # "running" /\ arrival[c] < arrival[d]
        BY DEF Live
      <4>1. d \in Calls /\ path[d] = path[c] /\ d # c /\ Entered(d)
        BY <3>2 DEF Ticket!Rivals, Entered, Live
      <4>2. ~(arrival[d] < arrival[c])
        BY <1>2, <3>1, <4>1, AllBeforeHaveFinished DEF Live
      <4>3. arrival[c] < arrival[d]
        BY <1>2, <3>1, <4>1, <4>2 DEF IInv, LockTypeOK, DistinctArrivals
      <4>4. pc[d] # "running"
        <5> SUFFICES ASSUME pc[d] = "running" PROVE FALSE
          OBVIOUS
        <5>1. PrevSettled(d)
          BY <1>2, <4>1 DEF IInv, RunsAfterPrev
        <5>2. pc[c] = "released"
          BY <1>2, <3>1, <4>1, <4>3, <5>1, AllBeforeHaveFinished
        <5> QED
          BY <2>2, <5>2 DEF Acquire
      <4> QED
        BY <4>3, <4>4
    <3>3. Ticket!Hold(c)
      BY <2>2, <3>2 DEF Acquire, Ticket!Hold
    <3> QED
      BY <3>3 DEF Ticket!Next
  <2>3. CASE Release(c)
    BY <2>3 DEF Release, Ticket!Next, Ticket!Leave
  <2>4. CASE SettleTail(c) \/ Cleanup(c)
    BY <2>4 DEF SettleTail, Cleanup, Ticket!vars
  <2> QED
    BY <2>1, <2>2, <2>3, <2>4
<1>3. IInv /\ [LockNext]_lockVars => [Ticket!Next]_(Ticket!vars)
  BY <1>2 DEF lockVars, Ticket!vars
<1> QED
  BY <1>1, <1>3, Invariance, PTL DEF LockSpec, ImplementsTicketLock, Ticket!Spec
=============================================================================

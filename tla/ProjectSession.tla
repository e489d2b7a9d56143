--------------------------- MODULE ProjectSession ---------------------------
(***************************************************************************)
(* Opening and leaving projects while work of the open one goes on: the    *)
(* review items of src/stores/review-store.ts, their reset and reload in   *)
(* src/App.tsx and reset-project-state.ts, the debounced save of           *)
(* auto-save.ts, and those who change items across an await: ingests, the  *)
(* sweep of sweep-reviews.ts, and the user's decisions.                    *)
(*                                                                         *)
(* The store knows nothing of projects.  Whose items it holds is a matter  *)
(* of the order in which these calls come back, and of ids that are unique *)
(* only within one run of the application: `counter` starts at 0 again,    *)
(* while the items of the files keep the ids of earlier runs.              *)
(*                                                                         *)
(* An item's text is left out: n tells items apart.  Merging an incoming   *)
(* item into a pending one changes none of what is modelled but the timer. *)
(***************************************************************************)
EXTENDS Naturals, FiniteSets

CONSTANTS
  Projects, NoProject,
  Calls,          \* calls of handleProjectOpened and handleSwitchProject
  Ingests,        \* calls of autoIngest
  Reviewers,      \* sweeps and decisions
  MaxItems,       \* items made in a behaviour (bound)
  MaxLeaves,      \* projects left in a behaviour (bound)
  MaxClicks,      \* decisions, dismissals and clears in a behaviour (bound)
  MaxRestarts,    \* times the application is quit or killed (bound)
  Assumed         \* assumptions on timing, among those named below

\* promptOpening   opening and leaving a project each take less time than the
\*                 debounce of the save they trigger
\* promptWrites    a save has landed when a project is loaded
\* oneOpening      the user starts one opening or leaving at a time
\* workSettles     no ingest and no decision outlives the visit it began in
\* leavesSaved     the user leaves, or quits, with nothing left to save
\* wholeWrites     a write that the end of the process cuts short changes nothing
Assumptions == {"promptOpening", "promptWrites", "oneOpening", "workSettles", "leavesSaved",
                "wholeWrites"}

ASSUME ProjectAssumption == NoProject \notin Projects
ASSUME NumberAssumption == {MaxItems, MaxLeaves, MaxClicks, MaxRestarts} \subseteq Nat
ASSUME TimingAssumption == Assumed \subseteq Assumptions

VARIABLES
  project,    \* useWikiStore's project
  items,      \* useReviewStore's items
  counter,    \* its id counter
  timers,     \* auto-save: what the pending timers will save
  saving,     \* saves under way
  file,       \* project -> its review.json
  call, ingest, reviewer,   \* the calls in flight
  budget

\* History, to state the properties.
VARIABLES
  home,       \* item -> the project it is about
  saved,      \* items that have been in their project's file
  removed     \* items the user has dismissed or cleared

store   == <<project, items, counter, timers>>
disk    == <<saving, file, saved>>
flights == <<call, ingest, reviewer>>
vars    == <<store, disk, flights, budget, home, removed>>

Ns     == 1..MaxItems
Item   == [n : Ns, id : Nat, resolved : BOOLEAN]
Anywhere == Projects \cup {NoProject}

IdleCall     == [pc |-> "idle", proj |-> NoProject, loaded |-> {}]
IdleIngest   == [pc |-> "idle", proj |-> NoProject]
IdleReviewer == [pc |-> "idle", proj |-> NoProject, seen |-> {}]

CallState     == [pc : {"idle", "resetting", "listing", "loading", "leaving"},
                  proj : Anywhere, loaded : SUBSET Item]
IngestState   == [pc : {"idle", "running", "done"}, proj : Anywhere]
ReviewerState == [pc : {"idle", "index", "judge", "decide"},
                  proj : Anywhere, seen : SUBSET Item]

TypeOK ==
  /\ project \in Anywhere
  /\ items \subseteq Item
  /\ counter \in Nat
  /\ timers \subseteq SUBSET Item
  /\ saving \subseteq [proj : Projects, items : SUBSET Item]
  /\ file \in [Projects -> SUBSET Item]
  /\ call \in [Calls -> CallState]
  /\ ingest \in [Ingests -> IngestState]
  /\ reviewer \in [Reviewers -> ReviewerState]
  /\ budget \in [{"leaves", "clicks", "restarts"} -> Nat]
  /\ home \in [Ns -> Anywhere]
  /\ saved \subseteq Ns /\ removed \subseteq Ns

Init ==
  /\ project = NoProject
  /\ items = {} /\ counter = 0 /\ timers = {}
  /\ saving = {} /\ file = [p \in Projects |-> {}]
  /\ call = [c \in Calls |-> IdleCall]
  /\ ingest = [i \in Ingests |-> IdleIngest]
  /\ reviewer = [r \in Reviewers |-> IdleReviewer]
  /\ budget = [leaves |-> MaxLeaves, clicks |-> MaxClicks, restarts |-> MaxRestarts]
  /\ home = [n \in Ns |-> NoProject]
  /\ saved = {} /\ removed = {}

-----------------------------------------------------------------------------
(***************************************************************************)
(* Pieces of the actions.                                                  *)
(***************************************************************************)
Spend(what) == budget[what] > 0 /\ budget' = [budget EXCEPT ![what] = @ - 1]

Idle(flight) == \A f \in DOMAIN flight : flight[f].pc = "idle"
WorkUnderWay ==
  \/ \E i \in Ingests : ingest[i].pc = "running"
  \/ \E r \in Reviewers : reviewer[r].pc = "decide"

Of(is) == {i.n : i \in is}
Made == {n \in Ns : home[n] # NoProject}
Fresh == CHOOSE n \in Ns \ Made : TRUE

\* Every change of the store notifies auto-save, which puts its timer back.
\* Variants forget to cancel the timer that is pending, or leave it as it is.
RearmBeside(now) == timers' = timers \cup {now}
RearmOnce(now) == timers' = IF timers = {} THEN {now} ELSE timers
Rearm(now) == timers' = {now}

Change(now) == items' = now /\ Rearm(now)

\* A new item about project p: addItem, and addItems when no pending item has
\* its type and title.
Add(p) ==
  /\ Made # Ns
  /\ home' = [home EXCEPT ![Fresh] = p]
  /\ counter' = counter + 1
  /\ Change(items \cup {[n |-> Fresh, id |-> counter + 1, resolved |-> FALSE]})

WithId(ids) == {i \in items : i.id \in ids}
Resolved(ids) ==
  (items \ WithId(ids)) \cup {[i EXCEPT !.resolved = TRUE] : i \in WithId(ids)}
resolveItem(ids) == Change(Resolved(ids))

-----------------------------------------------------------------------------
(***************************************************************************)
(* Opening and leaving a project.                                          *)
(***************************************************************************)
NoRival == "oneOpening" \in Assumed => Idle(call)
NothingToSave == "leavesSaved" \in Assumed => timers = {} /\ saving = {}

\* resetProjectState as far as it is synchronous, and one that leaves out the
\* review store.
ResetOthers(c, pc, p) ==
  /\ call' = [call EXCEPT ![c] = [IdleCall EXCEPT !.pc = pc, !.proj = p]]
  /\ UNCHANGED <<items, timers>>

Reset(c, pc, p) ==
  /\ Change({})
  /\ call' = [call EXCEPT ![c] = [IdleCall EXCEPT !.pc = pc, !.proj = p]]

OpenProject(c, p) ==
  /\ project = NoProject /\ call[c].pc = "idle" /\ NoRival
  /\ Reset(c, "resetting", p)
  /\ UNCHANGED <<project, counter, disk, ingest, reviewer, budget, home, removed>>

\* The queues are paused.
SetProject(c) ==
  /\ call[c].pc = "resetting"
  /\ project' = call[c].proj
  /\ call' = [call EXCEPT ![c].pc = "listing"]
  /\ UNCHANGED <<items, counter, timers, disk, ingest, reviewer, budget, home, removed>>

\* The directory is listed, and loadReviewItems reads the file: as nothing when
\* it is being written.
BeingWritten(p) == \E s \in saving : s.proj = p

LoadReviewItems(c) ==
  /\ call[c].pc = "listing"
  /\ "promptWrites" \in Assumed => ~BeingWritten(call[c].proj)
  /\ \E loaded \in {file[call[c].proj]} \cup (IF BeingWritten(call[c].proj) THEN {{}} ELSE {}) :
       call' = [call EXCEPT ![c] = [@ EXCEPT !.pc = "loading", !.loaded = loaded]]
  /\ UNCHANGED <<store, disk, ingest, reviewer, budget, home, removed>>

SetItems(c) ==
  /\ call[c].pc = "loading"
  /\ IF call[c].loaded = {} THEN UNCHANGED <<items, timers>> ELSE Change(call[c].loaded)
  /\ call' = [call EXCEPT ![c] = IdleCall]
  /\ UNCHANGED <<project, counter, disk, ingest, reviewer, budget, home, removed>>

LeaveProject(c) ==
  /\ project # NoProject /\ call[c].pc = "idle" /\ Spend("leaves")
  /\ NoRival /\ NothingToSave
  /\ "workSettles" \in Assumed => ~WorkUnderWay
  /\ Reset(c, "leaving", project)
  /\ UNCHANGED <<project, counter, disk, ingest, reviewer, home, removed>>

LeftProject(c) ==
  /\ call[c].pc = "leaving"
  /\ project' = NoProject
  /\ call' = [call EXCEPT ![c] = IdleCall]
  /\ UNCHANGED <<items, counter, timers, disk, ingest, reviewer, budget, home, removed>>

-----------------------------------------------------------------------------
(***************************************************************************)
(* Those who change items.                                                 *)
(***************************************************************************)
\* Work begins on a page that is shown, or from a queue that is not paused.
Open == project # NoProject /\ \A c \in Calls : call[c].pc \notin {"resetting", "leaving"}

BeginIngest(i) ==
  /\ Open /\ ingest[i].pc = "idle"
  /\ ingest' = [ingest EXCEPT ![i] = [pc |-> "running", proj |-> project]]
  /\ UNCHANGED <<store, disk, call, reviewer, budget, home, removed>>

\* autoIngest adds what it has to say, aborted or not, whatever is open.
EndIngest(i) ==
  /\ ingest[i].pc = "running"
  /\ \/ Add(ingest[i].proj)
     \/ \E old \in items : ~old.resolved /\ Change(items) /\ UNCHANGED <<counter, home>>
     \/ UNCHANGED <<items, counter, timers, home>>
  /\ ingest' = [ingest EXCEPT ![i] = [IdleIngest EXCEPT !.pc = "done"]]
  /\ UNCHANGED <<project, disk, call, reviewer, budget, removed>>

\* A finding of the lint view is sent to review.
AddFromLint ==
  /\ Open /\ Spend("clicks") /\ Add(project)
  /\ UNCHANGED <<project, disk, flights, removed>>

Pending == {i \in items : ~i.resolved}

StartSweep(r) ==
  /\ Open /\ reviewer[r].pc = "idle" /\ Pending # {}
  /\ reviewer' = [reviewer EXCEPT ![r] = [pc |-> "index", proj |-> project, seen |-> Pending]]
  /\ UNCHANGED <<store, disk, call, ingest, budget, home, removed>>

MatchesAnyProject(p) == project # NoProject
MatchesCurrentProject(p) == project = p

\* The rules, and then the model's judgement, resolve some of what was pending
\* when the sweep began.
Sweep(r, pc, next) ==
  /\ reviewer[r].pc = pc
  /\ MatchesCurrentProject(reviewer[r].proj)
  /\ \E done \in SUBSET reviewer[r].seen :
       /\ IF done = {} THEN UNCHANGED <<items, timers>> ELSE resolveItem({i.id : i \in done})
       /\ reviewer' = [reviewer EXCEPT ![r] =
            IF next = "idle" \/ done = reviewer[r].seen THEN IdleReviewer
            ELSE [reviewer[r] EXCEPT !.pc = next, !.seen = reviewer[r].seen \ done]]
  /\ UNCHANGED <<project, counter, disk, call, ingest, budget, home, removed>>

ApplyRules(r) == Sweep(r, "index", "judge")
Judge(r) == Sweep(r, "judge", "idle")

\* The project has changed, or the signal was aborted (see IngestQueue for when
\* that fails to reach a sweep), or the model's answer was of no use.
QuitSweep(r) ==
  /\ reviewer[r].pc \in {"index", "judge"}
  /\ reviewer' = [reviewer EXCEPT ![r] = IdleReviewer]
  /\ UNCHANGED <<store, disk, call, ingest, budget, home, removed>>

\* handleResolve: a page is created, saved or deleted before the item is
\* resolved, by its id.
Click(r, i) ==
  /\ Open /\ Spend("clicks") /\ reviewer[r].pc = "idle" /\ i \in Pending
  /\ reviewer' = [reviewer EXCEPT ![r] = [pc |-> "decide", proj |-> project, seen |-> {i}]]
  /\ UNCHANGED <<store, disk, call, ingest, home, removed>>

Decide(r) ==
  /\ reviewer[r].pc = "decide"
  /\ resolveItem({i.id : i \in reviewer[r].seen})
  /\ reviewer' = [reviewer EXCEPT ![r] = IdleReviewer]
  /\ UNCHANGED <<project, counter, disk, call, ingest, budget, home, removed>>

Remove(gone) == Change(items \ gone) /\ removed' = removed \cup Of(gone)

dismissItem(i) ==
  /\ Open /\ Spend("clicks") /\ i \in items
  /\ Remove(WithId({i.id}))
  /\ UNCHANGED <<project, counter, disk, flights, home>>

clearResolved ==
  /\ Open /\ Spend("clicks")
  /\ Remove(items \ Pending)
  /\ UNCHANGED <<project, counter, disk, flights, home>>

-----------------------------------------------------------------------------
(***************************************************************************)
(* The debounced save and the process.                                     *)
(***************************************************************************)
InPlace == "promptOpening" \in Assumed => Idle(call)

\* A save that does not look whether a project is open.
FireAnyway(t) ==
  /\ t \in timers /\ InPlace
  /\ timers' = timers \ {t}
  /\ saving' = saving \cup {[proj |-> project, items |-> t]}
  /\ UNCHANGED <<project, items, counter, file, saved, flights, budget, home, removed>>

\* The timer runs out.  Saves of one project are at least a debounce apart, so
\* that the one before has landed.
Fire(t) ==
  /\ t \in timers /\ InPlace /\ ~BeingWritten(project)
  /\ timers' = timers \ {t}
  /\ saving' = IF project = NoProject THEN saving
               ELSE saving \cup {[proj |-> project, items |-> t]}
  /\ UNCHANGED <<project, items, counter, file, saved, flights, budget, home, removed>>

Land(s) ==
  /\ s \in saving
  /\ saving' = saving \ {s}
  /\ file' = [file EXCEPT ![s.proj] = s.items]
  /\ saved' = saved \cup {n \in Of(s.items) : home[n] = s.proj}
  /\ UNCHANGED <<store, flights, budget, home, removed>>

\* A write that is cut short leaves a file that does not parse, or the old one.
CutShort(cut) ==
  /\ "wholeWrites" \in Assumed => cut = {}
  /\ file' = [p \in Projects |-> IF \E s \in cut : s.proj = p THEN {} ELSE file[p]]

Restart ==
  /\ Spend("restarts") /\ NothingToSave
  /\ \E cut \in SUBSET saving : CutShort(cut)
  /\ project' = NoProject
  /\ items' = {} /\ counter' = 0 /\ timers' = {}
  /\ saving' = {}
  /\ call' = [c \in Calls |-> IdleCall]
  /\ ingest' = [i \in Ingests |-> IF ingest[i].pc = "running"
                                  THEN [IdleIngest EXCEPT !.pc = "done"] ELSE ingest[i]]
  /\ reviewer' = [r \in Reviewers |-> IdleReviewer]
  /\ UNCHANGED <<saved, home, removed>>

Session(c) ==
  \/ \E p \in Projects : OpenProject(c, p)
  \/ SetProject(c) \/ LoadReviewItems(c) \/ SetItems(c) \/ LeaveProject(c) \/ LeftProject(c)

Review(r) ==
  \/ StartSweep(r) \/ ApplyRules(r) \/ Judge(r) \/ QuitSweep(r)
  \/ \E i \in items : Click(r, i)
  \/ Decide(r)

Next ==
  \/ \E c \in Calls : Session(c)
  \/ \E i \in Ingests : BeginIngest(i) \/ EndIngest(i)
  \/ \E r \in Reviewers : Review(r)
  \/ \E i \in items : dismissItem(i)
  \/ AddFromLint \/ clearResolved
  \/ \E t \in timers : Fire(t)
  \/ \E s \in saving : Land(s)
  \/ Restart

Spec == Init /\ [][Next]_vars

\* Timers run out, writes return, an opening goes on.  Nobody has to open,
\* leave or decide anything.
FairSpec ==
  /\ Spec
  /\ WF_vars(\E t \in timers : Fire(t))
  /\ WF_vars(\E s \in saving : Land(s))
  /\ \A c \in Calls : WF_vars(SetProject(c) \/ LoadReviewItems(c) \/ SetItems(c) \/ LeftProject(c))

-----------------------------------------------------------------------------
(***************************************************************************)
(* Properties.                                                             *)
(***************************************************************************)
About(is, p) == \A i \in is : home[i.n] = p

\* "MUST be called (and AWAITED) both when leaving a project and when opening a
\* new one, to prevent cross-project data contamination"
\* (reset-project-state.ts:3-4): items about one project are neither shown in
\* another nor written to its file.
NoContamination ==
  /\ project # NoProject => About(items, project)
  /\ \A p \in Projects : About(file[p], p)

\* "All state persisted - [...] review items [...] survive restarts"
\* (README.md:115): what has been saved stays in its project's file until the
\* user removes it.
SavedItemsStay ==
  \A n \in saved \ removed : n \in Of(file[home[n]])

\* Every variable has its type, and what was saved stays saved.
ItemsAreKept == TypeOK /\ SavedItemsStay

\* A sweep changes only items of the project it was started for: the guards
\* "bail mid-sweep if the user has switched projects under us"
\* (sweep-reviews.ts:320-324), however ids repeat.
SweepStaysHome ==
  [][\A r \in Reviewers :
       ApplyRules(r) \/ Judge(r) => About(items \ items', reviewer[r].proj)]_vars

\* An item is changed by a sweep that has judged it or a decision about it.
DecisionsHitTheirItem ==
  [][\A r \in Reviewers :
       ApplyRules(r) \/ Judge(r) \/ Decide(r)
         => Of(items \ items') \subseteq Of(reviewer[r].seen)]_vars

\* The debounce puts a save off, never for ever: no item is shown for good
\* without being saved.
ShownItemsAreSaved == \A n \in Ns : []<>(n \in Of(items) => n \in saved)

\* The user leaves, or quits, nothing unsaved behind.
NothingLeftUnsaved == [][Of(items) \subseteq Of(items') \cup saved \cup removed']_vars

-----------------------------------------------------------------------------
(***************************************************************************)
(* Why NoContamination holds, under oneOpening and workSettles: whatever   *)
(* holds items, or is going to make some, belongs to the open project, and *)
(* the store is empty whenever the project changes.                        *)
(***************************************************************************)
OneCall ==
  \A c, d \in Calls : call[c].pc # "idle" /\ call[d].pc # "idle" => c = d

CallsStand ==
  \A c \in Calls :
    /\ call[c].pc = "resetting" => project = NoProject /\ call[c].proj \in Projects
    /\ call[c].pc \in {"listing", "loading"} => project = call[c].proj /\ project \in Projects
    /\ call[c].pc = "leaving" => items = {}
    /\ call[c].pc = "loading" => About(call[c].loaded, call[c].proj)

IngestsAreHere ==
  \A i \in Ingests : ingest[i].pc = "running" =>
    /\ project \in Projects /\ ingest[i].proj = project
    /\ \A c \in Calls : call[c].pc # "leaving"

ItemsAreHere == items # {} => project \in Projects /\ About(items, project)

TimersAreFresh == timers \subseteq {items}

SavesAreHome ==
  /\ \A s \in saving : About(s.items, s.proj)
  /\ \A p \in Projects : About(file[p], p)

IInv == TypeOK /\ OneCall /\ CallsStand /\ IngestsAreHere /\ ItemsAreHere
        /\ TimersAreFresh /\ SavesAreHome
=============================================================================

---------------------------- MODULE IngestQueue ----------------------------
(***************************************************************************)
(* The persistent ingest queue of src/lib/ingest-queue.ts.                 *)
(*                                                                         *)
(* The module's state is one array and a few flags, shared by every        *)
(* asynchronous call in flight: the runners (processNext), the user's      *)
(* clicks, the project switch (pauseQueue, restoreQueue) and the review    *)
(* sweep.  JavaScript runs each call without interruption from one await   *)
(* to the next, so a call in flight is a record that says at which await   *)
(* it stands, and an action is the code from one await to the next.        *)
(*                                                                         *)
(* Saves go through the Tauri command write_file, which runs each call on  *)
(* a blocking thread: writes in flight together land in any order, one may *)
(* fail, and a crash in the middle of one leaves a file that does not      *)
(* parse.  The assumptions OrderedWrites and AtomicWrites and MaxFailures  *)
(* switch these off.                                                       *)
(*                                                                         *)
(* Tasks are numbered in the order in which they are enqueued and the code *)
(* only ever appends, filters and reloads, so the array is the set of its  *)
(* tasks and "the first pending task" is the one with the least number.    *)
(*                                                                         *)
(* lastWrittenFiles is not a variable: it is assigned and reset between    *)
(* two awaits (lines 502-514), so every other call finds it empty and the  *)
(* clean-up branches of cancelTask and cancelAllTasks do nothing.          *)
(***************************************************************************)
EXTENDS Naturals, Sequences, FiniteSets

LOCAL INSTANCE TLC

CONSTANTS
  Projects,
  Frames,             \* asynchronous calls in flight at once (bound)
  NoProject, NoFrame, \* "" and null
  MAX_RETRIES,
  MaxTasks,           \* tasks enqueued in a behaviour (bound)
  MaxClicks,          \* retries and clears in a behaviour (bound)
  MaxCancels,         \* cancels in a behaviour (bound)
  MaxSwitches,        \* projects left in a behaviour (bound)
  MaxCrashes,         \* crashes in a behaviour (bound)
  MaxFailures,        \* writes that fail in a behaviour (bound)
  OrderedWrites,      \* assumption: writes to one file land in issue order
  AtomicWrites,       \* assumption: a crash never leaves a torn file
  Timing,             \* assumption: when calls and results arrive, one of
                      \* "paced" (the user's calls and autoIngest's results
                      \* one at a time, each once the look-ups and saves of
                      \* the one before are over), "outsideSwitch" (the
                      \* user's calls not while a switch is under way) and
                      \* "anytime"
  EarlyReturns        \* whether a project may be opened again while a runner
                      \* of its previous visit has not ended

ASSUME AbsentAssumption == NoProject \notin Projects /\ NoFrame \notin Frames
ASSUME FrameAssumption == Frames # {} /\ IsFiniteSet(Frames)
ASSUME NumberAssumption ==
  {MAX_RETRIES, MaxTasks, MaxClicks, MaxCancels, MaxSwitches, MaxCrashes, MaxFailures} \subseteq Nat
ASSUME FlagAssumption ==
  /\ {OrderedWrites, AtomicWrites, EarlyReturns} \subseteq BOOLEAN
  /\ Timing \in {"paced", "outsideSwitch", "anytime"}

VARIABLES
  queue, processing, currentProjectId, currentAbortController,
  processedSinceDrain, sweepAbortController,
  frame,      \* the calls in flight
  inflight,   \* the writes in flight, in the order in which they were issued
  disk,       \* project -> the content of its queue file
  issued,     \* how many tasks have been enqueued
  budget      \* what is left of the bounds on clicks, switches, crashes and failures

\* What the user has been told, kept to state the properties.
VARIABLES
  owner,      \* task -> the project it was enqueued in
  acked,      \* tasks whose enqueue call has returned
  dropped,    \* tasks removed from the queue by success, cancel or clear
  closed      \* dropped tasks whose removal has been saved

memory == <<queue, processing, currentProjectId, currentAbortController,
            processedSinceDrain, sweepAbortController>>
history == <<owner, acked, dropped, closed>>
vars == <<memory, frame, inflight, disk, issued, budget, history>>

Tasks    == 1..MaxTasks
Statuses == {"pending", "processing", "failed"}
TaskRecord == [id : Tasks, proj : Projects, status : Statuses, retryCount : Nat]

\* The content of a queue file cut short by a crash, which is no set of tasks.
Torn == {[id |-> 0, proj |-> NoProject, status |-> "torn", retryCount |-> 0]}

Awaits == {"idle", "registry", "saveStart", "ingest", "saveThenNext", "saveDone",
           "sweep", "saveOp", "saveOnly", "pauseSave", "restoreLoad", "restoreLoaded", "restoreSave"}

\* proj is the projectId the call was made with; task the task a runner
\* holds, and attached whether its object is still the one in the queue;
\* drops the tasks the call has removed; loaded what restoreQueue has read.
IdleFrame == [pc |-> "idle", proj |-> NoProject, task |-> 0, attached |-> FALSE,
              aborted |-> FALSE, adds |-> {}, drops |-> {}, loaded |-> {}]

Call(pc, p) == [IdleFrame EXCEPT !.pc = pc, !.proj = p]

FrameState == [pc : Awaits, proj : Projects \cup {NoProject}, task : 0..MaxTasks,
               attached : BOOLEAN, aborted : BOOLEAN, adds : SUBSET Tasks, drops : SUBSET Tasks,
               loaded : SUBSET TaskRecord]
WriteState == [by : Frames, file : Projects, content : SUBSET TaskRecord]

TypeOK ==
  /\ queue \subseteq TaskRecord
  /\ processing \in BOOLEAN
  /\ currentProjectId \in Projects \cup {NoProject}
  /\ currentAbortController \in Frames \cup {NoFrame}
  /\ processedSinceDrain \in BOOLEAN
  /\ sweepAbortController \in Frames \cup {NoFrame}
  /\ frame \in [Frames -> FrameState]
  /\ inflight \in Seq(WriteState)
  /\ disk \in [Projects -> {Torn} \cup SUBSET TaskRecord]
  /\ issued \in 0..MaxTasks
  /\ budget \in [{"clicks", "cancels", "switches", "crashes", "failures"} -> Nat]
  /\ owner \in [Tasks -> Projects \cup {NoProject}]
  /\ {acked, dropped, closed} \subseteq SUBSET Tasks

Ids(q) == {t.id : t \in q}
Pending(q, p) == {t \in q : t.proj = p /\ t.status = "pending"}
First(q) == CHOOSE t \in q : \A u \in q : t.id <= u.id

Init ==
  /\ queue = {} /\ processing = FALSE
  /\ currentProjectId = NoProject
  /\ currentAbortController = NoFrame
  /\ processedSinceDrain = FALSE
  /\ sweepAbortController = NoFrame
  /\ frame = [f \in Frames |-> IdleFrame]
  /\ inflight = <<>>
  /\ disk = [p \in Projects |-> {}]
  /\ issued = 0
  /\ budget = [clicks |-> MaxClicks, cancels |-> MaxCancels,
                switches |-> MaxSwitches, crashes |-> MaxCrashes, failures |-> MaxFailures]
  /\ owner = [t \in Tasks |-> NoProject]
  /\ acked = {} /\ dropped = {} /\ closed = {}

-----------------------------------------------------------------------------
(***************************************************************************)
(* Pieces of the actions.                                                  *)
(***************************************************************************)
Spend(what) == budget[what] > 0 /\ budget' = [budget EXCEPT ![what] = @ - 1]

\* A new call takes any idle frame; which one makes no difference (the
\* frames are symmetric).
FreeFrame(f) == frame[f] = IdleFrame

\* Bugs that the properties must catch are kept next to the definition they
\* are variants of; no specification uses them.  Here: a save that forgets the
\* failed tasks, and one that nobody awaits.
SavePendingOnly(f, p, q) ==
  inflight' = Append(inflight, [by |-> f, file |-> p,
                                content |-> {t \in q : t.status # "failed"}])

SavedAtOnce(f) == TRUE

\* saveQueue(p) serialises the queue at once and awaits the write.
Save(f, p, q) == inflight' = Append(inflight, [by |-> f, file |-> p, content |-> q])

Saved(f) == \A i \in DOMAIN inflight : inflight[i].by # f

Resume(f, pc) == frame[f].pc = pc /\ Saved(f)

\* The task a runner holds.  Assigning to it reaches the queue only while the
\* queue still holds that very object.
Held(f) == {t \in queue : frame[f].attached /\ t.id = frame[f].task}

FailAsDone(t) == [t EXCEPT !.status = "done"]
TriedWithoutReset(t) == [t EXCEPT !.retryCount = @ + 1]

Fail(t)  == [t EXCEPT !.status = "failed"]
Start(t) == [t EXCEPT !.status = "processing"]
Tried(t) == [t EXCEPT !.retryCount = @ + 1,
                      !.status = IF t.retryCount + 1 >= MAX_RETRIES THEN "failed" ELSE "pending"]
ToPending(q) == {IF t.status = "processing" THEN [t EXCEPT !.status = "pending"] ELSE t : t \in q}

Abort(fr, controller) ==
  IF controller = NoFrame THEN fr ELSE [fr EXCEPT ![controller].aborted = TRUE]

\* processNext(p) as far as its first await, run by the call f: it returns,
\* goes to look the project up, or, with nothing pending, starts the sweep.
ProcessNext(f, p, q, busy) ==
  \/ /\ busy \/ currentProjectId # p
     /\ frame' = [frame EXCEPT ![f] = IdleFrame]
     /\ UNCHANGED <<processedSinceDrain, sweepAbortController>>
  \/ /\ ~busy /\ currentProjectId = p /\ Pending(q, p) # {}
     /\ frame' = [frame EXCEPT ![f] = [Call("registry", p) EXCEPT
                                         !.task = First(Pending(q, p)).id, !.attached = TRUE]]
     /\ UNCHANGED <<processedSinceDrain, sweepAbortController>>
  \/ /\ ~busy /\ currentProjectId = p /\ Pending(q, p) = {}
     /\ IF processedSinceDrain
        THEN /\ processedSinceDrain' = FALSE
             /\ sweepAbortController' = f
             /\ frame' = [frame EXCEPT ![f] = Call("sweep", p)]
        ELSE /\ frame' = [frame EXCEPT ![f] = IdleFrame]
             /\ UNCHANGED <<processedSinceDrain, sweepAbortController>>

Return(f) ==
  /\ frame' = [frame EXCEPT ![f] = IdleFrame]
  /\ UNCHANGED <<processedSinceDrain, sweepAbortController>>

-----------------------------------------------------------------------------
(***************************************************************************)
(* The user's calls.                                                       *)
(***************************************************************************)
Switching == \E f \in Frames : frame[f].pc \in {"pauseSave", "restoreLoad", "restoreLoaded", "restoreSave"}

QuickStepsPending == \E f \in Frames : frame[f].pc \notin {"idle", "ingest", "sweep"}

Paced == Timing = "paced" => ~QuickStepsPending

MayCall == currentProjectId # NoProject /\ Paced /\ (Timing # "anytime" => ~Switching)

NewTask(t) == [id |-> t, proj |-> currentProjectId, status |-> "pending", retryCount |-> 0]

\* enqueueIngest (n = 1) and enqueueBatch, up to the save.
Enqueue(f, n) ==
  /\ MayCall /\ FreeFrame(f)
  /\ issued + n <= MaxTasks
  /\ LET new == (issued + 1)..(issued + n)
     IN /\ queue' = queue \cup {NewTask(t) : t \in new}
        /\ frame' = [frame EXCEPT ![f] = [Call("saveOp", NoProject) EXCEPT !.adds = new]]
        /\ owner' = [t \in Tasks |-> IF t \in new THEN currentProjectId ELSE owner[t]]
  /\ issued' = issued + n
  /\ Save(f, currentProjectId, queue')
  /\ UNCHANGED <<processing, currentProjectId, currentAbortController, processedSinceDrain,
                 sweepAbortController, disk, budget, acked, dropped, closed>>

retryTask(f, t) ==
  /\ MayCall /\ FreeFrame(f) /\ Spend("clicks")
  /\ t \in queue /\ t.proj = currentProjectId
  /\ queue' = (queue \ {t}) \cup {[t EXCEPT !.status = "pending"]}
  /\ frame' = [frame EXCEPT ![f] = Call("saveOp", NoProject)]
  /\ Save(f, currentProjectId, queue')
  /\ UNCHANGED <<processing, currentProjectId, currentAbortController, processedSinceDrain,
                 sweepAbortController, disk, issued, history>>

cancelTask(f, t) ==
  /\ MayCall /\ FreeFrame(f) /\ Spend("cancels")
  /\ t \in queue /\ t.proj = currentProjectId
  /\ LET call == [Call("saveOp", NoProject) EXCEPT !.drops = {t.id}]
     IN IF t.status = "processing"
        THEN /\ frame' = [Abort(frame, currentAbortController) EXCEPT ![f] = call]
             /\ currentAbortController' = NoFrame
             /\ processing' = FALSE
        ELSE /\ frame' = [frame EXCEPT ![f] = call]
             /\ UNCHANGED <<currentAbortController, processing>>
  /\ queue' = queue \ {t}
  /\ dropped' = dropped \cup {t.id}
  /\ Save(f, currentProjectId, queue')
  /\ UNCHANGED <<currentProjectId, processedSinceDrain, sweepAbortController, disk, issued,
                 owner, acked, closed>>

\* clearCompletedTasks and cancelAllTasks do not go on to processNext.
clearCompletedTasks(f) ==
  /\ MayCall /\ FreeFrame(f) /\ Spend("clicks")
  /\ queue' = {t \in queue : t.status # "failed"}
  /\ dropped' = dropped \cup (Ids(queue) \ Ids(queue'))
  /\ frame' = [frame EXCEPT ![f] = [Call("saveOnly", NoProject) EXCEPT
                                      !.drops = Ids(queue) \ Ids(queue')]]
  /\ Save(f, currentProjectId, queue')
  /\ UNCHANGED <<processing, currentProjectId, currentAbortController, processedSinceDrain,
                 sweepAbortController, disk, issued, owner, acked, closed>>

cancelAllTasks(f) ==
  /\ MayCall /\ FreeFrame(f) /\ Spend("cancels")
  /\ currentAbortController' = NoFrame
  /\ processing' = FALSE
  /\ queue' = {t \in queue : t.status = "failed"}
  /\ dropped' = dropped \cup (Ids(queue) \ Ids(queue'))
  /\ frame' = [Abort(frame, currentAbortController) EXCEPT ![f] =
                 [Call("saveOnly", NoProject) EXCEPT !.drops = Ids(queue) \ Ids(queue')]]
  /\ Save(f, currentProjectId, queue')
  /\ UNCHANGED <<currentProjectId, processedSinceDrain, sweepAbortController, disk, issued,
                 owner, acked, closed>>

\* The rest of the user's calls, once their save has resolved.
AfterOp(f) ==
  /\ \/ Resume(f, "saveOp") /\ ProcessNext(f, currentProjectId, queue, processing)
     \/ Resume(f, "saveOnly") /\ Return(f)
  /\ acked' = acked \cup frame[f].adds
  /\ closed' = closed \cup frame[f].drops
  /\ UNCHANGED <<queue, processing, currentProjectId, currentAbortController,
                 inflight, disk, issued, budget, owner, dropped>>

-----------------------------------------------------------------------------
(***************************************************************************)
(* The project switch: resetProjectState awaits pauseQueue, and opening a  *)
(* project calls restoreQueue.                                             *)
(***************************************************************************)
Detached == [g \in Frames |-> [frame[g] EXCEPT !.attached = FALSE]]

PauseStart(f) ==
  /\ MayCall
  /\ \A g \in Frames : frame[g].pc # "pauseSave"
  /\ FreeFrame(f) /\ Spend("switches")
  /\ frame' = [Abort(Abort(frame, currentAbortController), sweepAbortController)
                 EXCEPT ![f] = Call("pauseSave", currentProjectId)]
  /\ currentAbortController' = NoFrame
  /\ sweepAbortController' = NoFrame
  /\ processing' = FALSE
  /\ queue' = ToPending(queue)
  /\ Save(f, currentProjectId, queue')
  /\ UNCHANGED <<currentProjectId, processedSinceDrain, disk, issued, history>>

PauseEnd(f) ==
  /\ Resume(f, "pauseSave")
  /\ queue' = {}
  /\ currentProjectId' = NoProject
  /\ processedSinceDrain' = FALSE
  /\ frame' = [Detached EXCEPT ![f] = IdleFrame]
  /\ UNCHANGED <<processing, currentAbortController, sweepAbortController,
                 inflight, disk, issued, budget, history>>

RestoreStart(f, p) ==
  /\ currentProjectId = NoProject
  /\ EarlyReturns \/ \A g \in Frames : frame[g].proj # p
  /\ FreeFrame(f)
  /\ queue' = {}
  /\ processing' = FALSE
  /\ currentAbortController' = NoFrame
  /\ currentProjectId' = p
  /\ frame' = [Detached EXCEPT ![f] = Call("restoreLoad", p)]
  /\ UNCHANGED <<processedSinceDrain, sweepAbortController, inflight, disk, issued,
                 budget, history>>

\* loadQueue yields nothing when the file does not parse: when it was torn by
\* a crash, or is being rewritten as it is read.
RestoreRead(f) ==
  /\ frame[f].pc = "restoreLoad"
  /\ LET p == frame[f].proj
         BeingWritten == \E i \in DOMAIN inflight : inflight[i].file = p
     IN \/ /\ disk[p] # Torn
           /\ frame' = [frame EXCEPT ![f].pc = "restoreLoaded", ![f].loaded = disk[p]]
        \/ /\ disk[p] = Torn \/ BeingWritten
           /\ frame' = [frame EXCEPT ![f].pc = "restoreLoaded"]
  /\ UNCHANGED <<memory, inflight, disk, issued, budget, history>>

RestoreLoaded(f) ==
  /\ frame[f].pc = "restoreLoaded"
  /\ IF frame[f].loaded = {}
     THEN /\ frame' = [frame EXCEPT ![f] = IdleFrame]
          /\ UNCHANGED <<queue, inflight>>
     ELSE /\ queue' = ToPending({t \in frame[f].loaded : t.proj = frame[f].proj})
          /\ frame' = [Detached EXCEPT ![f].pc = "restoreSave"]
          /\ Save(f, frame[f].proj, queue')
  /\ UNCHANGED <<processing, currentProjectId, currentAbortController, processedSinceDrain,
                 sweepAbortController, disk, issued, budget, history>>

RestoreSaved(f) ==
  /\ Resume(f, "restoreSave")
  /\ LET restored == {t \in frame[f].loaded : t.proj = frame[f].proj /\ t.status = "processing"}
         pending  == {t \in queue : t.status = "pending"}
     IN IF pending \cup restored # {}
        THEN ProcessNext(f, frame[f].proj, queue, processing)
        ELSE Return(f)
  /\ UNCHANGED <<queue, processing, currentProjectId, currentAbortController,
                 inflight, disk, issued, budget, history>>

-----------------------------------------------------------------------------
(***************************************************************************)
(* The runner: processNext from one await to the next.                     *)
(***************************************************************************)
NeverOrphaned(f) == FALSE

Orphaned(f) == currentProjectId # frame[f].proj

Bail(f, pc) ==
  /\ Resume(f, pc) /\ Orphaned(f)
  /\ frame' = [frame EXCEPT ![f] = IdleFrame]

\* The guards at lines 459, 472, 501 and 521.
RunnerBails(f) ==
  /\ \E pc \in {"registry", "saveStart", "ingest"} : Bail(f, pc)
  /\ UNCHANGED <<memory, inflight, disk, issued, budget, history>>

\* The project is not in the registry.
RunnerLost(f) ==
  /\ Resume(f, "registry") /\ ~Orphaned(f)
  /\ queue' = (queue \ Held(f)) \cup {Fail(t) : t \in Held(f)}
  /\ frame' = [frame EXCEPT ![f] = Call("saveThenNext", @.proj)]
  /\ Save(f, currentProjectId, queue')
  /\ UNCHANGED <<processing, currentProjectId, currentAbortController, processedSinceDrain,
                 sweepAbortController, disk, issued, budget, history>>

RunnerStartsUnmarked(f) ==
  /\ Resume(f, "registry") /\ ~Orphaned(f)
  /\ queue' = (queue \ Held(f)) \cup {Start(t) : t \in Held(f)}
  /\ frame' = [frame EXCEPT ![f].pc = "saveStart"]
  /\ Save(f, frame[f].proj, queue')
  /\ UNCHANGED <<processing, currentProjectId, currentAbortController, processedSinceDrain,
                 sweepAbortController, disk, issued, budget, history>>

RunnerStarts(f) ==
  /\ Resume(f, "registry") /\ ~Orphaned(f)
  /\ processing' = TRUE
  /\ queue' = (queue \ Held(f)) \cup {Start(t) : t \in Held(f)}
  /\ frame' = [frame EXCEPT ![f].pc = "saveStart"]
  /\ Save(f, frame[f].proj, queue')
  /\ UNCHANGED <<currentProjectId, currentAbortController, processedSinceDrain,
                 sweepAbortController, disk, issued, budget, history>>

\* No usable LLM is configured.
RunnerUnconfigured(f) ==
  /\ Resume(f, "saveStart") /\ ~Orphaned(f)
  /\ processing' = FALSE
  /\ queue' = (queue \ Held(f)) \cup {Fail(t) : t \in Held(f)}
  /\ frame' = [frame EXCEPT ![f] = Call("saveThenNext", @.proj)]
  /\ Save(f, frame[f].proj, queue')
  /\ UNCHANGED <<currentProjectId, currentAbortController, processedSinceDrain,
                 sweepAbortController, disk, issued, budget, history>>

RunnerIngests(f) ==
  /\ Resume(f, "saveStart") /\ ~Orphaned(f)
  /\ currentAbortController' = f
  /\ frame' = [frame EXCEPT ![f].pc = "ingest"]
  /\ UNCHANGED <<queue, processing, currentProjectId, processedSinceDrain, sweepAbortController,
                 inflight, disk, issued, budget, history>>

\* autoIngest has returned the files it wrote, aborted or not.
RunnerSucceeds(f) ==
  /\ frame[f].pc = "ingest" /\ Paced /\ ~Orphaned(f)
  /\ currentAbortController' = NoFrame
  /\ queue' = {t \in queue : t.id # frame[f].task}
  /\ dropped' = dropped \cup {frame[f].task}
  /\ processedSinceDrain' = TRUE
  /\ frame' = [frame EXCEPT ![f] = [Call("saveDone", @.proj) EXCEPT !.drops = {frame[f].task}]]
  /\ Save(f, frame[f].proj, queue')
  /\ UNCHANGED <<processing, currentProjectId, sweepAbortController, disk, issued, budget,
                 owner, acked, closed>>

\* autoIngest has thrown, or returned no file.
RunnerFails(f) ==
  /\ frame[f].pc = "ingest" /\ Paced /\ ~Orphaned(f)
  /\ currentAbortController' = NoFrame
  /\ queue' = (queue \ Held(f)) \cup {Tried(t) : t \in Held(f)}
  /\ frame' = [frame EXCEPT ![f] = Call("saveDone", @.proj)]
  /\ Save(f, frame[f].proj, queue')
  /\ UNCHANGED <<processing, currentProjectId, processedSinceDrain, sweepAbortController,
                 disk, issued, budget, history>>

RunnerGoesOnBusy(f) ==
  /\ Resume(f, "saveThenNext") \/ Resume(f, "saveDone")
  /\ ProcessNext(f, frame[f].proj, queue, processing)
  /\ closed' = closed \cup frame[f].drops
  /\ UNCHANGED <<queue, processing, currentProjectId, currentAbortController, inflight, disk,
                 issued, budget, owner, acked, dropped>>

\* Lines 538-539, which no guard protects: a runner whose project has been
\* left in the meantime clears the flag of the next project's runner.
RunnerGoesOn(f) ==
  /\ \/ Resume(f, "saveThenNext") /\ UNCHANGED processing
     \/ Resume(f, "saveDone") /\ processing' = FALSE
  /\ ProcessNext(f, frame[f].proj, queue, processing')
  /\ closed' = closed \cup frame[f].drops
  /\ UNCHANGED <<queue, currentProjectId, currentAbortController, inflight, disk, issued,
                 budget, owner, acked, dropped>>

\* sweepResolvedReviews has returned.
SweepEnds(f) ==
  /\ frame[f].pc = "sweep"
  /\ sweepAbortController' = IF sweepAbortController = f THEN NoFrame ELSE sweepAbortController
  /\ frame' = [frame EXCEPT ![f] = IdleFrame]
  /\ UNCHANGED <<queue, processing, currentProjectId, currentAbortController, processedSinceDrain,
                 inflight, disk, issued, budget, history>>

-----------------------------------------------------------------------------
(***************************************************************************)
(* The file system and the process.                                        *)
(***************************************************************************)
WriteEnds(i) ==
  /\ i \in DOMAIN inflight
  /\ inflight' = SubSeq(inflight, 1, i - 1) \o SubSeq(inflight, i + 1, Len(inflight))
  /\ UNCHANGED <<memory, frame, issued, history>>

Land(i) ==
  /\ WriteEnds(i)
  /\ OrderedWrites => \A j \in 1..(i - 1) : inflight[j].file # inflight[i].file
  /\ disk' = [disk EXCEPT ![inflight[i].file] = inflight[i].content]
  /\ UNCHANGED budget

\* saveQueue swallows the error: its caller goes on as if the file were written.
WriteFails(i) == Spend("failures") /\ WriteEnds(i) /\ UNCHANGED disk

Crash ==
  /\ Spend("crashes")
  /\ \/ UNCHANGED disk
     \/ ~AtomicWrites /\ \E i \in DOMAIN inflight : disk' = [disk EXCEPT ![inflight[i].file] = Torn]
  /\ queue' = {} /\ processing' = FALSE
  /\ currentProjectId' = NoProject
  /\ currentAbortController' = NoFrame
  /\ processedSinceDrain' = FALSE
  /\ sweepAbortController' = NoFrame
  /\ frame' = [f \in Frames |-> IdleFrame]
  /\ inflight' = <<>>
  /\ UNCHANGED <<issued, history>>

UserStep(f) ==
  \/ \E n \in 1..MaxTasks : Enqueue(f, n)
  \/ \E t \in queue : retryTask(f, t) \/ cancelTask(f, t)
  \/ clearCompletedTasks(f) \/ cancelAllTasks(f)

SessionStep(f) ==
  \/ PauseStart(f) \/ PauseEnd(f)
  \/ \E p \in Projects : RestoreStart(f, p)
  \/ RestoreRead(f) \/ RestoreLoaded(f) \/ RestoreSaved(f)

RunnerStep(f) ==
  \/ RunnerBails(f) \/ RunnerLost(f) \/ RunnerStarts(f) \/ RunnerUnconfigured(f)
  \/ RunnerIngests(f) \/ RunnerSucceeds(f) \/ RunnerFails(f) \/ RunnerGoesOn(f)

Next ==
  \/ \E f \in Frames : UserStep(f) \/ AfterOp(f) \/ SessionStep(f) \/ RunnerStep(f) \/ SweepEnds(f)
  \/ \E i \in 1..Cardinality(Frames) : Land(i) \/ WriteFails(i)
  \/ Crash

Spec == Init /\ [][Next]_vars

(***************************************************************************)
(* Writes land, continuations run, autoIngest and the sweep return; the    *)
(* application opens the last project again when it starts.  Nothing makes *)
(* the user click, leave a project, or the process crash.                  *)
(***************************************************************************)
Fairness ==
  /\ \A f \in Frames :
       /\ WF_vars(AfterOp(f))
       /\ WF_vars(PauseEnd(f) \/ RestoreRead(f) \/ RestoreLoaded(f) \/ RestoreSaved(f))
       /\ WF_vars(RunnerStep(f))
       /\ WF_vars(SweepEnds(f))
  /\ \A i \in 1..Cardinality(Frames) : WF_vars(Land(i) \/ WriteFails(i))
  /\ WF_vars(\E f \in Frames, p \in Projects : RestoreStart(f, p))

FairSpec == Spec /\ Fairness

-----------------------------------------------------------------------------
\* A task whose enqueue call has returned is in its project's queue file until
\* it is ingested, cancelled or cleared: a crash loses none of them.
AckedTasksAreDurable ==
  \A t \in acked \ dropped :
    LET file == disk[owner[t]] IN file # Torn /\ t \in Ids(file)

\* A task whose removal has been saved is never queued again, be it through a
\* late write of an older snapshot, a restart, or a runner that still holds it.
RemovedTasksStayRemoved ==
  \A t \in closed :
    /\ t \notin Ids(queue)
    /\ disk[owner[t]] # Torn => t \notin Ids(disk[owner[t]])

\* The queue never falls asleep over work: when no call is in flight, every
\* task of the open project has been ingested, removed or has failed.
NoStrandedTask ==
  (currentProjectId # NoProject /\ \A f \in Frames : frame[f] = IdleFrame)
    => \A t \in queue : t.status = "failed"

\* One ingest at a time, an ingest that was told to stop not counting.
Ingesting(f) == frame[f].pc = "ingest" /\ ~frame[f].aborted

Serial == \A f, g \in Frames : (Ingesting(f) /\ Ingesting(g)) => f = g

\* A runner hands autoIngest only tasks that are still in the queue: a task
\* cancelled while the runner was looking its project up is not ingested.
IngestsOnlyQueuedTasks ==
  [][\A f \in Frames : (frame[f].pc = "saveStart" /\ frame'[f].pc = "ingest")
        => frame[f].task \in Ids(queue)]_vars

\* Memory and file of a project hold that project's tasks only.
NoForeignTask ==
  /\ \A t \in queue : t.proj = currentProjectId
  /\ \A p \in Projects : disk[p] # Torn => \A t \in disk[p] : t.proj = p

\* Each project keeps its accepted tasks until they are ingested or removed, and
\* no others; what was removed never comes back, be it from the file or from a
\* runner that still holds it (ingest-queue.ts).  A write that fails is lost in
\* silence: what it would have saved is then only in memory.
TasksAreKept ==
  /\ TypeOK /\ NoForeignTask
  /\ budget.failures = MaxFailures => AckedTasksAreDurable /\ RemovedTasksStayRemoved

\* The runner f takes a step of its own after its project was left for
\* another one.
OrphanSteps(f) ==
  /\ frame[f].pc \in {"registry", "saveStart", "ingest", "saveThenNext", "saveDone"}
  /\ frame[f].proj # currentProjectId
  /\ currentProjectId # NoProject /\ currentProjectId' = currentProjectId
  /\ frame'[f].pc # frame[f].pc

\* A runner left behind by a switch changes neither the next project's tasks
\* nor any queue file.
OrphanLeavesTasksAlone ==
  [][\A f \in Frames : OrphanSteps(f) => UNCHANGED <<queue, inflight, disk>>]_vars

\* ... and leaves the next project's runner alone.
OrphanLeavesRunnerAlone ==
  [][\A f \in Frames : OrphanSteps(f) => UNCHANGED <<processing, currentAbortController>>]_vars

\* Leaving a project aborts its review sweep.
SwitchAbortsSweep ==
  \A f \in Frames : (frame[f].pc = "sweep" /\ frame[f].proj # currentProjectId) => frame[f].aborted

\* Every task that was accepted is eventually ingested, removed or failed.
EveryTaskSettles ==
  \A t \in Tasks :
    (t \in acked) ~> (t \in dropped \/ \E u \in queue : u.id = t /\ u.status = "failed")

-----------------------------------------------------------------------------
(***************************************************************************)
(* Bounds for model checking.  Two projects, two tasks, three calls at     *)
(* once; and a cancel and a switch, or a crash.  With one task, any two of *)
(* a cancel, a switch and a crash, or a click on a task that failed, or a  *)
(* write that fails.                                                       *)
(***************************************************************************)
Symmetry == Permutations(Frames) \cup Permutations(Projects)

\* The bound on what disturbs one behaviour.
Spent(what, most) == most - budget[what]
CancelOrSwitch == Spent("cancels", MaxCancels) + Spent("switches", MaxSwitches)
Crashed        == Spent("crashes", MaxCrashes)
ClickOrFailure == Spent("clicks", MaxClicks) + Spent("failures", MaxFailures)
FewDisturbances ==
  \/ Crashed + ClickOrFailure = 0
  \/ CancelOrSwitch + ClickOrFailure = 0
  \/ Crashed + CancelOrSwitch <= 2 /\ ClickOrFailure = 0 /\ issued = 1
  \/ Crashed + CancelOrSwitch = 0 /\ ClickOrFailure = 1 /\ issued = 1
=============================================================================

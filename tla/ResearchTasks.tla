--------------------------- MODULE ResearchTasks ---------------------------
(***************************************************************************)
(* Deep research (src/lib/deep-research.ts over stores/research-store.ts): *)
(* tasks wait for one of maxConcurrent slots, search the web, have a model *)
(* write a page and save it.  Tasks live in the store of the open project; *)
(* what runs for a task keeps running when the store is emptied, and slots *)
(* are counted in the store.                                               *)
(***************************************************************************)
EXTENDS Naturals, FiniteSets

CONSTANTS Projects,
  maxConcurrent,
  MaxTasks, MaxSwitches, MaxMishaps   \* bounds: tasks, switches, failures

VARIABLES
  project,    \* the open project
  tasks,      \* the store: id -> status, a partial function
  run,        \* executions in flight: id -> [pc, path], a partial function
  wakes,      \* timers that will call processQueue: [by, why, path]
  saved,      \* pages written: <<id, path>>
  home,       \* history: id -> the project the task was queued in
  switches, mishaps,
  unsettled,  \* history: the user switched the project, or removed a failed
              \* task, while something was running or about to
  strays      \* history: tasks begun by the wake of a task of another project

store == <<tasks, project, switches>>
vars == <<store, run, wakes, saved, home, mishaps, unsettled, strays>>

Ids == 1..MaxTasks
RunningStatus == {"searching", "synthesizing", "saving"}
Status == {"queued", "done", "error"} \cup RunningStatus
Partial(S, T) == UNION {[D -> T] : D \in SUBSET S}

TypeOK ==
  /\ project \in Projects
  /\ tasks \in Partial(Ids, Status)
  /\ \A id \in DOMAIN run : run[id].pc \in RunningStatus /\ run[id].path \in Projects
  /\ \A w \in wakes : w.by \in Ids /\ w.why \in {"queued", "finished"} /\ w.path \in Projects
  /\ saved \subseteq Ids \X Projects
  /\ home \in Partial(Ids, Projects)
  /\ switches \in 0..MaxSwitches /\ mishaps \in 0..MaxMishaps

Init ==
  /\ project \in Projects
  /\ tasks = [i \in {} |-> i] /\ run = tasks /\ home = tasks
  /\ wakes = {} /\ saved = {}
  /\ switches = 0 /\ mishaps = MaxMishaps /\ unsettled = FALSE /\ strays = {}

-----------------------------------------------------------------------------
Put(f, x, v) == [y \in DOMAIN f \cup {x} |-> IF y = x THEN v ELSE f[y]]
Drop(f, S) == [y \in DOMAIN f \ S |-> f[y]]
Quiet == DOMAIN run = {} /\ wakes = {}
Unsettles == unsettled' = (unsettled \/ ~Quiet)

\* updateTask does nothing for a task that is no longer in the store.
updateTask(ts, id, status) == IF id \in DOMAIN ts THEN [ts EXCEPT ![id] = status] ELSE ts

\* Plausible bugs that the properties must catch stand next to the definition
\* they are variants of; no specification uses them.
SearchingCount(ts) == Cardinality({i \in DOMAIN ts : ts[i] = "searching"})

getRunningCount(ts) == Cardinality({i \in DOMAIN ts : ts[i] \in RunningStatus})
Queued(ts) == {i \in DOMAIN ts : ts[i] = "queued"}

\* The first queued tasks, as many as there are slots.
FirstQueued(ts) ==
  {i \in Queued(ts) : Cardinality({j \in Queued(ts) : j < i}) + getRunningCount(ts) < maxConcurrent}

queueResearch ==
  /\ Cardinality(DOMAIN home) < MaxTasks
  /\ LET id == Cardinality(DOMAIN home) + 1 IN
       /\ tasks' = Put(tasks, id, "queued")
       /\ home' = Put(home, id, project)
       /\ wakes' = wakes \cup {[by |-> id, why |-> "queued", path |-> project]}
  /\ UNCHANGED <<project, switches, run, saved, mishaps, unsettled, strays>>

\* A timer fires: every task that gets a slot is searching before the call ends.
processQueue(w) ==
  /\ w \in wakes /\ wakes' = wakes \ {w}
  /\ LET started == FirstQueued(tasks) IN
       /\ tasks' = [i \in DOMAIN tasks |-> IF i \in started THEN "searching" ELSE tasks[i]]
       /\ run' = [i \in DOMAIN run \cup started |->
                    IF i \in started THEN [pc |-> "searching", path |-> w.path] ELSE run[i]]
       /\ strays' = strays \cup {i \in started : home[i] # w.path}
  /\ UNCHANGED <<project, switches, saved, home, mishaps, unsettled>>

GoesOn(id, status) ==
  /\ tasks' = updateTask(tasks, id, status)
  /\ run' = [run EXCEPT ![id].pc = status]
  /\ UNCHANGED wakes

FinishedForever(id, status) ==
  /\ tasks' = updateTask(tasks, id, status)
  /\ run' = [run EXCEPT ![id].pc = status]
  /\ wakes' = wakes \cup {[by |-> id, why |-> "finished", path |-> run[id].path]}

EndsQuietly(id, status) ==
  /\ tasks' = updateTask(tasks, id, status)
  /\ run' = Drop(run, {id})
  /\ UNCHANGED wakes

\* An execution that ends wakes the next, under its own path, in whatever
\* project is then open.
onTaskFinished(id, status) ==
  /\ tasks' = updateTask(tasks, id, status)
  /\ run' = Drop(run, {id})
  /\ wakes' = wakes \cup {[by |-> id, why |-> "finished", path |-> run[id].path]}

\* Queries that fail are skipped; without any result the task is done.
Search(id) ==
  /\ run[id].pc = "searching"
  /\ GoesOn(id, "synthesizing") \/ onTaskFinished(id, "done")
  /\ UNCHANGED <<project, switches, saved, home, mishaps, unsettled, strays>>

\* An error is noted in the task and looked up there: for a task that was
\* removed the answer, as far as it came, is saved.
Synthesize(id) ==
  /\ run[id].pc = "synthesizing"
  /\ \/ GoesOn(id, "saving") /\ UNCHANGED mishaps
     \/ /\ mishaps > 0 /\ mishaps' = mishaps - 1
        /\ IF id \in DOMAIN tasks THEN onTaskFinished(id, "error") ELSE GoesOn(id, "saving")
  /\ UNCHANGED <<project, switches, saved, home, unsettled, strays>>

SaveHere(id) ==
  /\ run[id].pc = "saving"
  /\ \/ /\ saved' = saved \cup {<<id, project>>}
        /\ onTaskFinished(id, "done") /\ UNCHANGED mishaps
     \/ /\ mishaps > 0 /\ mishaps' = mishaps - 1
        /\ onTaskFinished(id, "error") /\ UNCHANGED saved
  /\ UNCHANGED <<project, switches, home, unsettled, strays>>

Save(id) ==
  /\ run[id].pc = "saving"
  /\ \/ /\ saved' = saved \cup {<<id, run[id].path>>}
        /\ onTaskFinished(id, "done") /\ UNCHANGED mishaps
     \/ /\ mishaps > 0 /\ mishaps' = mishaps - 1
        /\ onTaskFinished(id, "error") /\ UNCHANGED saved
  /\ UNCHANGED <<project, switches, home, unsettled, strays>>

\* Offered for tasks that are done or in error.
removeTask(id) ==
  /\ tasks[id] \in {"done", "error"} /\ Unsettles
  /\ tasks' = Drop(tasks, {id})
  /\ UNCHANGED <<project, switches, run, wakes, saved, home, mishaps, strays>>

\* resetProjectState empties the store.
SwitchProject(p) ==
  /\ p # project /\ switches < MaxSwitches /\ Unsettles
  /\ switches' = switches + 1 /\ project' = p
  /\ tasks' = [i \in {} |-> i]
  /\ UNCHANGED <<run, wakes, saved, home, mishaps, strays>>

Step == (\E w \in wakes : processQueue(w)) \/ \E id \in DOMAIN run : Search(id) \/ Synthesize(id) \/ Save(id)
Next ==
  \/ queueResearch \/ Step
  \/ \E id \in DOMAIN tasks : removeTask(id)
  \/ \E p \in Projects : SwitchProject(p)
Spec == Init /\ [][Next]_vars /\ WF_vars(Step)

-----------------------------------------------------------------------------
\* No more tasks run than there are slots, unless the store was emptied under
\* them: slots are counted there.
SlotsAreBounded == ~unsettled => Cardinality(DOMAIN run) <= maxConcurrent

\* A queued task is never forgotten: something is running, or about to look.
NoStrandedResearch == Queued(tasks) # {} => run # [i \in {} |-> i] \/ wakes # {}

\* Every queued task gets its turn, however the tasks before it end: there are
\* finitely many, and again and again none is waiting.
QueuedGetTheirTurn == []<>(Queued(tasks) = {})

\* A page is saved in the project its task was queued in, whatever is open by
\* then.  Not so for strays: a task that ends after a switch starts the tasks of
\* the other project under its own path.
PagesGoHome == \A s \in saved : s[2] = home[s[1]] \/ s[1] \in strays
=============================================================================

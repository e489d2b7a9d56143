--------------------------- MODULE PatrolSchedule ---------------------------
(***************************************************************************)
(* When Memory Ops patrols by itself: the maintenance state each project   *)
(* keeps (memory-ops.ts), the events that bring a patrol closer, the       *)
(* daemon that looks every few minutes (local-maintenance-daemon.ts), its  *)
(* start and stop with the open project (project-local-maintenance.ts),    *)
(* and the reminder in the window (local-maintenance-store.ts).            *)
(*                                                                         *)
(* One project, opened and closed; the maintenance state is read from the  *)
(* store and written back by several callers that know nothing of each     *)
(* other.                                                                  *)
(***************************************************************************)
EXTENDS Integers, FiniteSets, Sequences

CONSTANTS
  None,
  Recorders,       \* calls of recordMemoryOpsMaintenanceEvent under way
  EventThreshold, ReminderCooldown, MinPatrolInterval, TimeInterval, \* the policy; 0: no interval
  AutoPatrol,      \* policy.automation.autoPatrolEnabled
  MaxTime,         \* bound: the clock
  MaxEvents,       \* bound: events recorded
  MaxFailures,     \* bound: patrols that fail
  MaxOpenings      \* bound: openings of the project

VARIABLES
  now,
  stored,    \* the maintenance state in the store
  recorder,  \* the state each recorder has read, or None
  inFlight,  \* autoPatrolInFlight has the project
  patrols,   \* patrols under way, each "auto" or "manual"
  open,      \* the project is open
  loading,   \* lifecycles waiting for the policy: TRUE for one stopped since
  daemon,    \* daemonHandles has the project: its timer runs
  checks,    \* what each check of a daemon under way has read
  reminder, dismissed, \* useLocalMaintenanceStore
  recorded, failures, openings

vars == <<now, stored, recorder, inFlight, patrols, open, loading, daemon, checks,
          reminder, dismissed, recorded, failures, openings>>
budgets == <<recorded, failures, openings>>
projectVars == <<open, loading, daemon>>
bannerVars == <<reminder, dismissed>>

normalizeMaintenanceState == [last |-> None, dirty |-> None, count |-> 0, reminded |-> None]

Init ==
  /\ now = 0 /\ stored = normalizeMaintenanceState
  /\ recorder = [r \in Recorders |-> None]
  /\ inFlight = FALSE /\ patrols = <<>>
  /\ open = FALSE /\ loading = <<>> /\ daemon = FALSE /\ checks = {}
  /\ reminder = None /\ dismissed = None
  /\ recorded = 0 /\ failures = 0 /\ openings = 0

Since(t, span) == t = None \/ now - t >= span
DueReasons(s) ==
  {r \in {"event-threshold", "time-interval"} :
     IF r = "event-threshold" THEN s.count >= EventThreshold
     ELSE TimeInterval > 0 /\ s.last # None /\ now - s.last >= TimeInterval}

\* summarizeMemoryOpsMaintenanceStatus
ReminderDue(s) == DueReasons(s) # {} /\ Since(s.reminded, ReminderCooldown) /\ Since(s.last, MinPatrolInterval)

\* reduceMemoryOpsMaintenanceEvent
Counted(s) == [s EXCEPT !.count = @ + 1, !.dirty = IF @ = None THEN now ELSE @]
Reduced(s) == [Counted(s) EXCEPT !.reminded = IF ReminderDue(Counted(s)) THEN now ELSE @]

\* completeMemoryOpsPatrolCooldown: it asks nothing of the state it replaces.
Completed == [normalizeMaintenanceState EXCEPT !.last = now]

-----------------------------------------------------------------------------
ScheduleTwice == patrols' = Append(patrols, "auto") /\ inFlight' = TRUE

\* scheduleAutoMemoryOpsPatrol
scheduleAuto ==
  IF inFlight THEN UNCHANGED <<patrols, inFlight>>
  ELSE patrols' = Append(patrols, "auto") /\ inFlight' = TRUE

\* recordMemoryOpsMaintenanceEvent: reads the state and the policy ...
BeginRecord(r) ==
  /\ recorder[r] = None /\ recorded < MaxEvents
  /\ recorded' = recorded + 1
  /\ recorder' = [recorder EXCEPT ![r] = stored]
  /\ UNCHANGED <<now, stored, inFlight, patrols, projectVars, checks, bannerVars, failures, openings>>

\* ... and writes what follows from it, whatever is stored by now.
EndRecord(r) ==
  /\ recorder[r] # None
  /\ stored' = Reduced(recorder[r])
  /\ recorder' = [recorder EXCEPT ![r] = None]
  /\ IF AutoPatrol /\ ReminderDue(Counted(recorder[r])) THEN scheduleAuto ELSE UNCHANGED <<patrols, inFlight>>
  /\ UNCHANGED <<now, projectVars, checks, bannerVars, budgets>>

\* handlePatrol of the settings page
StartManual ==
  /\ "manual" \notin {patrols[i] : i \in DOMAIN patrols}
  /\ open
  /\ patrols' = Append(patrols, "manual")
  /\ UNCHANGED <<now, stored, recorder, inFlight, projectVars, checks, bannerVars, budgets>>

Without(s, i) == SubSeq(s, 1, i - 1) \o SubSeq(s, i + 1, Len(s))

\* The end of a patrol; runAutoMemoryOpsPatrol's finally.
Over(i, released) ==
  /\ patrols' = Without(patrols, i)
  /\ inFlight' = IF patrols[i] = "auto" /\ released THEN FALSE ELSE inFlight
  /\ UNCHANGED <<now, recorder, projectVars, checks, bannerVars, recorded, openings>>

\* runMemoryOpsPatrol: the scan is done and its audit event written.
PatrolDone(i) == stored' = Completed /\ Over(i, TRUE) /\ UNCHANGED failures

PatrolFailsHeld(i) ==
  failures < MaxFailures /\ failures' = failures + 1 /\ Over(i, FALSE) /\ UNCHANGED stored

\* The scan or the audit write fails: the state stays as it is.
PatrolFails(i) ==
  failures < MaxFailures /\ failures' = failures + 1 /\ Over(i, TRUE) /\ UNCHANGED stored

-----------------------------------------------------------------------------
\* App.tsx: the effect of an opened project, and its clean-up.
OpenProject ==
  /\ ~open /\ openings < MaxOpenings
  /\ openings' = openings + 1
  /\ open' = TRUE
  /\ loading' = Append(loading, FALSE)
  /\ UNCHANGED <<now, stored, recorder, inFlight, patrols, daemon, checks, bannerVars, recorded, failures>>

\* The lifecycle's stop: the handle when there is one, else a mark.
CloseProject ==
  /\ open
  /\ open' = FALSE
  /\ loading' = [i \in DOMAIN loading |-> TRUE]
  /\ daemon' = FALSE
  /\ UNCHANGED <<now, stored, recorder, inFlight, patrols, checks, bannerVars, budgets>>

PolicyReadUnchecked(i) ==
  /\ loading' = Without(loading, i)
  /\ daemon' = TRUE
  /\ UNCHANGED <<now, stored, recorder, inFlight, patrols, open, checks, bannerVars, budgets>>

\* startProjectLocalMaintenanceDaemon with the daemon enabled: a lifecycle
\* stopped meanwhile stops the daemon it has just started, whose first check is under way.
PolicyRead(i) ==
  /\ loading' = Without(loading, i)
  /\ daemon' = (daemon \/ ~loading[i])
  /\ checks' = IF daemon THEN checks ELSE checks \cup {stored}
  /\ UNCHANGED <<now, stored, recorder, inFlight, patrols, open, bannerVars, budgets>>

\* runLocalMaintenanceCheck, one check at a time; it goes on when stopped.
Check ==
  /\ daemon /\ checks = {}
  /\ checks' = {stored}
  /\ UNCHANGED <<now, stored, recorder, inFlight, patrols, projectVars, bannerVars, budgets>>

ReminderKey(r) == <<r.count, r.reasons, r.dirty, r.last>>

CheckDone(s) ==
  /\ checks' = checks \ {s}
  /\ IF ~ReminderDue(s) THEN UNCHANGED <<patrols, inFlight, bannerVars>>
     ELSE /\ reminder' = [count |-> s.count, reasons |-> DueReasons(s),
                          dirty |-> s.dirty, last |-> s.last]
          /\ dismissed' = IF dismissed = ReminderKey(reminder') THEN dismissed ELSE None
          /\ IF AutoPatrol THEN scheduleAuto ELSE UNCHANGED <<patrols, inFlight>>
  /\ UNCHANGED <<now, stored, recorder, projectVars, budgets>>

\* The banner's close button.
Dismiss ==
  /\ reminder # None /\ dismissed # ReminderKey(reminder)
  /\ dismissed' = ReminderKey(reminder)
  /\ UNCHANGED <<now, stored, recorder, inFlight, patrols, projectVars, checks, reminder, budgets>>

Tick ==
  /\ now < MaxTime
  /\ now' = now + 1
  /\ UNCHANGED <<stored, recorder, inFlight, patrols, projectVars, checks, bannerVars, budgets>>

Next ==
  \/ \E r \in Recorders : BeginRecord(r) \/ EndRecord(r)
  \/ StartManual
  \/ \E i \in DOMAIN patrols : PatrolDone(i) \/ PatrolFails(i)
  \/ \E s \in checks : CheckDone(s)
  \/ \E i \in DOMAIN loading : PolicyRead(i)
  \/ OpenProject \/ CloseProject \/ Check \/ Dismiss \/ Tick

\* Calls return, and the daemon's timer goes on firing.
Fairness ==
  /\ \A r \in Recorders : WF_vars(EndRecord(r))
  /\ WF_vars(\E i \in DOMAIN patrols : PatrolDone(i) \/ PatrolFails(i))
  /\ WF_vars(\E i \in DOMAIN loading : PolicyRead(i)) /\ WF_vars(Check) /\ WF_vars(\E s \in checks : CheckDone(s))

Spec == Init /\ [][Next]_vars /\ Fairness

-----------------------------------------------------------------------------
(***************************************************************************)
(* A project is patrolled by one automatic patrol at a time, whoever asks  *)
(* for it: an event, another event, or the daemon.                         *)
(***************************************************************************)
OneAutoPatrol == Cardinality({i \in DOMAIN patrols : patrols[i] = "auto"}) <= 1

(***************************************************************************)
(* Once no lifecycle waits for its policy, the daemon runs exactly when    *)
(* the project is open, however often it was closed and opened meanwhile.  *)
(***************************************************************************)
DaemonFollowsProject == loading = <<>> => (daemon <=> open)

(***************************************************************************)
(* A patrol that is due does not stay due for ever while the daemon runs:  *)
(* it is made, also after one failed.                                      *)
(***************************************************************************)
DuePatrolsAreMade == AutoPatrol => []<>~(open /\ daemon /\ ReminderDue(stored))
=============================================================================

----------------------------- MODULE ClipInbox -----------------------------
(***************************************************************************)
(* Web clips: the local server that stores a clip and keeps it for pick-up *)
(* (src-tauri/src/clip_server.rs), and the poll that fetches clips every   *)
(* three seconds and enqueues them for ingest (src/lib/clip-watcher.ts).   *)
(***************************************************************************)
EXTENDS Naturals, FiniteSets

CONSTANTS Projects,
  Polls,       \* polls at once (bound): one may last longer than the interval
  MaxClips, MaxSwitches, MaxRestarts, \* bounds; MaxRestarts: MAX_RESTART_RETRIES
  Usable       \* hasUsableLlm

VARIABLES
  open,      \* the project of the application
  current,   \* CURRENT_PROJECT of the server, as posted when a project is opened
  files,     \* clips stored under raw/sources: <<clip, project>>
  pending,   \* PENDING_CLIPS
  poll,      \* poll -> [pc, project, rest, now]
  enqueued,  \* clip -> how often it was enqueued, and for whom
  server,    \* DAEMON_STATUS
  restarts, clips, switches

vars == <<open, current, files, pending, poll, enqueued, server, restarts, clips, switches>>

Clips == 1..MaxClips
NoPoll == [pc |-> "idle", project |-> {}, rest |-> {}, now |-> {}]

TypeOK ==
  /\ open \in Projects /\ current \in SUBSET Projects /\ Cardinality(current) <= 1
  /\ files \subseteq Clips \X Projects /\ pending \subseteq files
  /\ \A i \in Polls :
       /\ poll[i].pc \in {"idle", "each", "list"} /\ poll[i].project \subseteq Projects
       /\ poll[i].rest \subseteq files /\ poll[i].now \subseteq files
  /\ \A e \in enqueued : e.clip \in Clips /\ e.project \in Projects /\ e.poll \in Polls /\ e.times \in Nat
  /\ server \in {"running", "error"}
  /\ restarts \in 0..MaxRestarts /\ clips \in 0..MaxClips /\ switches \in 0..MaxSwitches

Init ==
  /\ open \in Projects /\ current = {open}
  /\ files = {} /\ pending = {} /\ enqueued = {}
  /\ poll = [i \in Polls |-> NoPoll]
  /\ server = "running" /\ restarts = 0 /\ clips = 0 /\ switches = 0

-----------------------------------------------------------------------------
\* POST /clip, for a project the extension names or else the current one: the
\* clip is written to a file of its own and kept for pick-up.
handle_clip(named) ==
  /\ server = "running" /\ clips < MaxClips
  /\ \E p \in IF named = {} THEN current ELSE named :
       /\ files' = files \cup {<<clips + 1, p>>}
       /\ pending' = pending \cup {<<clips + 1, p>>}
  /\ clips' = clips + 1
  /\ UNCHANGED <<open, current, poll, enqueued, server, restarts, switches>>

\* The application opens another project and posts it to the server; a post to
\* a server that is down is lost.
SwitchProject(p) ==
  /\ p # open /\ switches < MaxSwitches
  /\ switches' = switches + 1 /\ open' = p
  /\ current' = IF server = "running" THEN {p} ELSE current
  /\ UNCHANGED <<files, pending, poll, enqueued, server, restarts, clips>>

\* The request loop ends; the thread starts it again after a while, a number of
\* times.  What the server keeps outlives it.
ServerStops ==
  /\ server = "running" /\ restarts < MaxRestarts
  /\ server' = "error" /\ restarts' = restarts + 1
  /\ UNCHANGED <<open, current, files, pending, poll, enqueued, clips, switches>>

ServerRestarts ==
  /\ server = "error" /\ restarts < MaxRestarts
  /\ server' = "running"
  /\ UNCHANGED <<open, current, files, pending, poll, enqueued, restarts, clips, switches>>

\* Plausible bugs that the properties must catch stand next to the definition
\* they are variants of; no specification uses them.
FetchWithoutClear(i) ==
  /\ server = "running" /\ poll[i].pc = "idle" /\ pending # {}
  /\ poll' = [poll EXCEPT ![i] = [pc |-> "each", project |-> {open}, rest |-> pending, now |-> {}]]
  /\ UNCHANGED <<open, current, files, pending, enqueued, server, restarts, clips, switches>>

\* GET /clips/pending empties the list; the project is looked up on arrival.
Fetch(i) ==
  /\ server = "running" /\ poll[i].pc = "idle" /\ pending # {}
  /\ poll' = [poll EXCEPT ![i] = [pc |-> "each", project |-> {open}, rest |-> pending, now |-> {}]]
  /\ pending' = {}
  /\ UNCHANGED <<open, current, files, enqueued, server, restarts, clips, switches>>

TakeTwo(i) ==
  /\ poll[i].pc = "each"
  /\ IF poll[i].rest = {} THEN poll' = [poll EXCEPT ![i] = NoPoll]
     ELSE \E c, d \in poll[i].rest :
            poll' = [poll EXCEPT ![i].rest = @ \ {c, d}, ![i].pc = "list", ![i].now = {c}]
  /\ UNCHANGED <<open, current, files, pending, enqueued, server, restarts, clips, switches>>

\* The next clip: one of another project is passed over, for good.
Take(i) ==
  /\ poll[i].pc = "each"
  /\ IF poll[i].rest = {} THEN poll' = [poll EXCEPT ![i] = NoPoll]
     ELSE \E c \in poll[i].rest :
            poll' = [poll EXCEPT ![i].rest = @ \ {c},
                       ![i].pc = IF c[2] \in poll[i].project THEN "list" ELSE "each",
                       ![i].now = IF c[2] \in poll[i].project THEN {c} ELSE {}]
  /\ UNCHANGED <<open, current, files, pending, enqueued, server, restarts, clips, switches>>

\* The tree has been listed; enqueueIngest throws unless the poll's project is
\* still the open one, and without a usable model it is not called.
Enqueue(i) ==
  /\ poll[i].pc = "list"
  /\ \E c \in poll[i].now, p \in poll[i].project :
       enqueued' = IF Usable /\ p = open
         THEN {[e EXCEPT !.times = IF e.clip = c[1] THEN @ + 1 ELSE @] : e \in enqueued}
              \cup (IF \E e \in enqueued : e.clip = c[1] THEN {}
                    ELSE {[clip |-> c[1], project |-> p, poll |-> i, times |-> 1]})
         ELSE enqueued
  /\ poll' = [poll EXCEPT ![i].pc = "each", ![i].now = {}]
  /\ UNCHANGED <<open, current, files, pending, server, restarts, clips, switches>>

Step == \E i \in Polls : Fetch(i) \/ Take(i) \/ Enqueue(i)
Next ==
  \/ Step \/ ServerStops \/ ServerRestarts
  \/ \E p \in Projects : handle_clip({p}) \/ SwitchProject(p)
  \/ handle_clip({})
Spec == Init /\ [][Next]_vars /\ WF_vars(Step) /\ WF_vars(ServerRestarts)

-----------------------------------------------------------------------------
\* A clip is ingested once, though polls overlap, and by its own project.
ClipsOnceAndHome ==
  \A e \in enqueued : e.times = 1 /\ <<e.clip, e.project>> \in files

\* A clip for the open project is waiting, in the hands of a poll or enqueued,
\* as long as the user stays: once fetched, it exists nowhere but there.
ClipsAreKept ==
  Usable /\ switches = 0 => \A c \in files : c[2] = open =>
    \/ c \in pending \/ \E i \in Polls : c \in poll[i].rest \cup poll[i].now
    \/ \E e \in enqueued : e.clip = c[1]

\* Whatever waits is picked up, as long as the server comes back.
ClipsArePickedUp == []<>(restarts = MaxRestarts \/ (pending = {} /\ \A i \in Polls : poll[i].rest = {}))
=============================================================================

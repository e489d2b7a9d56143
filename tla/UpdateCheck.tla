------------------------------ MODULE UpdateCheck ------------------------------
(***************************************************************************)
(* The check for a newer release (update-check.ts): once after each start    *)
(* (App.tsx), and when the user asks for it (about-section.tsx).  What the   *)
(* user chose - no check of its own, no banner for this release - is in a    *)
(* store (update-store.ts) and written to disk; the first check reads it     *)
(* back a while after the start, while the user may already choose.  The     *)
(* policy's own rule is external here.                                       *)
(***************************************************************************)
EXTENDS Integers, Sequences, FiniteSets

CONSTANTS
  Releases,     \* releases in the order they appear: the three numbers of each
  MaxRestarts,  \* bound: restarts
  MaxAsks,      \* bound: checks the user asks for
  MaxChoices,   \* bound: banners closed, checks switched on or off
  MaxFailures,  \* bound: checks that fail
  MaxHours      \* bound: hours that pass

VARIABLES
  mem,          \* the store
  disk,         \* updateCheckState, or Nothing
  writes,       \* values on their way to it
  start,        \* the check of this start: "waiting", "read", "over"
  persisted,    \* what it read, or Nothing
  checks,       \* requests under way: who asked, and what was the latest then
  world,        \* the latest release, the one installed, whether the policy allows, the hour
  told,         \* history: what the user chose last, and what came in between
  counts

vars == <<mem, disk, writes, start, persisted, checks, world, told, counts>>

Nothing == [nothing |-> TRUE]

\* A result is kept for the session only.
Fresh == [checking |-> FALSE, result |-> Nothing, checkedAt |-> -1, dismissed |-> 0, enabled |-> TRUE]
Kept(state) == [enabled |-> state.enabled, checkedAt |-> state.checkedAt, dismissed |-> state.dismissed]

Init ==
  /\ mem = Fresh /\ writes = <<>> /\ start = "waiting" /\ persisted = Nothing /\ checks = {}
  /\ \E allowed \in BOOLEAN : world = [latest |-> 2, local |-> 1, allowed |-> allowed, hour |-> 0]
  /\ \E enabled \in BOOLEAN, dismissed \in {0, 2} :
       /\ \/ disk = [enabled |-> enabled, checkedAt |-> 0, dismissed |-> dismissed]
          \/ disk = Nothing /\ enabled /\ dismissed = 0
       /\ told = [wanted |-> enabled, closed |-> {dismissed} \ {0}, early |-> FALSE, overlap |-> FALSE, lost |-> FALSE]
  /\ counts = [restarts |-> 0, asks |-> 0, choices |-> 0, failures |-> 0]

-----------------------------------------------------------------------------
\* isNewer: number by number.  A mutant: as one would compare two texts, the
\* last number first.
isNewerByPatch(remote, local) == remote[3] > local[3]
isNewer(remote, local) ==
  \E i \in 1..3 : remote[i] > local[i] /\ \A j \in 1..(i - 1) : remote[j] = local[j]

\* checkForUpdates: what a release, or none, amounts to.
Result(kind, remote) == [kind |-> kind, remote |-> remote]
Status(release) ==
  IF release = 0 THEN Result("error", 0)
  ELSE Result(IF isNewer(Releases[release], Releases[world.local]) THEN "available" ELSE "up-to-date", release)

hasAvailableUpdate == mem.result # Nothing /\ mem.result.kind = "available"
shouldShowUpdateBanner == hasAvailableUpdate /\ mem.dismissed # mem.result.remote

\* The policy is asked before the request is made.
Begin(by) ==
  /\ mem' = [mem EXCEPT !.checking = TRUE]
  /\ checks' = checks \cup {[by |-> by, since |-> world.latest, allowed |-> world.allowed]}
  /\ told' = [told EXCEPT !.overlap = @ \/ checks # {}]

\* The answer: a release that was the latest at some time since, or a failure.
Answers(c) == IF c.allowed THEN c.since..world.latest ELSE {}
Arrives(c, release) ==
  IF release # 0 THEN release \in Answers(c) /\ counts' = counts
  ELSE IF ~c.allowed THEN counts' = counts
  ELSE counts.failures < MaxFailures /\ counts' = [counts EXCEPT !.failures = @ + 1]

\* Chosen before what is on disk was read back.
Early == start # "over"

-----------------------------------------------------------------------------
\* The check of the start, 1.5 s after it: the state is read, and some time
\* later put over what is in the store.
ReadBack ==
  /\ start = "waiting" /\ start' = "read" /\ persisted' = disk
  /\ UNCHANGED <<mem, disk, writes, checks, world, told, counts>>

Hydrated ==
  IF persisted = Nothing THEN mem
  ELSE [mem EXCEPT !.enabled = persisted.enabled, !.checkedAt = persisted.checkedAt, !.dismissed = persisted.dismissed]

\* A mutant checks whether it is wanted or not.
IsDueAnyway(state) == state.checkedAt # world.hour \/ state.result = Nothing
IsDue(state) == state.enabled /\ (state.checkedAt # world.hour \/ state.result = Nothing)

Hydrate ==
  /\ start = "read" /\ start' = "over"
  /\ IF IsDue(Hydrated)
     THEN /\ mem' = [Hydrated EXCEPT !.checking = TRUE]
          /\ checks' = checks \cup {[by |-> "start", since |-> world.latest, allowed |-> world.allowed]}
          /\ told' = [told EXCEPT !.overlap = @ \/ checks # {}]
     ELSE mem' = Hydrated /\ UNCHANGED <<checks, told>>
  /\ UNCHANGED <<disk, writes, persisted, world, counts>>

Answered(c, release) ==
  /\ c \in checks /\ c.by = "start" /\ checks' = checks \ {c} /\ Arrives(c, release)
  /\ LET known == [mem EXCEPT !.result = Status(release), !.checkedAt = world.hour, !.checking = FALSE] IN
     mem' = known /\ writes' = Append(writes, Kept(known))
  /\ UNCHANGED <<disk, start, persisted, world, told>>

-----------------------------------------------------------------------------
\* handleCheckNow: the button is off while a check is under way or the policy
\* forbids it.  Its answer forgets what was dismissed.
CheckNow ==
  /\ ~mem.checking /\ world.allowed
  /\ counts.asks < MaxAsks /\ counts' = [counts EXCEPT !.asks = @ + 1]
  /\ Begin("user")
  /\ UNCHANGED <<disk, writes, start, persisted, world>>

AnsweredNow(c, release) ==
  /\ c \in checks /\ c.by = "user" /\ checks' = checks \ {c} /\ Arrives(c, release)
  /\ LET known == [mem EXCEPT !.result = Status(release), !.checkedAt = world.hour, !.checking = FALSE, !.dismissed = 0] IN
     mem' = known /\ writes' = Append(writes, Kept(known))
  /\ told' = [told EXCEPT !.closed = {}, !.early = @ \/ Early]
  /\ UNCHANGED <<disk, start, persisted, world>>

Chosen == counts.choices < MaxChoices /\ counts' = [counts EXCEPT !.choices = @ + 1]
Keep(state) == mem' = state /\ writes' = Append(writes, Kept(state))

\* handleDismiss, of the banner and of the section.
Dismiss ==
  /\ hasAvailableUpdate /\ Chosen
  /\ Keep([mem EXCEPT !.dismissed = mem.result.remote])
  /\ told' = [told EXCEPT !.closed = @ \cup {mem.result.remote}, !.early = @ \/ Early]
  /\ UNCHANGED <<disk, start, persisted, checks, world>>

\* handleToggleAutoCheck.
Toggle ==
  /\ Chosen
  /\ Keep([mem EXCEPT !.enabled = ~@])
  /\ told' = [told EXCEPT !.wanted = ~mem.enabled, !.early = @ \/ Early]
  /\ UNCHANGED <<disk, start, persisted, checks, world>>

\* Writes reach the disk in the order they were made.
SaveLands ==
  /\ writes # <<>> /\ disk' = Head(writes) /\ writes' = Tail(writes)
  /\ UNCHANGED <<mem, start, persisted, checks, world, told, counts>>

-----------------------------------------------------------------------------
\* A release appears; an hour passes; the policy is changed; the program is
\* closed or dies, and starts again as it is or updated.
Publish ==
  /\ world.latest < Len(Releases) /\ world' = [world EXCEPT !.latest = @ + 1]
  /\ UNCHANGED <<mem, disk, writes, start, persisted, checks, told, counts>>
HourPasses ==
  /\ world.hour < MaxHours /\ world' = [world EXCEPT !.hour = @ + 1]
  /\ UNCHANGED <<mem, disk, writes, start, persisted, checks, told, counts>>
Restart(local) ==
  /\ counts.restarts < MaxRestarts /\ counts' = [counts EXCEPT !.restarts = @ + 1]
  /\ local \in {world.local, world.latest}
  /\ mem' = Fresh /\ writes' = <<>> /\ start' = "waiting" /\ persisted' = Nothing /\ checks' = {}
  /\ world' = [world EXCEPT !.local = local]
  /\ told' = [told EXCEPT !.lost = @ \/ writes # <<>>]
  /\ UNCHANGED disk

Next ==
  \/ ReadBack \/ Hydrate \/ CheckNow \/ Dismiss \/ Toggle \/ SaveLands \/ Publish \/ HourPasses
  \/ \E c \in checks, release \in 0..Len(Releases) : Answered(c, release) \/ AnsweredNow(c, release)
  \/ \E local \in 1..Len(Releases) : Restart(local)

Spec == Init /\ [][Next]_vars

-----------------------------------------------------------------------------
\* No check was answered beside another, nothing was chosen before the state
\* was read back, and no write was on its way when the program went down.
Calm == ~told.early /\ ~told.overlap /\ ~told.lost

(***************************************************************************)
(* A banner that was closed stays closed for its release, over restarts, and *)
(* until the user asks for a check; what is newer than what is installed,    *)
(* and only that, is offered; and a check shows as under way exactly while   *)
(* it is (update-banner.tsx:12).                                             *)
(***************************************************************************)
ClosedStaysClosed ==
  Calm => /\ shouldShowUpdateBanner => mem.result.remote \notin told.closed
          /\ hasAvailableUpdate <=> mem.result # Nothing /\ mem.result.remote > world.local
          /\ mem.checking <=> checks # {}

(***************************************************************************)
(* Who switched the check off is not checked for, over restarts              *)
(* (App.tsx:118).                                                            *)
(***************************************************************************)
OffStaysOff == Calm /\ (\E c \in checks' \ checks : c.by = "start") => told.wanted

\* Refuted: both without the exemptions, and an update that was found stays
\* signposted until it is installed ("keep nudging the user",
\* update-store.ts:53).
ClosedStaysClosedAnyway == shouldShowUpdateBanner => mem.result.remote \notin told.closed
OffStaysOffAnyway == (\E c \in checks' \ checks : c.by = "start") => told.wanted
StaysSignposted ==
  hasAvailableUpdate /\ mem'.result # Nothing => mem'.result.kind = "available"
=============================================================================

---------------------------- MODULE ProjectLock ----------------------------
(***************************************************************************)
(* The per-project asynchronous mutex of src/lib/project-mutex.ts.         *)
(*                                                                         *)
(* The lock is a chain of promises: `locks` maps a project path to the     *)
(* tail promise of the call that arrived last, and a call waits for the    *)
(* tail it found there.  JavaScript runs each piece of code between two    *)
(* awaits without interruption, so one action is one such piece:           *)
(*                                                                         *)
(*   Enter      lines 36-49 up to the `await prev`                         *)
(*   Acquire    the continuation after `await prev`, which runs fn         *)
(*   Release    fn has settled (by value or by throwing) and `finally`     *)
(*              runs: release() and the choice of whether to clean up      *)
(*   SettleTail the promise `tail` settles once prev and next have         *)
(*   Cleanup    the deferred microtask that drops the map entry            *)
(*                                                                         *)
(* When the tail settles relative to the cleanup microtask depends on how  *)
(* many microtask hops prev took, so the two are left unordered.           *)
(***************************************************************************)
EXTENDS Naturals, FiniteSets

CONSTANTS
  Calls,      \* invocations of withProjectLock
  Paths,      \* normalised project paths
  NoCall,     \* an absent map entry, and the resolved promise used for it
  MaxTable    \* the table size (1024) above which every release cleans up

ASSUME NoCallAssumption == NoCall \notin Calls
ASSUME MaxTableAssumption == MaxTable \in Nat
ASSUME FiniteAssumption == IsFiniteSet(Paths)

VARIABLES
  locks,      \* path -> the call whose tail the map holds, or NoCall
  pc,         \* call -> where its invocation stands
  path,       \* call -> the path it locks
  prev,       \* call -> the call whose tail it waits for, or NoCall
  settled,    \* the calls whose tail promise has settled
  cleanup,    \* the calls whose cleanup microtask is queued
  arrival,    \* history: call -> its place in the order of arrival
  clock       \* history: how many calls have arrived

lockVars == <<locks, pc, path, prev, settled, cleanup, arrival, clock>>

States == {"idle", "waiting", "running", "released"}

Entered(c) == pc[c] # "idle"
Live(c)    == pc[c] \in {"waiting", "running"}

PrevSettled(c) == prev[c] = NoCall \/ prev[c] \in settled

TableSize == Cardinality({p \in Paths : locks[p] # NoCall})

LockTypeOK ==
  /\ locks \in [Paths -> Calls \cup {NoCall}]
  /\ pc \in [Calls -> States]
  /\ path \in [Calls -> Paths]
  /\ prev \in [Calls -> Calls \cup {NoCall}]
  /\ settled \subseteq Calls
  /\ cleanup \subseteq Calls
  /\ arrival \in [Calls -> Nat]
  /\ clock \in Nat

LockInit ==
  /\ locks = [p \in Paths |-> NoCall]
  /\ pc = [c \in Calls |-> "idle"]
  /\ path \in [Calls -> Paths]
  /\ prev = [c \in Calls |-> NoCall]
  /\ settled = {}
  /\ cleanup = {}
  /\ arrival = [c \in Calls |-> 0]
  /\ clock = 0

\* Bugs the comments of the code warn about, each next to the action it is a
\* variant of; no specification uses them.
EnterWithoutInstalling(c) ==
  /\ pc[c] = "idle"
  /\ prev' = [prev EXCEPT ![c] = locks[path[c]]]
  /\ locks' = [locks EXCEPT ![path[c]] = IF @ = NoCall THEN c ELSE @]
  /\ pc' = [pc EXCEPT ![c] = "waiting"]
  /\ clock' = clock + 1
  /\ arrival' = [arrival EXCEPT ![c] = clock + 1]
  /\ UNCHANGED <<path, settled, cleanup>>

EnterReadingOwnTail(c) ==
  /\ pc[c] = "idle"
  /\ prev' = [prev EXCEPT ![c] = c]
  /\ locks' = [locks EXCEPT ![path[c]] = c]
  /\ pc' = [pc EXCEPT ![c] = "waiting"]
  /\ clock' = clock + 1
  /\ arrival' = [arrival EXCEPT ![c] = clock + 1]
  /\ UNCHANGED <<path, settled, cleanup>>

Enter(c) ==
  /\ pc[c] = "idle"
  /\ prev' = [prev EXCEPT ![c] = locks[path[c]]]
  /\ locks' = [locks EXCEPT ![path[c]] = c]
  /\ pc' = [pc EXCEPT ![c] = "waiting"]
  /\ clock' = clock + 1
  /\ arrival' = [arrival EXCEPT ![c] = clock + 1]
  /\ UNCHANGED <<path, settled, cleanup>>

Acquire(c) ==
  /\ pc[c] = "waiting"
  /\ PrevSettled(c)
  /\ pc' = [pc EXCEPT ![c] = "running"]
  /\ UNCHANGED <<locks, path, prev, settled, cleanup, arrival, clock>>

CleansUp(c) == locks[path[c]] = c \/ TableSize > MaxTable

Release(c) ==
  /\ pc[c] = "running"
  /\ pc' = [pc EXCEPT ![c] = "released"]
  /\ cleanup' = IF CleansUp(c) THEN cleanup \cup {c} ELSE cleanup
  /\ UNCHANGED <<locks, path, prev, settled, arrival, clock>>

SettleTail(c) ==
  /\ pc[c] = "released"
  /\ c \notin settled
  /\ PrevSettled(c)
  /\ settled' = settled \cup {c}
  /\ UNCHANGED <<locks, pc, path, prev, cleanup, arrival, clock>>

CleanupWithoutRecheck(c) ==
  /\ c \in cleanup
  /\ cleanup' = cleanup \ {c}
  /\ locks' = [locks EXCEPT ![path[c]] = NoCall]
  /\ UNCHANGED <<pc, path, prev, settled, arrival, clock>>

Cleanup(c) ==
  /\ c \in cleanup
  /\ cleanup' = cleanup \ {c}
  /\ locks' = IF locks[path[c]] = c
              THEN [locks EXCEPT ![path[c]] = NoCall]
              ELSE locks
  /\ UNCHANGED <<pc, path, prev, settled, arrival, clock>>

LockNext ==
  \E c \in Calls :
    Enter(c) \/ Acquire(c) \/ Release(c) \/ SettleTail(c) \/ Cleanup(c)

(***************************************************************************)
(* The event loop runs every queued microtask, so the lock's own steps are *)
(* weakly fair.  Release stands for fn settling: the lock promises nothing *)
(* when fn hangs ("the lock is held until it resolves"), so its fairness   *)
(* is the assumption, stated apart, that every fn settles.                 *)
(***************************************************************************)
LockFairness ==
  \A c \in Calls :
    /\ WF_lockVars(Acquire(c))
    /\ WF_lockVars(SettleTail(c))
    /\ WF_lockVars(Cleanup(c))

CallersSettle == \A c \in Calls : WF_lockVars(Release(c))

LockSpec == LockInit /\ [][LockNext]_lockVars

FairSpec == LockSpec /\ LockFairness /\ CallersSettle

-----------------------------------------------------------------------------
\* Two bodies never run at once for the same project: this is what keeps an
\* ingest's read of wiki/index.md and its overwrite of it together.
MutualExclusion ==
  \A c, d \in Calls :
    (pc[c] = "running" /\ pc[d] = "running" /\ path[c] = path[d]) => c = d

\* The lock is granted in the order of arrival: while a call waits, no call
\* that arrived after it on the same path runs, or has run.
ArrivalOrder ==
  \A c, d \in Calls :
    (pc[c] = "waiting" /\ pc[d] \in {"running", "released"} /\ path[c] = path[d])
       => arrival[d] < arrival[c]

\* A call in flight is always reachable from the map: dropping the entry of a
\* finished call never cuts a chain that somebody still waits in, so the next
\* caller queues up behind it.
NoBrokenChain ==
  \A c \in Calls :
    Live(c) => /\ locks[path[c]] # NoCall
               /\ arrival[c] <= arrival[locks[path[c]]]

\* Completed tails do not accumulate: an entry of the map belongs to a call
\* in flight or to one whose cleanup microtask is queued, so the table is
\* empty once every call has finished and the microtasks have run.
NoLeak ==
  \A p \in Paths :
    locks[p] # NoCall => Live(locks[p]) \/ locks[p] \in cleanup

\* Every call that asks for the lock gets to run, if the bodies before it
\* settle.
EveryCallRuns ==
  \A c \in Calls : (pc[c] = "waiting") ~> (pc[c] = "running")

\* The promise chain implements the lock its callers rely on: the step that
\* resumes a call after `await prev` is one the ticket lock allows.
Ticket == INSTANCE TicketLock WITH stage <- pc, ticket <- arrival

ImplementsTicketLock == Ticket!Spec
-----------------------------------------------------------------------------
(***************************************************************************)
(* The inductive invariant behind the safety properties.  A call waits for *)
(* one promise only, its predecessor's tail, so what has to be invariant   *)
(* is what the settling of that one promise says of everybody ahead.       *)
(***************************************************************************)

\* Arrivals are numbered 1..clock without repetition.
DistinctArrivals ==
  \A c \in Calls : Entered(c) =>
    /\ arrival[c] \in 1..clock
    /\ \A d \in Calls : (Entered(d) /\ arrival[d] = arrival[c]) => c = d

\* The map points at the last call to arrive on the path.
MapHoldsLast ==
  \A p \in Paths : locks[p] # NoCall =>
    /\ Entered(locks[p])
    /\ path[locks[p]] = p
    /\ \A e \in Calls : (Entered(e) /\ path[e] = p) => arrival[e] <= arrival[locks[p]]

\* A predecessor is on the same path.
ChainStaysOnPath ==
  \A c \in Calls : (Entered(c) /\ prev[c] # NoCall) =>
    Entered(prev[c]) /\ path[prev[c]] = path[c]

\* Whoever arrived before c has finished, or is at or before c's predecessor.
ChainCoversEarlier ==
  \A c, e \in Calls :
    (Entered(c) /\ Entered(e) /\ path[e] = path[c] /\ arrival[e] < arrival[c])
      => \/ pc[e] = "released"
         \/ prev[c] # NoCall /\ arrival[e] <= arrival[prev[c]]

\* A settled tail means its call and everybody before it have finished.
SettledMeansFinished ==
  \A c \in settled :
    /\ pc[c] = "released"
    /\ \A e \in Calls :
         (Entered(e) /\ path[e] = path[c] /\ arrival[e] <= arrival[c]) => pc[e] = "released"

\* Nobody gets past its await before its predecessor's tail has settled.
RunsAfterPrev ==
  \A c \in Calls : pc[c] \in {"running", "released"} => PrevSettled(c)

CleanupAfterRelease == \A c \in cleanup : pc[c] = "released"

IInv ==
  /\ LockTypeOK
  /\ DistinctArrivals
  /\ MapHoldsLast
  /\ ChainStaysOnPath
  /\ ChainCoversEarlier
  /\ SettledMeansFinished
  /\ RunsAfterPrev
  /\ CleanupAfterRelease
  /\ NoBrokenChain
  /\ NoLeak
=============================================================================

------------------------ MODULE IngestQueueProofs ------------------------
(***************************************************************************)
(* What holds of the ingest queue for every number of calls, projects and  *)
(* tasks, with or without torn files, late writes and failed saves, as     *)
(* long as no call of the user falls between the steps of a switch of the  *)
(* project: tasks stay with their project, a runner left behind by a       *)
(* switch touches no task and no file, and no task that could run is left  *)
(* without somebody who will run it.                                       *)
(*                                                                         *)
(* SInv says where tasks may be: one switch at a time, of the open         *)
(* project; the list that is read from a file meets an empty queue; every  *)
(* list, in memory, on its way and on disk, is of one project.  LInv says  *)
(* who will see to them: a flag that is set has a call that will clear it, *)
(* a task marked as processing has a runner that holds it, and pending     *)
(* tasks have a call under way that starts the next one.                   *)
(*                                                                         *)
(* The second part proves TasksAreKept, under the rest of what its run     *)
(* assumes: writes to a file land in the order in which they were issued,  *)
(* a crash tears no file, and no project is opened again while a call of   *)
(* its last visit is still in flight.  It follows one task through its     *)
(* copies: the file, the writes on their way to it, in order, and the list *)
(* in memory.  A task that was not dropped is, from the first copy that    *)
(* holds it, in every later one (TasksArePassedOn); one that was dropped   *)
(* is in none that no later write will replace (DroppedTasksLeave).        *)
(*                                                                         *)
(* The last part proves Serial, one ingest at a time, where nobody cancels *)
(* and look-ups do not overlap (OInv).                                     *)
(***************************************************************************)
EXTENDS IngestQueue, SequenceTheorems, WellFoundedInduction, TLAPS

-----------------------------------------------------------------------------
(***************************************************************************)
(* The invariant.                                                          *)
(***************************************************************************)
SwitchPcs == {"pauseSave", "restoreLoad", "restoreLoaded", "restoreSave"}
HoldPcs   == {"registry", "saveStart", "ingest"}
RunPcs    == HoldPcs \cup {"saveThenNext", "saveDone"}
SavePcs   == {"saveStart", "saveThenNext", "saveDone", "saveOp", "saveOnly", "pauseSave", "restoreSave"}

\* A call that acts for a project knows which, a runner knows its task.
Knows(fr) ==
  /\ fr.pc \in SwitchPcs \cup RunPcs => fr.proj \in Projects
  /\ fr.pc \in HoldPcs => fr.task \in Tasks
FramesKnow == \A f \in Frames : Knows(frame[f])

\* One switch at a time, of the open project.
OneSwitch ==
  /\ \A f \in Frames : frame[f].pc \in SwitchPcs => frame[f].proj = currentProjectId
  /\ \A f, g \in Frames : frame[f].pc \in SwitchPcs /\ frame[g].pc \in SwitchPcs => f = g

\* Nothing is queued before the file has been read.
LoadsIntoEmpty ==
  \A f \in Frames : frame[f].pc \in {"restoreLoad", "restoreLoaded"} => queue = {}

\* Every list of tasks holds those of its project.
AtHome ==
  /\ NoForeignTask
  /\ \A i \in DOMAIN inflight : \A t \in inflight[i].content : t.proj = inflight[i].file

-----------------------------------------------------------------------------
\* Who is busy, who holds the task that is marked, who will go on.
BusyFor(fr) == fr.pc \in {"saveStart", "ingest", "saveDone"} /\ fr.proj = currentProjectId
HoldsTask(fr, t) ==
  fr.pc \in {"saveStart", "ingest"} /\ fr.proj = currentProjectId /\ fr.attached /\ fr.task = t.id
DrivesOn(fr) ==
  \/ fr.pc \in SwitchPcs \cup {"saveOp"}
  \/ fr.pc \in RunPcs /\ fr.proj = currentProjectId
SomeoneIsBusy ==
  processing /\ currentProjectId # NoProject => \E f \in Frames : BusyFor(frame[f])
MarkedTasksAreHeld ==
  \A t \in queue : t.status = "processing" => \E f \in Frames : HoldsTask(frame[f], t)
PendingTasksAreDriven ==
  \A t \in queue : t.status = "pending" => \E f \in Frames : DrivesOn(frame[f])

SInv == TypeOK /\ FramesKnow /\ OneSwitch /\ LoadsIntoEmpty /\ AtHome
LInv == SomeoneIsBusy /\ MarkedTasksAreHeld /\ PendingTasksAreDriven

-----------------------------------------------------------------------------
(***************************************************************************)
(* Operators.                                                              *)
(***************************************************************************)
\* Among numbered things there is a first one.
LEMMA FirstIsFound ==
  ASSUME NEW q \in SUBSET TaskRecord, q # {}
  PROVE  First(q) \in q
<1> DEFINE ids == {t.id : t \in q}
           less == OpToRel(<, Nat)
<1>1. ids \subseteq Nat /\ ids # {}
  BY NumberAssumption DEF TaskRecord, Tasks
<1>2. PICK n \in ids : \A m \in ids : ~(<<m, n>> \in less)
  <2> HIDE DEF ids, less
  <2>1. IsWellFoundedOn(less, Nat)
    BY NatLessThanWellFounded DEF less
  <2> QED
    BY <1>1, <2>1, WFMin
<1>3. \A m \in ids : n <= m
  <2> SUFFICES ASSUME NEW m \in ids PROVE n <= m
    OBVIOUS
  <2>1. m \in Nat /\ n \in Nat
    BY <1>1
  <2>2. ~(<<m, n>> \in less)
    BY <1>2
  <2>3. ~(m < n)
    BY <2>1, <2>2 DEF OpToRel
  <2> QED
    BY <2>1, <2>3
<1>4. PICK t \in q : t.id = n
  OBVIOUS
<1>5. \A u \in q : t.id <= u.id
  BY <1>3, <1>4
<1> QED
  BY <1>5 DEF First

\* What is left when one of a sequence is taken out.
LEMMA TakeOut ==
  ASSUME NEW S, NEW s \in Seq(S), NEW i \in 1..Len(s),
         NEW r, r = SubSeq(s, 1, i - 1) \o SubSeq(s, i + 1, Len(s))
  PROVE  /\ r \in Seq(S) /\ Len(r) = Len(s) - 1
         /\ \A k \in 1..(Len(s) - 1) : r[k] = IF k < i THEN s[k] ELSE s[k + 1]
<1> DEFINE a == SubSeq(s, 1, i - 1)
           b == SubSeq(s, i + 1, Len(s))
           n == Len(s)
<1>1. i \in Nat /\ n \in Nat /\ i >= 1 /\ i <= n
  BY LenProperties
<1>2. a \in Seq(S) /\ Len(a) = i - 1 /\ \A k \in 1..(i - 1) : a[k] = s[k]
  BY <1>1, SubSeqProperties
<1>3. b \in Seq(S) /\ Len(b) = n - i /\ \A k \in 1..(n - i) : b[k] = s[i + k]
  BY <1>1, SubSeqProperties
<1>4. r = a \o b
  OBVIOUS
<1> HIDE DEF a, b
<1>5. /\ a \o b \in Seq(S) /\ Len(a \o b) = Len(a) + Len(b)
      /\ \A k \in 1..(Len(a) + Len(b)) : (a \o b)[k] = IF k <= Len(a) THEN a[k] ELSE b[k - Len(a)]
  <2>1. a \in Seq(S) /\ b \in Seq(S)
    BY <1>2, <1>3
  <2> QED
    BY ONLY <2>1, ConcatProperties
<1> HIDE DEF n
<1>6. r \in Seq(S) /\ Len(r) = n - 1
      /\ \A k \in 1..(n - 1) : r[k] = IF k <= i - 1 THEN a[k] ELSE b[k - (i - 1)]
  BY ONLY <1>1, <1>2, <1>3, <1>4, <1>5, SMTT(30)
<1>7. ASSUME NEW k \in 1..(n - 1), k < i PROVE r[k] = s[k]
  BY ONLY <1>1, <1>2, <1>6, <1>7, k \in 1..(n - 1)
<1>8. ASSUME NEW k \in 1..(n - 1), ~(k < i) PROVE r[k] = s[k + 1]
  <2> DEFINE m == k - (i - 1)
  <2>1. m \in 1..(n - i) /\ i + m = k + 1
    BY ONLY <1>1, <1>8, k \in 1..(n - 1)
  <2>2. r[k] = b[m]
    BY ONLY <1>1, <1>6, <1>8, k \in 1..(n - 1)
  <2>3. b[m] = s[i + m]
    BY ONLY <2>1, <1>3
  <2> QED
    BY ONLY <2>1, <2>2, <2>3
<1>9. \A k \in 1..(n - 1) : r[k] = IF k < i THEN s[k] ELSE s[k + 1]
  BY ONLY <1>7, <1>8
<1> QED
  BY <1>6, <1>9 DEF n

-----------------------------------------------------------------------------
(***************************************************************************)
(* What a step does to the calls in flight: one moves, the others keep     *)
(* everything the invariant looks at but the hold on their task.           *)
(***************************************************************************)
Same(g) ==
  /\ frame'[g].pc = frame[g].pc /\ frame'[g].proj = frame[g].proj /\ frame'[g].task = frame[g].task
  /\ frame'[g].adds = frame[g].adds /\ frame'[g].drops = frame[g].drops
  /\ frame'[g].loaded = frame[g].loaded
Hold(g) == frame'[g].attached = frame[g].attached
Moves(f, r) ==
  /\ frame' \in [Frames -> FrameState] /\ frame'[f] = r
  /\ \A g \in Frames \ {f} : Same(g)
HoldsStay(f) == \A g \in Frames \ {f} : Hold(g)

LEMMA IdleIsState ==
  /\ IdleFrame \in FrameState
  /\ \A pc \in Awaits, p \in Projects \cup {NoProject} : Call(pc, p) \in FrameState
<1>1. IdleFrame \in FrameState
  BY NumberAssumption DEF IdleFrame, FrameState, Awaits
<1>2. \A fr \in FrameState, pc \in Awaits, p \in Projects \cup {NoProject} :
        [fr EXCEPT !.pc = pc, !.proj = p] \in FrameState
  BY DEF FrameState
<1> QED
  BY <1>1, <1>2 DEF Call

LEMMA CallFields ==
  /\ IdleFrame.pc = "idle" /\ IdleFrame.proj = NoProject /\ IdleFrame.attached = FALSE
  /\ IdleFrame.adds = {} /\ IdleFrame.drops = {} /\ IdleFrame.loaded = {} /\ IdleFrame.task = 0
  /\ \A pc, p : /\ Call(pc, p).pc = pc /\ Call(pc, p).proj = p /\ Call(pc, p).task = 0
                /\ Call(pc, p).attached = FALSE
                /\ Call(pc, p).adds = {} /\ Call(pc, p).drops = {} /\ Call(pc, p).loaded = {}
  BY DEF IdleFrame, Call

LEMMA UpdateMoves ==
  ASSUME frame \in [Frames -> FrameState], NEW f \in Frames, NEW r \in FrameState,
         frame' = [frame EXCEPT ![f] = r]
  PROVE  Moves(f, r) /\ HoldsStay(f)
  BY DEF Moves, HoldsStay, Same, Hold

LEMMA AbortIsTyped ==
  ASSUME NEW fr \in [Frames -> FrameState], NEW c \in Frames \cup {NoFrame}
  PROVE  /\ Abort(fr, c) \in [Frames -> FrameState]
         /\ \A g \in Frames : /\ Abort(fr, c)[g].pc = fr[g].pc /\ Abort(fr, c)[g].proj = fr[g].proj
                              /\ Abort(fr, c)[g].task = fr[g].task /\ Abort(fr, c)[g].adds = fr[g].adds
                              /\ Abort(fr, c)[g].drops = fr[g].drops /\ Abort(fr, c)[g].loaded = fr[g].loaded
                              /\ Abort(fr, c)[g].attached = fr[g].attached
<1>1. CASE c = NoFrame
  BY <1>1 DEF Abort
<1>2. CASE c \in Frames /\ c # NoFrame
  <2>1. Abort(fr, c) = [fr EXCEPT ![c] = [fr[c] EXCEPT !.aborted = TRUE]]
    BY <1>2 DEF Abort
  <2>2. fr[c] \in FrameState /\ [fr[c] EXCEPT !.aborted = TRUE] \in FrameState
    BY <1>2 DEF FrameState
  <2> QED
    BY <1>2, <2>1, <2>2 DEF FrameState
<1> QED
  BY <1>1, <1>2

LEMMA AbortMoves ==
  ASSUME frame \in [Frames -> FrameState], NEW f \in Frames, NEW r \in FrameState,
         NEW c \in Frames \cup {NoFrame}, NEW d \in Frames \cup {NoFrame},
         \/ frame' = [Abort(frame, c) EXCEPT ![f] = r]
         \/ frame' = [Abort(Abort(frame, c), d) EXCEPT ![f] = r]
  PROVE  Moves(f, r) /\ HoldsStay(f)
<1> DEFINE one == Abort(frame, c)
           two == Abort(one, d)
<1>1. /\ one \in [Frames -> FrameState]
      /\ \A g \in Frames : /\ one[g].pc = frame[g].pc /\ one[g].proj = frame[g].proj
                           /\ one[g].task = frame[g].task /\ one[g].adds = frame[g].adds
                           /\ one[g].drops = frame[g].drops /\ one[g].loaded = frame[g].loaded
                           /\ one[g].attached = frame[g].attached
  BY AbortIsTyped
<1>2. frame' = [one EXCEPT ![f] = r] \/ frame' = [two EXCEPT ![f] = r]
  OBVIOUS
<1> HIDE DEF one
<1>3. /\ two \in [Frames -> FrameState]
      /\ \A g \in Frames : /\ two[g].pc = one[g].pc /\ two[g].proj = one[g].proj
                           /\ two[g].task = one[g].task /\ two[g].adds = one[g].adds
                           /\ two[g].drops = one[g].drops /\ two[g].loaded = one[g].loaded
                           /\ two[g].attached = one[g].attached
  BY <1>1, AbortIsTyped
<1> HIDE DEF two
<1>4. frame' \in [Frames -> FrameState] /\ frame'[f] = r
      /\ \A g \in Frames \ {f} : frame'[g] = one[g] \/ frame'[g] = two[g]
  BY <1>1, <1>2, <1>3
<1> QED
  BY <1>1, <1>3, <1>4, SMTT(30) DEF Moves, HoldsStay, Same, Hold

LEMMA DetachMoves ==
  ASSUME frame \in [Frames -> FrameState], NEW f \in Frames, NEW r \in FrameState,
         frame' = [Detached EXCEPT ![f] = r]
  PROVE  Moves(f, r)
<1>1. \A g \in Frames : frame[g] \in FrameState
  OBVIOUS
<1>2. \A g \in Frames : [frame[g] EXCEPT !.attached = FALSE] \in FrameState
  BY <1>1 DEF FrameState
<1>3. Detached \in [Frames -> FrameState]
      /\ \A g \in Frames : Detached[g] = [frame[g] EXCEPT !.attached = FALSE]
  BY <1>2 DEF Detached
<1>4. frame' \in [Frames -> FrameState] /\ frame'[f] = r /\ \A g \in Frames \ {f} : frame'[g] = Detached[g]
  BY <1>3
<1>5. ASSUME NEW g \in Frames \ {f} PROVE Same(g)
  <2>1. frame'[g] = [frame[g] EXCEPT !.attached = FALSE] /\ frame[g] \in FrameState
    BY <1>3, <1>4
  <2> QED
    BY <2>1 DEF Same, FrameState
<1> QED
  BY <1>4, <1>5 DEF Moves

-----------------------------------------------------------------------------
(***************************************************************************)
(* The pieces of the queue and of the budget.                              *)
(***************************************************************************)
LEMMA SpendIsTyped ==
  ASSUME TypeOK, NEW what \in {"clicks", "cancels", "switches", "crashes", "failures"}, Spend(what)
  PROVE  /\ budget' \in [{"clicks", "cancels", "switches", "crashes", "failures"} -> Nat]
         /\ what # "failures" => budget'.failures = budget.failures
         /\ what = "failures" => budget'.failures = budget.failures - 1
<1>1. budget[what] \in Nat /\ budget[what] > 0
  BY DEF TypeOK, Spend
<1>2. budget[what] - 1 \in Nat
  BY <1>1
<1>3. budget' = [budget EXCEPT ![what] = budget[what] - 1]
  BY DEF Spend
<1> QED
  BY <1>2, <1>3 DEF TypeOK

\* Assigning to a task keeps its number and its project.
Kept(t, u) == u.id = t.id /\ u.proj = t.proj

LEMMA TaskUpdates ==
  ASSUME NEW t \in TaskRecord
  PROVE  /\ Fail(t) \in TaskRecord /\ Kept(t, Fail(t)) /\ Fail(t).status = "failed"
         /\ Start(t) \in TaskRecord /\ Kept(t, Start(t)) /\ Start(t).status = "processing"
         /\ Tried(t) \in TaskRecord /\ Kept(t, Tried(t)) /\ Tried(t).status # "processing"
         /\ [t EXCEPT !.status = "pending"] \in TaskRecord
         /\ Kept(t, [t EXCEPT !.status = "pending"]) /\ [t EXCEPT !.status = "pending"].status = "pending"
<1>1. /\ t = [id |-> t.id, proj |-> t.proj, status |-> t.status, retryCount |-> t.retryCount]
      /\ t.id \in Tasks /\ t.proj \in Projects /\ t.status \in Statuses /\ t.retryCount \in Nat
  BY DEF TaskRecord
<1>2. t.retryCount + 1 \in Nat
  BY <1>1
<1> QED
  BY <1>1, <1>2 DEF Fail, Start, Tried, Kept, TaskRecord, Statuses

LEMMA SaveAppends ==
  ASSUME inflight \in Seq(WriteState), NEW f \in Frames, NEW p \in Projects, NEW q \in SUBSET TaskRecord,
         Save(f, p, q)
  PROVE  /\ inflight' \in Seq(WriteState)
         /\ DOMAIN inflight = 1..Len(inflight) /\ Len(inflight) \in Nat
         /\ DOMAIN inflight' = 1..(Len(inflight) + 1)
         /\ \A i \in DOMAIN inflight : inflight'[i] = inflight[i]
         /\ inflight'[Len(inflight) + 1] = [by |-> f, file |-> p, content |-> q]
<1> DEFINE w == [by |-> f, file |-> p, content |-> q]
<1>1. w \in WriteState
  BY DEF WriteState
<1>2. inflight' = Append(inflight, w)
  BY DEF Save
<1> HIDE DEF w
<1>3. /\ inflight' \in Seq(WriteState) /\ Len(inflight') = Len(inflight) + 1
      /\ \A i \in 1..Len(inflight) : inflight'[i] = inflight[i]
      /\ inflight'[Len(inflight) + 1] = w
  BY <1>1, <1>2, AppendProperties
<1> QED
  BY <1>3, LenProperties DEF w

-----------------------------------------------------------------------------
(***************************************************************************)
(* Types, and whose tasks are where.                                       *)
(***************************************************************************)
LoadPcs == {"restoreLoad", "restoreLoaded"}

\* What a step that stays in its project must show.
StepKeepsHome(f, r) ==
  /\ Moves(f, r) /\ Knows(r)
  /\ UNCHANGED <<currentProjectId, disk>>
  /\ \A t \in queue' : t.proj = currentProjectId
  /\ inflight' = inflight \/ (currentProjectId \in Projects /\ Save(f, currentProjectId, queue'))
  /\ r.pc \in SwitchPcs =>
       r.proj = currentProjectId /\ (frame[f].pc \in SwitchPcs \/ ~Switching)
  /\ r.pc \in LoadPcs => frame[f].pc \in LoadPcs /\ queue' = queue
  /\ (queue = {} => queue' = {}) \/ ~Switching \/ frame[f].pc \in SwitchPcs

LEMMA HomeIsKept ==
  ASSUME SInv, TypeOK', NEW f \in Frames, NEW r, StepKeepsHome(f, r)
  PROVE  SInv'
<1> USE DEF SInv, StepKeepsHome, Moves
<1>1. FramesKnow'
  BY DEF FramesKnow, Knows, Same
<1>2. OneSwitch'
  BY DEF OneSwitch, Switching, SwitchPcs, Same
<1>3. LoadsIntoEmpty'
  BY DEF OneSwitch, LoadsIntoEmpty, Switching, SwitchPcs, LoadPcs, Same
<1>4. NoForeignTask'
  BY DEF NoForeignTask, AtHome
<1>5. \A i \in DOMAIN inflight' : \A t \in inflight'[i].content : t.proj = inflight'[i].file
  <2>1. CASE inflight' = inflight
    BY <2>1 DEF AtHome
  <2>2. CASE currentProjectId \in Projects /\ Save(f, currentProjectId, queue')
    <3>1. /\ DOMAIN inflight' = 1..(Len(inflight) + 1) /\ Len(inflight) \in Nat
          /\ DOMAIN inflight = 1..Len(inflight)
          /\ \A i \in DOMAIN inflight : inflight'[i] = inflight[i]
          /\ inflight'[Len(inflight) + 1] = [by |-> f, file |-> currentProjectId, content |-> queue']
      BY <2>2, SaveAppends DEF TypeOK
    <3>2. \A i \in DOMAIN inflight' : i \in DOMAIN inflight \/ i = Len(inflight) + 1
      BY <3>1
    <3> QED
      BY <3>1, <3>2 DEF AtHome
  <2> QED
    BY <2>1, <2>2
<1> QED
  BY <1>1, <1>2, <1>3, <1>4, <1>5 DEF AtHome

\* The calls of the user find a project open and no switch under way.
LEMMA CallsAreMade ==
  ASSUME SInv, Timing # "anytime", MayCall
  PROVE  currentProjectId \in Projects /\ ~Switching
  BY DEF MayCall, SInv, TypeOK

LEMMA OpIsState ==
  ASSUME NEW pc \in Awaits, NEW p \in Projects \cup {NoProject}, NEW s \in SUBSET Tasks
  PROVE  /\ [Call(pc, p) EXCEPT !.adds = s] \in FrameState
         /\ [Call(pc, p) EXCEPT !.drops = s] \in FrameState
<1>1. Call(pc, p) \in FrameState
  BY IdleIsState
<1> QED
  BY <1>1 DEF FrameState

LEMMA OpKnows ==
  ASSUME NEW pc \in {"saveOp", "saveOnly", "idle", "sweep"}, NEW r, r.pc = pc
  PROVE  Knows(r) /\ r.pc \notin SwitchPcs /\ r.pc \notin LoadPcs
  BY DEF Knows, SwitchPcs, RunPcs, HoldPcs, LoadPcs

LEMMA OpFields ==
  ASSUME NEW pc, NEW p, NEW s
  PROVE  /\ [Call(pc, p) EXCEPT !.adds = s].pc = pc /\ [Call(pc, p) EXCEPT !.drops = s].pc = pc
         /\ [Call(pc, p) EXCEPT !.adds = s].proj = p /\ [Call(pc, p) EXCEPT !.drops = s].proj = p
         /\ [Call(pc, p) EXCEPT !.adds = s].adds = s /\ [Call(pc, p) EXCEPT !.adds = s].drops = {}
         /\ [Call(pc, p) EXCEPT !.drops = s].drops = s /\ [Call(pc, p) EXCEPT !.drops = s].adds = {}
         /\ [Call(pc, p) EXCEPT !.adds = s].loaded = {} /\ [Call(pc, p) EXCEPT !.drops = s].loaded = {}
  BY DEF Call, IdleFrame

EnqueueFrame(n) == [Call("saveOp", NoProject) EXCEPT !.adds = (issued + 1)..(issued + n)]

LEMMA EnqueueHome ==
  ASSUME SInv, Timing # "anytime", NEW f \in Frames, NEW n \in 1..MaxTasks, Enqueue(f, n)
  PROVE  TypeOK' /\ StepKeepsHome(f, EnqueueFrame(n)) /\ HoldsStay(f)
<1> DEFINE new == (issued + 1)..(issued + n)
           r == EnqueueFrame(n)
<1>1. currentProjectId \in Projects /\ ~Switching
  BY CallsAreMade DEF Enqueue
<1>2. new \subseteq Tasks /\ issued + n \in 0..MaxTasks
  <2>1. MaxTasks \in Nat /\ issued \in 0..MaxTasks /\ n \in 1..MaxTasks /\ issued + n <= MaxTasks
    BY NumberAssumption DEF SInv, TypeOK, Enqueue
  <2> QED
    BY <2>1 DEF Tasks
<1>3. \A t \in new : NewTask(t) \in TaskRecord /\ NewTask(t).proj = currentProjectId
  BY <1>1, <1>2 DEF NewTask, TaskRecord, Statuses
<1>4. queue' \subseteq TaskRecord /\ \A t \in queue' : t.proj = currentProjectId
  BY <1>3 DEF Enqueue, SInv, TypeOK, AtHome, NoForeignTask
<1>5. r \in FrameState
  BY <1>2, OpIsState DEF EnqueueFrame, Awaits
<1>6. Moves(f, r) /\ HoldsStay(f)
  BY <1>5, UpdateMoves DEF Enqueue, SInv, TypeOK, EnqueueFrame
<1>7. r.pc = "saveOp"
  BY OpFields DEF EnqueueFrame
<1>8. Save(f, currentProjectId, queue') /\ inflight' \in Seq(WriteState)
  BY <1>1, <1>4, SaveAppends DEF Enqueue, SInv, TypeOK
<1>9. owner' \in [Tasks -> Projects \cup {NoProject}]
  BY <1>1 DEF Enqueue, SInv, TypeOK
<1>10. TypeOK'
  BY <1>2, <1>4, <1>6, <1>8, <1>9 DEF Enqueue, SInv, TypeOK, Moves
<1> QED
  BY <1>1, <1>4, <1>6, <1>7, <1>8, <1>10, OpKnows DEF Enqueue, StepKeepsHome

LEMMA RetryHome ==
  ASSUME SInv, Timing # "anytime", NEW f \in Frames, NEW t \in queue, retryTask(f, t)
  PROVE  TypeOK' /\ StepKeepsHome(f, Call("saveOp", NoProject)) /\ HoldsStay(f)
<1> DEFINE r == Call("saveOp", NoProject)
<1>1. currentProjectId \in Projects /\ ~Switching
  BY CallsAreMade DEF retryTask
<1>2. t \in TaskRecord
  BY DEF SInv, TypeOK
<1>3. queue' \subseteq TaskRecord /\ \A u \in queue' : u.proj = currentProjectId
  BY <1>2, TaskUpdates, ZenonT(60) DEF retryTask, SInv, TypeOK, AtHome, NoForeignTask, Kept
<1>4. r \in FrameState /\ r.pc = "saveOp"
  BY IdleIsState, CallFields DEF Awaits
<1>5. Moves(f, r) /\ HoldsStay(f)
  BY <1>4, UpdateMoves DEF retryTask, SInv, TypeOK
<1>6. Save(f, currentProjectId, queue') /\ inflight' \in Seq(WriteState)
  <2>1. Save(f, currentProjectId, queue')
    BY DEF retryTask
  <2>2. inflight \in Seq(WriteState) /\ queue' \in SUBSET TaskRecord
    BY <1>3 DEF SInv, TypeOK
  <2> QED
    BY <1>1, <2>1, <2>2, SaveAppends
<1>7. budget' \in [{"clicks", "cancels", "switches", "crashes", "failures"} -> Nat]
  BY SpendIsTyped DEF retryTask, SInv
<1>8. TypeOK'
  BY <1>3, <1>5, <1>6, <1>7 DEF retryTask, SInv, TypeOK, Moves, history
<1> QED
  BY <1>1, <1>3, <1>4, <1>5, <1>6, <1>8, OpKnows DEF retryTask, StepKeepsHome

DropFrame(pc, s) == [Call(pc, NoProject) EXCEPT !.drops = s]

\* What cancels and clears have in common.
Drop(f, pc, q, gone) ==
  /\ MayCall /\ FreeFrame(f)
  /\ queue' = q /\ q \subseteq queue
  /\ \/ frame' = [frame EXCEPT ![f] = DropFrame(pc, gone)]
     \/ frame' = [Abort(frame, currentAbortController) EXCEPT ![f] = DropFrame(pc, gone)]
  /\ processing' \in {FALSE, processing}
  /\ currentAbortController' \in {NoFrame, currentAbortController}
  /\ Save(f, currentProjectId, queue')
  /\ dropped' = dropped \cup gone
  /\ Spend("clicks") \/ Spend("cancels")
  /\ UNCHANGED <<currentProjectId, processedSinceDrain, sweepAbortController, disk, issued,
                 owner, acked, closed>>

LEMMA IdsAreTasks ==
  ASSUME NEW q \in SUBSET TaskRecord
  PROVE  Ids(q) \subseteq Tasks
  BY DEF Ids, TaskRecord

Failed(q)    == {t \in q : t.status = "failed"}
NotFailed(q) == {t \in q : t.status # "failed"}

LEMMA CancelDrops ==
  ASSUME NEW f \in Frames, NEW t \in queue, cancelTask(f, t)
  PROVE  Drop(f, "saveOp", queue \ {t}, {t.id})
  BY DEF cancelTask, Drop, DropFrame

LEMMA ClearDrops ==
  ASSUME NEW f \in Frames, clearCompletedTasks(f)
  PROVE  Drop(f, "saveOnly", NotFailed(queue), Ids(queue) \ Ids(NotFailed(queue)))
<1>1. queue' = NotFailed(queue) /\ NotFailed(queue) \subseteq queue
  BY DEF clearCompletedTasks, NotFailed
<1>2. Ids(queue') = Ids(NotFailed(queue))
  BY <1>1
<1> QED
  BY <1>1, <1>2 DEF clearCompletedTasks, Drop, DropFrame

LEMMA CancelAllDrops ==
  ASSUME NEW f \in Frames, cancelAllTasks(f)
  PROVE  Drop(f, "saveOnly", Failed(queue), Ids(queue) \ Ids(Failed(queue)))
<1>1. queue' = Failed(queue) /\ Failed(queue) \subseteq queue
  BY DEF cancelAllTasks, Failed
<1>2. Ids(queue') = Ids(Failed(queue))
  BY <1>1
<1> QED
  BY <1>1, <1>2 DEF cancelAllTasks, Drop, DropFrame

LEMMA DropHome ==
  ASSUME SInv, Timing # "anytime", NEW f \in Frames, NEW pc \in {"saveOp", "saveOnly"}, NEW q,
         NEW gone \in SUBSET Tasks, Drop(f, pc, q, gone)
  PROVE  TypeOK' /\ StepKeepsHome(f, DropFrame(pc, gone)) /\ HoldsStay(f)
<1> DEFINE r == DropFrame(pc, gone)
<1>1. currentProjectId \in Projects /\ ~Switching
  BY CallsAreMade DEF Drop
<1>2. queue' \subseteq TaskRecord /\ \A u \in queue' : u.proj = currentProjectId
  BY DEF Drop, SInv, TypeOK, AtHome, NoForeignTask
<1>3. pc \in Awaits
  BY DEF Awaits
<1>4. r \in FrameState
  BY <1>3, OpIsState DEF DropFrame
<1>5. r.pc = pc
  BY OpFields DEF DropFrame
<1>6. Moves(f, r) /\ HoldsStay(f)
  BY <1>4, UpdateMoves, AbortMoves DEF Drop, SInv, TypeOK
<1>7. Save(f, currentProjectId, queue') /\ inflight' \in Seq(WriteState)
  BY <1>1, <1>2, SaveAppends DEF Drop, SInv, TypeOK
<1>8. budget' \in [{"clicks", "cancels", "switches", "crashes", "failures"} -> Nat]
  BY SpendIsTyped DEF Drop, SInv
<1>9. TypeOK'
  BY <1>2, <1>6, <1>7, <1>8 DEF Drop, SInv, TypeOK, Moves
<1> QED
  BY <1>1, <1>2, <1>5, <1>6, <1>7, <1>9, OpKnows DEF Drop, StepKeepsHome

-----------------------------------------------------------------------------
(***************************************************************************)
(* processNext.                                                            *)
(***************************************************************************)
RegistryFrame(p, t) == [Call("registry", p) EXCEPT !.task = t, !.attached = TRUE]

\* Where processNext(p) leaves its call: it returns, takes the first pending
\* task or starts the sweep.
Proceeds(f, p, busy, r) ==
  \/ r = IdleFrame /\ (busy \/ currentProjectId # p)
  \/ /\ ~busy /\ currentProjectId = p /\ Pending(queue, p) # {}
     /\ r = RegistryFrame(p, First(Pending(queue, p)).id)
  \/ /\ ~busy /\ currentProjectId = p /\ Pending(queue, p) = {}
     /\ r \in {IdleFrame, Call("sweep", p)}

LEMMA RegistryFields ==
  ASSUME NEW p \in Projects, NEW t \in Tasks
  PROVE  LET r == RegistryFrame(p, t)
         IN /\ r \in FrameState /\ r.pc = "registry" /\ r.proj = p /\ r.task = t
            /\ r.adds = {} /\ r.drops = {} /\ r.loaded = {}
<1>1. Call("registry", p) \in FrameState
  BY IdleIsState DEF Awaits
<1>2. t \in 0..MaxTasks
  BY NumberAssumption DEF Tasks
<1>3. RegistryFrame(p, t) \in FrameState
  <2>1. \A fr \in FrameState : [fr EXCEPT !.task = t, !.attached = TRUE] \in FrameState
    BY <1>2 DEF FrameState
  <2> QED
    BY <1>1, <2>1 DEF RegistryFrame
<1> QED
  BY <1>3 DEF RegistryFrame, Call, IdleFrame

LEMMA ProcessNextProceeds ==
  ASSUME SInv, NEW f \in Frames, NEW p \in Projects \cup {NoProject}, NEW busy,
         ProcessNext(f, p, queue, busy)
  PROVE  \E r \in FrameState :
           /\ Proceeds(f, p, busy, r) /\ Moves(f, r) /\ HoldsStay(f)
           /\ Knows(r) /\ r.pc \in {"idle", "registry", "sweep"}
           /\ r.adds = {} /\ r.drops = {} /\ r.loaded = {}
           /\ r.pc = "registry" => r.proj = currentProjectId /\ currentProjectId \in Projects /\ r.task \in Ids(queue)
           /\ processedSinceDrain' \in BOOLEAN /\ sweepAbortController' \in Frames \cup {NoFrame}
<1> DEFINE first == First(Pending(queue, p)).id
<1>1. PICK r : /\ Proceeds(f, p, busy, r) /\ frame' = [frame EXCEPT ![f] = r]
               /\ processedSinceDrain' \in BOOLEAN /\ sweepAbortController' \in Frames \cup {NoFrame}
  BY DEF ProcessNext, Proceeds, RegistryFrame, SInv, TypeOK
<1>2. ASSUME r = RegistryFrame(p, first), Pending(queue, p) # {}, currentProjectId = p
      PROVE  /\ r \in FrameState /\ r.pc = "registry" /\ r.proj = p /\ r.task \in Ids(queue) /\ r.task \in Tasks
             /\ p \in Projects /\ r.adds = {} /\ r.drops = {} /\ r.loaded = {}
  <2>1. Pending(queue, p) \subseteq queue /\ Pending(queue, p) \in SUBSET TaskRecord
    BY DEF Pending, SInv, TypeOK
  <2>2. First(Pending(queue, p)) \in Pending(queue, p)
    BY <1>2, <2>1, FirstIsFound
  <2>3. first \in Ids(queue)
    BY <2>1, <2>2 DEF Ids
  <2>4. first \in Tasks /\ p \in Projects
    BY <2>1, <2>2 DEF Pending, TaskRecord
  <2> HIDE DEF first
  <2> QED
    BY <1>2, <2>3, <2>4, RegistryFields
<1>3. ASSUME r \in {IdleFrame, Call("sweep", p)}
      PROVE  /\ r \in FrameState /\ r.pc \in {"idle", "sweep"} /\ r.adds = {} /\ r.drops = {} /\ r.loaded = {}
  <2>1. "sweep" \in Awaits
    BY DEF Awaits
  <2> QED
    BY <1>3, <2>1, IdleIsState, CallFields
<1>4. /\ r \in FrameState /\ r.pc \in {"idle", "registry", "sweep"} /\ Knows(r)
      /\ r.adds = {} /\ r.drops = {} /\ r.loaded = {}
      /\ r.pc = "registry" => r.proj = currentProjectId /\ currentProjectId \in Projects /\ r.task \in Ids(queue)
  <2>1. CASE r = RegistryFrame(p, first) /\ Pending(queue, p) # {} /\ currentProjectId = p
    BY <1>2, <2>1 DEF Knows, SwitchPcs, RunPcs, HoldPcs
  <2>2. CASE r \in {IdleFrame, Call("sweep", p)}
    BY <1>3, <2>2 DEF Knows, SwitchPcs, RunPcs, HoldPcs
  <2> QED
    BY <1>1, <2>1, <2>2 DEF Proceeds
<1>5. Moves(f, r) /\ HoldsStay(f)
  BY <1>1, <1>4, UpdateMoves DEF SInv, TypeOK
<1> QED
  BY <1>1, <1>4, <1>5

-----------------------------------------------------------------------------
(***************************************************************************)
(* Steps that leave the queue and the files as they are.                   *)
(***************************************************************************)
Rests(f, r) ==
  /\ Moves(f, r) /\ HoldsStay(f) /\ Knows(r)
  /\ UNCHANGED <<queue, currentProjectId, inflight, disk, issued, budget, owner, dropped>>
  /\ frame[f].pc \in SavePcs => Saved(f)
  /\ frame[f].pc \notin LoadPcs \cup {"pauseSave"}
  /\ r.pc \in {"idle", "registry", "sweep", "ingest"}
  /\ r.adds \subseteq frame[f].adds /\ r.drops \subseteq frame[f].drops
  /\ r.loaded \in {{}, frame[f].loaded}
  /\ r.pc = "registry" => r.proj = currentProjectId /\ currentProjectId \in Projects /\ r.task \in Ids(queue)
  /\ r.pc = "ingest" => /\ r.proj = currentProjectId /\ r.proj = frame[f].proj /\ r.task = frame[f].task
                        /\ r.attached = frame[f].attached /\ frame[f].pc = "saveStart"
  /\ acked' \in {acked, acked \cup frame[f].adds}
  /\ closed' \in {closed, closed \cup frame[f].drops}

LEMMA RestsHome ==
  ASSUME SInv, TypeOK', NEW f \in Frames, NEW r, Rests(f, r)
  PROVE  StepKeepsHome(f, r)
<1>1. r.pc \notin SwitchPcs /\ r.pc \notin LoadPcs
  BY DEF Rests, SwitchPcs, LoadPcs
<1> QED
  BY <1>1 DEF Rests, StepKeepsHome, SInv, AtHome, NoForeignTask

LEMMA IdleMoves ==
  ASSUME SInv, NEW f \in Frames, frame' = [frame EXCEPT ![f] = IdleFrame]
  PROVE  /\ Moves(f, IdleFrame) /\ HoldsStay(f) /\ Knows(IdleFrame)
  BY IdleIsState, CallFields, UpdateMoves, OpKnows DEF SInv, TypeOK

LEMMA AfterOpRests ==
  ASSUME SInv, NEW f \in Frames, AfterOp(f)
  PROVE  /\ TypeOK'
         /\ \E r \in FrameState :
              /\ Rests(f, r)
              /\ \/ frame[f].pc = "saveOp" /\ Proceeds(f, currentProjectId, processing, r)
                 \/ frame[f].pc = "saveOnly" /\ r = IdleFrame
<1>1. frame[f] \in FrameState /\ frame[f].adds \subseteq Tasks /\ frame[f].drops \subseteq Tasks
  BY DEF SInv, TypeOK, FrameState
<1>2. currentProjectId \in Projects \cup {NoProject}
  BY DEF SInv, TypeOK
<1>3. frame[f].pc \notin LoadPcs \cup {"pauseSave"} /\ Saved(f)
  BY DEF AfterOp, Resume, LoadPcs
<1>4. CASE Resume(f, "saveOp") /\ ProcessNext(f, currentProjectId, queue, processing)
  <2>1. PICK r \in FrameState :
           /\ Proceeds(f, currentProjectId, processing, r) /\ Moves(f, r) /\ HoldsStay(f)
           /\ Knows(r) /\ r.pc \in {"idle", "registry", "sweep"}
           /\ r.adds = {} /\ r.drops = {} /\ r.loaded = {}
           /\ r.pc = "registry" => r.proj = currentProjectId /\ currentProjectId \in Projects /\ r.task \in Ids(queue)
           /\ processedSinceDrain' \in BOOLEAN /\ sweepAbortController' \in Frames \cup {NoFrame}
    BY <1>2, <1>4, ProcessNextProceeds
  <2>2. TypeOK'
    BY <1>1, <2>1 DEF AfterOp, SInv, TypeOK, Moves
  <2>3. Rests(f, r)
    BY <1>3, <2>1 DEF AfterOp, Rests
  <2> QED
    BY <1>4, <2>1, <2>2, <2>3 DEF Resume
<1>5. CASE Resume(f, "saveOnly") /\ Return(f)
  <2>1. Moves(f, IdleFrame) /\ HoldsStay(f) /\ Knows(IdleFrame)
    BY <1>5, IdleMoves DEF Return
  <2>2. TypeOK'
    BY <1>1, <1>5, <2>1 DEF AfterOp, Return, SInv, TypeOK, Moves
  <2>3. Rests(f, IdleFrame)
    BY <1>3, <2>1, CallFields DEF AfterOp, Rests
  <2> QED
    BY <1>5, <2>2, <2>3, IdleIsState DEF Resume
<1> QED
  BY <1>4, <1>5 DEF AfterOp

LEMMA RestoreSavedRests ==
  ASSUME SInv, NEW f \in Frames, RestoreSaved(f)
  PROVE  /\ TypeOK'
         /\ frame[f].pc = "restoreSave" /\ frame[f].proj = currentProjectId
         /\ \E r \in FrameState :
              /\ Rests(f, r)
              /\ \/ Proceeds(f, currentProjectId, processing, r)
                 \/ r = IdleFrame /\ \A t \in queue : t.status # "pending"
<1>1. frame[f] \in FrameState /\ frame[f].pc = "restoreSave" /\ Saved(f)
  BY DEF SInv, TypeOK, RestoreSaved, Resume
<1>2. frame[f].proj = currentProjectId /\ currentProjectId \in Projects
  BY <1>1 DEF SInv, OneSwitch, FramesKnow, Knows, SwitchPcs
<1>3. frame[f].pc \notin LoadPcs \cup {"pauseSave"}
  BY <1>1 DEF LoadPcs
<1>4. CASE ProcessNext(f, frame[f].proj, queue, processing)
  <2>1. PICK r \in FrameState :
           /\ Proceeds(f, currentProjectId, processing, r) /\ Moves(f, r) /\ HoldsStay(f)
           /\ Knows(r) /\ r.pc \in {"idle", "registry", "sweep"}
           /\ r.adds = {} /\ r.drops = {} /\ r.loaded = {}
           /\ r.pc = "registry" => r.proj = currentProjectId /\ currentProjectId \in Projects /\ r.task \in Ids(queue)
           /\ processedSinceDrain' \in BOOLEAN /\ sweepAbortController' \in Frames \cup {NoFrame}
    BY <1>2, <1>4, ProcessNextProceeds
  <2>2. TypeOK'
    BY <2>1 DEF RestoreSaved, SInv, TypeOK, Moves, history
  <2>3. Rests(f, r)
    BY <1>1, <1>3, <2>1 DEF RestoreSaved, Rests, history
  <2> QED
    BY <1>1, <1>2, <2>1, <2>2, <2>3
<1>5. CASE Return(f) /\ \A t \in queue : t.status # "pending"
  <2>1. Moves(f, IdleFrame) /\ HoldsStay(f) /\ Knows(IdleFrame)
    BY <1>5, IdleMoves DEF Return
  <2>2. TypeOK'
    BY <1>5, <2>1 DEF RestoreSaved, Return, SInv, TypeOK, Moves, history
  <2>3. Rests(f, IdleFrame)
    BY <1>1, <1>3, <2>1, CallFields DEF RestoreSaved, Rests, history
  <2> QED
    BY <1>1, <1>2, <1>5, <2>2, <2>3, IdleIsState
<1>6. \/ ProcessNext(f, frame[f].proj, queue, processing)
      \/ Return(f) /\ \A t \in queue : t.status # "pending"
  BY DEF RestoreSaved
<1> QED
  BY <1>4, <1>5, <1>6

LEMMA RunnerBailsRests ==
  ASSUME SInv, NEW f \in Frames, RunnerBails(f)
  PROVE  /\ TypeOK' /\ Rests(f, IdleFrame)
         /\ frame[f].pc \in HoldPcs /\ frame[f].proj # currentProjectId
<1>1. frame[f].pc \in HoldPcs /\ Saved(f) /\ frame[f].proj # currentProjectId
  BY DEF RunnerBails, Bail, Resume, Orphaned, HoldPcs
<1>2. Moves(f, IdleFrame) /\ HoldsStay(f) /\ Knows(IdleFrame)
  BY IdleMoves DEF RunnerBails, Bail
<1>3. TypeOK'
  BY <1>2 DEF RunnerBails, SInv, TypeOK, Moves, history, memory
<1>4. Rests(f, IdleFrame)
  BY <1>1, <1>2, CallFields DEF RunnerBails, Rests, history, memory, HoldPcs, LoadPcs
<1> QED
  BY <1>1, <1>3, <1>4

LEMMA SweepEndsRests ==
  ASSUME SInv, NEW f \in Frames, SweepEnds(f)
  PROVE  TypeOK' /\ Rests(f, IdleFrame) /\ frame[f].pc = "sweep"
<1>1. Moves(f, IdleFrame) /\ HoldsStay(f) /\ Knows(IdleFrame)
  BY IdleMoves DEF SweepEnds
<1>2. TypeOK'
  BY <1>1 DEF SweepEnds, SInv, TypeOK, Moves, history
<1>3. Rests(f, IdleFrame)
  BY <1>1, CallFields DEF SweepEnds, Rests, history, LoadPcs, SavePcs
<1> QED
  BY <1>2, <1>3 DEF SweepEnds

MovedOn(f, pc) == [frame[f] EXCEPT !.pc = pc]

LEMMA MovedOnFields ==
  ASSUME SInv, NEW f \in Frames, NEW pc \in Awaits
  PROVE  /\ MovedOn(f, pc) \in FrameState /\ MovedOn(f, pc).pc = pc /\ MovedOn(f, pc).proj = frame[f].proj
         /\ MovedOn(f, pc).task = frame[f].task /\ MovedOn(f, pc).attached = frame[f].attached
         /\ MovedOn(f, pc).adds = frame[f].adds /\ MovedOn(f, pc).drops = frame[f].drops
         /\ MovedOn(f, pc).loaded = frame[f].loaded
<1>1. frame[f] \in FrameState
  BY DEF SInv, TypeOK
<1> QED
  BY <1>1 DEF FrameState, MovedOn

LEMMA RunnerIngestsRests ==
  ASSUME SInv, NEW f \in Frames, RunnerIngests(f)
  PROVE  /\ TypeOK' /\ Rests(f, MovedOn(f, "ingest"))
         /\ frame[f].pc = "saveStart" /\ frame[f].proj = currentProjectId /\ processing' = processing
<1> DEFINE r == MovedOn(f, "ingest")
<1>1. frame[f].pc = "saveStart" /\ Saved(f) /\ frame[f].proj = currentProjectId
  BY DEF RunnerIngests, Resume, Orphaned
<1>2. /\ r \in FrameState /\ r.pc = "ingest" /\ r.proj = frame[f].proj
      /\ r.task = frame[f].task /\ r.attached = frame[f].attached
      /\ r.adds = frame[f].adds /\ r.drops = frame[f].drops /\ r.loaded = frame[f].loaded
  BY MovedOnFields DEF Awaits
<1>3. frame' = [frame EXCEPT ![f] = r]
  BY DEF RunnerIngests, MovedOn
<1> HIDE DEF r
<1>4. Moves(f, r) /\ HoldsStay(f)
  BY <1>2, <1>3, UpdateMoves DEF SInv, TypeOK
<1>5. Knows(r)
  BY <1>1, <1>2 DEF SInv, FramesKnow, Knows, RunPcs, HoldPcs, SwitchPcs
<1>6. TypeOK'
  BY <1>4 DEF RunnerIngests, SInv, TypeOK, Moves, history
<1>7. Rests(f, r)
  BY <1>1, <1>2, <1>4, <1>5 DEF RunnerIngests, Rests, history, LoadPcs
<1> QED
  BY <1>1, <1>6, <1>7 DEF RunnerIngests, r

LEMMA RunnerGoesOnRests ==
  ASSUME SInv, NEW f \in Frames, RunnerGoesOn(f)
  PROVE  /\ TypeOK'
         /\ \/ frame[f].pc = "saveThenNext" /\ processing' = processing
            \/ frame[f].pc = "saveDone" /\ processing' = FALSE
         /\ \E r \in FrameState : Rests(f, r) /\ Proceeds(f, frame[f].proj, processing', r)
<1>1. frame[f] \in FrameState /\ frame[f].drops \subseteq Tasks /\ frame[f].proj \in Projects \cup {NoProject}
  BY DEF SInv, TypeOK, FrameState
<1>2. /\ \/ frame[f].pc = "saveThenNext" /\ processing' = processing
         \/ frame[f].pc = "saveDone" /\ processing' = FALSE
      /\ Saved(f) /\ frame[f].pc \notin LoadPcs \cup {"pauseSave"}
  BY DEF RunnerGoesOn, Resume, LoadPcs
<1>3. ProcessNext(f, frame[f].proj, queue, processing')
  BY DEF RunnerGoesOn
<1>4. PICK r \in FrameState :
         /\ Proceeds(f, frame[f].proj, processing', r) /\ Moves(f, r) /\ HoldsStay(f)
         /\ Knows(r) /\ r.pc \in {"idle", "registry", "sweep"}
         /\ r.adds = {} /\ r.drops = {} /\ r.loaded = {}
         /\ r.pc = "registry" => r.proj = currentProjectId /\ currentProjectId \in Projects /\ r.task \in Ids(queue)
         /\ processedSinceDrain' \in BOOLEAN /\ sweepAbortController' \in Frames \cup {NoFrame}
  BY <1>1, <1>3, ProcessNextProceeds
<1>5. TypeOK'
  BY <1>1, <1>2, <1>4 DEF RunnerGoesOn, SInv, TypeOK, Moves
<1>6. Rests(f, r)
  BY <1>2, <1>4 DEF RunnerGoesOn, Rests
<1> QED
  BY <1>2, <1>4, <1>5, <1>6

-----------------------------------------------------------------------------
(***************************************************************************)
(* Steps that rewrite the queue and save it.                               *)
(***************************************************************************)
\* The same tasks, in other states.
Rewritten(q, new) ==
  /\ new \subseteq TaskRecord
  /\ \A t \in new : \E u \in q : Kept(u, t)
  /\ \A u \in q : \E t \in new : Kept(u, t)

LEMMA RewrittenIds ==
  ASSUME NEW q, NEW new, Rewritten(q, new)
  PROVE  Ids(new) = Ids(q)
  BY DEF Rewritten, Kept, Ids

LEMMA ToPendingRewrites ==
  ASSUME NEW q \in SUBSET TaskRecord
  PROVE  Rewritten(q, ToPending(q)) /\ \A t \in ToPending(q) : t.status # "processing"
<1> DEFINE g(t) == IF t.status = "processing" THEN [t EXCEPT !.status = "pending"] ELSE t
<1>1. \A t \in TaskRecord : g(t) \in TaskRecord /\ Kept(t, g(t)) /\ g(t).status # "processing"
  BY TaskUpdates DEF Kept
<1>2. ToPending(q) = {g(t) : t \in q}
  BY DEF ToPending
<1> HIDE DEF g
<1> QED
  BY <1>1, <1>2 DEF Rewritten

LEMMA UpdateRewrites ==
  ASSUME SInv, NEW f \in Frames,
         \/ queue' = (queue \ Held(f)) \cup {Fail(t) : t \in Held(f)}
         \/ queue' = (queue \ Held(f)) \cup {Start(t) : t \in Held(f)}
         \/ queue' = (queue \ Held(f)) \cup {Tried(t) : t \in Held(f)}
  PROVE  Rewritten(queue, queue')
<1>1. Held(f) \subseteq queue /\ queue \subseteq TaskRecord
  BY DEF Held, SInv, TypeOK
<1>2. \A t \in TaskRecord : Kept(t, t)
  BY DEF Kept
<1>3. \A t \in TaskRecord : /\ Fail(t) \in TaskRecord /\ Kept(t, Fail(t))
                            /\ Start(t) \in TaskRecord /\ Kept(t, Start(t))
                            /\ Tried(t) \in TaskRecord /\ Kept(t, Tried(t))
  BY TaskUpdates
<1>4. CASE queue' = (queue \ Held(f)) \cup {Fail(t) : t \in Held(f)}
  BY <1>1, <1>2, <1>3, <1>4 DEF Rewritten
<1>5. CASE queue' = (queue \ Held(f)) \cup {Start(t) : t \in Held(f)}
  BY <1>1, <1>2, <1>3, <1>5 DEF Rewritten
<1>6. CASE queue' = (queue \ Held(f)) \cup {Tried(t) : t \in Held(f)}
  BY <1>1, <1>2, <1>3, <1>6 DEF Rewritten
<1> QED
  BY <1>4, <1>5, <1>6

LEMMA RewrittenHome ==
  ASSUME NEW q, NEW new, Rewritten(q, new), NEW p, \A t \in q : t.proj = p
  PROVE  \A t \in new : t.proj = p
  BY DEF Rewritten, Kept

\* What the runner's saves have in common.
RunnerSaves(f, r) ==
  /\ frame[f].pc \in HoldPcs /\ frame[f].proj = currentProjectId
  /\ frame[f].pc = "ingest" \/ Saved(f)
  /\ frame' = [frame EXCEPT ![f] = r]
  /\ r.pc \in {"saveStart", "saveThenNext", "saveDone"} /\ r.proj = currentProjectId
  /\ r.pc = "saveStart" => r = MovedOn(f, "saveStart") /\ frame[f].pc = "registry"
  /\ Save(f, currentProjectId, queue')
  /\ currentAbortController' \in {NoFrame, currentAbortController}
  /\ processing' \in BOOLEAN
  /\ processedSinceDrain' \in {TRUE, processedSinceDrain}
  /\ UNCHANGED <<currentProjectId, sweepAbortController, disk, issued, budget, owner, acked, closed>>

LEMMA RunnerSavesHome ==
  ASSUME SInv, NEW f \in Frames, NEW r \in FrameState, RunnerSaves(f, r), dropped' \subseteq Tasks,
         queue' \subseteq TaskRecord, \A t \in queue' : \E u \in queue : Kept(u, t)
  PROVE  TypeOK' /\ StepKeepsHome(f, r) /\ HoldsStay(f) /\ currentProjectId \in Projects
<1>1. currentProjectId \in Projects
  BY DEF RunnerSaves, SInv, FramesKnow, Knows, RunPcs
<1>2. Moves(f, r) /\ HoldsStay(f)
  BY UpdateMoves DEF RunnerSaves, SInv, TypeOK
<1>3. Save(f, currentProjectId, queue') /\ inflight' \in Seq(WriteState)
  BY <1>1, SaveAppends DEF RunnerSaves, SInv, TypeOK
<1>4. \A t \in queue' : t.proj = currentProjectId
  BY DEF SInv, AtHome, NoForeignTask, Kept
<1>5. Knows(r)
  <2>1. CASE r.pc = "saveStart"
    <3>1. r.task = frame[f].task
      BY <2>1, MovedOnFields DEF RunnerSaves, Awaits
    <3> QED
      BY <1>1, <3>1 DEF Knows, SInv, FramesKnow, RunnerSaves, RunPcs, HoldPcs, SwitchPcs
  <2>2. CASE r.pc # "saveStart"
    BY <1>1, <2>2 DEF Knows, RunnerSaves, RunPcs, HoldPcs, SwitchPcs
  <2> QED
    BY <2>1, <2>2
<1>6. r.pc \notin SwitchPcs /\ r.pc \notin LoadPcs
  BY DEF RunnerSaves, SwitchPcs, LoadPcs
<1>7. TypeOK'
  BY <1>2, <1>3 DEF RunnerSaves, SInv, TypeOK, Moves
<1>8. queue = {} => queue' = {}
  OBVIOUS
<1> QED
  BY <1>1, <1>2, <1>3, <1>4, <1>5, <1>6, <1>7, <1>8 DEF StepKeepsHome, RunnerSaves

LEMMA RunnerLostSaves ==
  ASSUME SInv, NEW f \in Frames, RunnerLost(f)
  PROVE  LET r == Call("saveThenNext", currentProjectId)
         IN RunnerSaves(f, r) /\ r \in FrameState /\ Rewritten(queue, queue') /\ dropped' = dropped
<1>1. Rewritten(queue, queue')
  BY UpdateRewrites DEF RunnerLost
<1>2. /\ frame[f].pc = "registry" /\ frame[f].proj = currentProjectId /\ Saved(f)
      /\ frame' = [frame EXCEPT ![f] = Call("saveThenNext", frame[f].proj)]
  BY DEF RunnerLost, Resume, Orphaned
<1>3. Call("saveThenNext", currentProjectId) \in FrameState
  BY IdleIsState DEF SInv, TypeOK, Awaits
<1> QED
  BY <1>1, <1>2, <1>3, CallFields DEF RunnerLost, RunnerSaves, HoldPcs, history, SInv, TypeOK

LEMMA RunnerStartsSaves ==
  ASSUME SInv, NEW f \in Frames, RunnerStarts(f)
  PROVE  LET r == MovedOn(f, "saveStart")
         IN RunnerSaves(f, r) /\ r \in FrameState /\ Rewritten(queue, queue') /\ dropped' = dropped
<1>1. Rewritten(queue, queue')
  BY UpdateRewrites DEF RunnerStarts
<1>2. /\ frame[f].pc = "registry" /\ frame[f].proj = currentProjectId /\ Saved(f)
      /\ frame' = [frame EXCEPT ![f] = MovedOn(f, "saveStart")]
  BY DEF RunnerStarts, Resume, Orphaned, MovedOn
<1>3. MovedOn(f, "saveStart") \in FrameState /\ MovedOn(f, "saveStart").pc = "saveStart"
      /\ MovedOn(f, "saveStart").proj = currentProjectId
  BY <1>2, MovedOnFields DEF Awaits
<1> QED
  BY <1>1, <1>2, <1>3 DEF RunnerStarts, RunnerSaves, HoldPcs, history, SInv, TypeOK

LEMMA RunnerUnconfiguredSaves ==
  ASSUME SInv, NEW f \in Frames, RunnerUnconfigured(f)
  PROVE  LET r == Call("saveThenNext", currentProjectId)
         IN RunnerSaves(f, r) /\ r \in FrameState /\ Rewritten(queue, queue') /\ dropped' = dropped
<1>1. Rewritten(queue, queue')
  BY UpdateRewrites DEF RunnerUnconfigured
<1>2. /\ frame[f].pc = "saveStart" /\ frame[f].proj = currentProjectId /\ Saved(f)
      /\ frame' = [frame EXCEPT ![f] = Call("saveThenNext", frame[f].proj)]
  BY DEF RunnerUnconfigured, Resume, Orphaned
<1>3. Call("saveThenNext", currentProjectId) \in FrameState
  BY IdleIsState DEF SInv, TypeOK, Awaits
<1>4. /\ Call("saveThenNext", currentProjectId).pc = "saveThenNext"
      /\ Call("saveThenNext", currentProjectId).proj = currentProjectId
  BY CallFields
<1> QED
  BY <1>1, <1>2, <1>3, <1>4 DEF RunnerUnconfigured, RunnerSaves, HoldPcs, history

LEMMA RunnerFailsSaves ==
  ASSUME SInv, NEW f \in Frames, RunnerFails(f)
  PROVE  LET r == Call("saveDone", currentProjectId)
         IN RunnerSaves(f, r) /\ r \in FrameState /\ Rewritten(queue, queue') /\ dropped' = dropped
<1>1. Rewritten(queue, queue')
  BY UpdateRewrites DEF RunnerFails
<1>2. /\ frame[f].pc = "ingest" /\ frame[f].proj = currentProjectId
      /\ frame' = [frame EXCEPT ![f] = Call("saveDone", frame[f].proj)]
  BY DEF RunnerFails, Orphaned
<1>3. Call("saveDone", currentProjectId) \in FrameState
  BY IdleIsState DEF SInv, TypeOK, Awaits
<1> QED
  BY <1>1, <1>2, <1>3, CallFields DEF RunnerFails, RunnerSaves, HoldPcs, history, SInv, TypeOK

DoneFrame(f) == [Call("saveDone", frame[f].proj) EXCEPT !.drops = {frame[f].task}]

LEMMA RunnerSucceedsSaves ==
  ASSUME SInv, NEW f \in Frames, RunnerSucceeds(f)
  PROVE  LET r == DoneFrame(f)
         IN /\ RunnerSaves(f, r) /\ r \in FrameState
            /\ queue' = {t \in queue : t.id # frame[f].task}
            /\ frame[f].task \in Tasks /\ dropped' = dropped \cup {frame[f].task}
            /\ r.adds = {} /\ r.drops = {frame[f].task} /\ r.loaded = {} /\ r.pc = "saveDone"
            /\ r.proj = currentProjectId
<1> DEFINE p == frame[f].proj
           s == {frame[f].task}
<1>1. frame[f].pc = "ingest" /\ p = currentProjectId
      /\ frame' = [frame EXCEPT ![f] = DoneFrame(f)]
  BY DEF RunnerSucceeds, Orphaned, DoneFrame
<1>2. frame[f].task \in Tasks /\ p \in Projects
  BY <1>1 DEF SInv, FramesKnow, Knows, HoldPcs, RunPcs
<1>3. DoneFrame(f) \in FrameState
  <2>1. "saveDone" \in Awaits /\ s \in SUBSET Tasks /\ p \in Projects \cup {NoProject}
    BY <1>2 DEF Awaits
  <2> QED
    BY <2>1, OpIsState DEF DoneFrame
<1>4. /\ DoneFrame(f).adds = {} /\ DoneFrame(f).drops = {frame[f].task} /\ DoneFrame(f).loaded = {}
      /\ DoneFrame(f).pc = "saveDone" /\ DoneFrame(f).proj = p
  BY OpFields DEF DoneFrame
<1> QED
  BY <1>1, <1>2, <1>3, <1>4 DEF RunnerSucceeds, RunnerSaves, HoldPcs, SInv, TypeOK

-----------------------------------------------------------------------------
(***************************************************************************)
(* The project switch.                                                     *)
(***************************************************************************)
LEMMA PauseStartHome ==
  ASSUME SInv, Timing # "anytime", NEW f \in Frames, PauseStart(f)
  PROVE  LET r == Call("pauseSave", currentProjectId)
         IN /\ TypeOK' /\ StepKeepsHome(f, r) /\ HoldsStay(f)
            /\ currentProjectId \in Projects /\ ~Switching
            /\ queue' = ToPending(queue) /\ Save(f, currentProjectId, queue')
            /\ budget'.failures = budget.failures
<1> DEFINE r == Call("pauseSave", currentProjectId)
<1>1. currentProjectId \in Projects /\ ~Switching
  BY CallsAreMade DEF PauseStart
<1>2. queue' = ToPending(queue) /\ Rewritten(queue, queue')
  BY ToPendingRewrites DEF PauseStart, SInv, TypeOK
<1>3. queue' \subseteq TaskRecord /\ \A t \in queue' : t.proj = currentProjectId
  <2>1. \A t \in queue : t.proj = currentProjectId
    BY DEF SInv, AtHome, NoForeignTask
  <2>2. queue' \subseteq TaskRecord
    BY <1>2 DEF Rewritten
  <2> QED
    BY <1>2, <2>1, <2>2, RewrittenHome
<1>4. r \in FrameState /\ r.pc = "pauseSave" /\ r.proj = currentProjectId
  BY <1>1, IdleIsState, CallFields DEF Awaits
<1>5. frame' = [Abort(Abort(frame, currentAbortController), sweepAbortController) EXCEPT ![f] = r]
  BY DEF PauseStart
<1> HIDE DEF r
<1>6. Moves(f, r) /\ HoldsStay(f)
  BY <1>4, <1>5, AbortMoves DEF SInv, TypeOK
<1>7. Knows(r)
  BY <1>1, <1>4 DEF Knows, RunPcs, HoldPcs
<1>8. Save(f, currentProjectId, queue') /\ inflight' \in Seq(WriteState)
  BY <1>1, <1>3, SaveAppends DEF PauseStart, SInv, TypeOK
<1>9. budget' \in [{"clicks", "cancels", "switches", "crashes", "failures"} -> Nat]
      /\ budget'.failures = budget.failures
  BY SpendIsTyped DEF PauseStart, SInv
<1>10. TypeOK'
  BY <1>3, <1>6, <1>8, <1>9 DEF PauseStart, SInv, TypeOK, Moves, history
<1>11. r.pc \notin LoadPcs
  BY <1>4 DEF LoadPcs
<1>12. StepKeepsHome(f, r)
  BY <1>1, <1>3, <1>4, <1>6, <1>7, <1>8, <1>11 DEF PauseStart, StepKeepsHome
<1> QED
  BY <1>1, <1>2, <1>6, <1>8, <1>9, <1>10, <1>12 DEF r

LEMMA PauseEndHome ==
  ASSUME SInv, NEW f \in Frames, PauseEnd(f)
  PROVE  SInv' /\ Moves(f, IdleFrame)
<1>1. Moves(f, IdleFrame)
  BY IdleIsState, DetachMoves DEF PauseEnd, SInv, TypeOK
<1>2. TypeOK'
  BY <1>1 DEF PauseEnd, SInv, TypeOK, Moves, history
<1>3. Knows(IdleFrame) /\ IdleFrame.pc \notin SwitchPcs
  BY CallFields DEF Knows, SwitchPcs, RunPcs, HoldPcs
<1>4. \A g \in Frames : frame'[g].pc \notin SwitchPcs
  <2>1. frame[f].pc \in SwitchPcs
    BY DEF PauseEnd, Resume, SwitchPcs
  <2> QED
    BY <1>1, <1>3, <2>1 DEF SInv, OneSwitch, Moves, Same
<1>5. FramesKnow'
  BY <1>1, <1>3 DEF SInv, FramesKnow, Knows, Moves, Same
<1>6. OneSwitch' /\ LoadsIntoEmpty'
  BY <1>4 DEF OneSwitch, LoadsIntoEmpty, PauseEnd
<1>7. AtHome'
  BY DEF PauseEnd, SInv, AtHome, NoForeignTask
<1> QED
  BY <1>1, <1>2, <1>5, <1>6, <1>7 DEF SInv

LEMMA NobodySwitches ==
  ASSUME SInv, currentProjectId = NoProject, NEW g \in Frames
  PROVE  frame[g].pc \notin SwitchPcs
  BY AbsentAssumption DEF SInv, OneSwitch, FramesKnow, Knows

LEMMA RestoreStartHome ==
  ASSUME SInv, NEW f \in Frames, NEW p \in Projects, RestoreStart(f, p)
  PROVE  SInv' /\ Moves(f, Call("restoreLoad", p))
<1> DEFINE r == Call("restoreLoad", p)
<1>1. r \in FrameState /\ r.pc = "restoreLoad" /\ r.proj = p
  BY IdleIsState, CallFields DEF Awaits
<1>2. Moves(f, r)
  BY <1>1, DetachMoves DEF RestoreStart, SInv, TypeOK
<1> HIDE DEF r
<1>3. TypeOK'
  BY <1>2 DEF RestoreStart, SInv, TypeOK, Moves, history
<1>4. Knows(r)
  BY <1>1 DEF Knows, RunPcs, HoldPcs
<1>5. \A g \in Frames : frame'[g].pc \in SwitchPcs => g = f
  BY <1>2, NobodySwitches DEF RestoreStart, Moves, Same
<1>6. FramesKnow'
  BY <1>2, <1>4 DEF SInv, FramesKnow, Knows, Moves, Same
<1>7. OneSwitch' /\ LoadsIntoEmpty'
  BY <1>1, <1>2, <1>5 DEF OneSwitch, LoadsIntoEmpty, RestoreStart, Moves
<1>8. AtHome'
  BY DEF RestoreStart, SInv, AtHome, NoForeignTask
<1> QED
  BY <1>2, <1>3, <1>6, <1>7, <1>8 DEF SInv, r

ReadFrame(f, read) == [frame[f] EXCEPT !.pc = "restoreLoaded", !.loaded = read]

LEMMA RestoreReadHome ==
  ASSUME SInv, NEW f \in Frames, RestoreRead(f)
  PROVE  \E r \in FrameState :
           /\ TypeOK' /\ StepKeepsHome(f, r) /\ HoldsStay(f)
           /\ frame[f].pc = "restoreLoad" /\ r.pc = "restoreLoaded" /\ r.proj = frame[f].proj
           /\ r.adds = frame[f].adds /\ r.drops = frame[f].drops
           /\ \/ disk[r.proj] # Torn /\ r.loaded = disk[r.proj]
              \/ r.loaded = frame[f].loaded
                 /\ (disk[r.proj] = Torn \/ \E i \in DOMAIN inflight : inflight[i].file = r.proj)
<1> DEFINE p == frame[f].proj
<1>1. frame[f] \in FrameState /\ frame[f].pc = "restoreLoad"
  BY DEF SInv, TypeOK, RestoreRead
<1>2. p \in Projects /\ p = currentProjectId
  BY <1>1 DEF SInv, FramesKnow, OneSwitch, Knows, SwitchPcs
<1>3. PICK r : /\ frame' = [frame EXCEPT ![f] = r]
               /\ \/ disk[p] # Torn /\ r = ReadFrame(f, disk[p])
                  \/ r = MovedOn(f, "restoreLoaded")
                     /\ (disk[p] = Torn \/ \E i \in DOMAIN inflight : inflight[i].file = p)
  BY DEF RestoreRead, ReadFrame, MovedOn
<1>4. ASSUME disk[p] # Torn, r = ReadFrame(f, disk[p])
      PROVE  /\ r \in FrameState /\ r.pc = "restoreLoaded" /\ r.proj = p
             /\ r.adds = frame[f].adds /\ r.drops = frame[f].drops /\ r.loaded = disk[p]
  <2>1. disk[p] \in SUBSET TaskRecord
    BY <1>2, <1>4 DEF SInv, TypeOK
  <2> QED
    BY <1>1, <1>4, <2>1 DEF ReadFrame, FrameState, Awaits
<1>5. ASSUME r = MovedOn(f, "restoreLoaded")
      PROVE  /\ r \in FrameState /\ r.pc = "restoreLoaded" /\ r.proj = p
             /\ r.adds = frame[f].adds /\ r.drops = frame[f].drops /\ r.loaded = frame[f].loaded
  BY <1>5, MovedOnFields DEF Awaits
<1>6. /\ r \in FrameState /\ r.pc = "restoreLoaded" /\ r.proj = p
      /\ r.adds = frame[f].adds /\ r.drops = frame[f].drops
      /\ \/ disk[p] # Torn /\ r.loaded = disk[p]
         \/ r.loaded = frame[f].loaded
            /\ (disk[p] = Torn \/ \E i \in DOMAIN inflight : inflight[i].file = p)
  BY <1>3, <1>4, <1>5
<1>7. Moves(f, r) /\ HoldsStay(f)
  BY <1>3, <1>6, UpdateMoves DEF SInv, TypeOK
<1>8. TypeOK'
  BY <1>7 DEF RestoreRead, SInv, TypeOK, Moves, memory, history
<1>9. Knows(r)
  BY <1>2, <1>6 DEF Knows, RunPcs, HoldPcs
<1>10. StepKeepsHome(f, r)
  BY <1>1, <1>2, <1>6, <1>7, <1>9
  DEF RestoreRead, StepKeepsHome, memory, LoadPcs, SwitchPcs, SInv, AtHome, NoForeignTask
<1> QED
  BY <1>1, <1>6, <1>7, <1>8, <1>10

\* What restoreQueue takes of the file.
Restored(f) == {t \in frame[f].loaded : t.proj = frame[f].proj}

LEMMA RestoreLoadedHome ==
  ASSUME SInv, NEW f \in Frames, RestoreLoaded(f)
  PROVE  /\ frame[f].pc = "restoreLoaded" /\ frame[f].proj = currentProjectId /\ currentProjectId \in Projects
         /\ \E r \in FrameState :
              /\ TypeOK' /\ StepKeepsHome(f, r)
              /\ \/ /\ frame[f].loaded = {} /\ r = IdleFrame /\ HoldsStay(f) /\ queue' = queue
                    /\ inflight' = inflight
                 \/ /\ r.pc = "restoreSave" /\ r.proj = currentProjectId
                    /\ r.adds = frame[f].adds /\ r.drops = frame[f].drops /\ r.loaded = frame[f].loaded
                    /\ Rewritten(Restored(f), queue') /\ queue' = ToPending(Restored(f))
                    /\ Save(f, currentProjectId, queue')
<1>1. frame[f] \in FrameState /\ frame[f].pc = "restoreLoaded"
  BY DEF SInv, TypeOK, RestoreLoaded
<1>2. frame[f].proj \in Projects /\ frame[f].proj = currentProjectId
  BY <1>1 DEF SInv, FramesKnow, OneSwitch, Knows, SwitchPcs
<1>3. CASE frame[f].loaded = {}
  <2>1. frame' = [frame EXCEPT ![f] = IdleFrame] /\ queue' = queue /\ inflight' = inflight
    BY <1>3 DEF RestoreLoaded
  <2>2. Moves(f, IdleFrame) /\ HoldsStay(f) /\ Knows(IdleFrame)
    BY <2>1, IdleMoves
  <2>3. TypeOK'
    BY <2>1, <2>2 DEF RestoreLoaded, SInv, TypeOK, Moves, history
  <2>4. IdleFrame.pc \notin SwitchPcs /\ IdleFrame.pc \notin LoadPcs
    BY CallFields DEF SwitchPcs, LoadPcs
  <2>5. StepKeepsHome(f, IdleFrame)
    BY <2>1, <2>2, <2>4 DEF RestoreLoaded, StepKeepsHome, SInv, AtHome, NoForeignTask
  <2> QED
    BY <1>1, <1>2, <1>3, <2>1, <2>2, <2>3, <2>5, IdleIsState
<1>4. CASE frame[f].loaded # {}
  <2> DEFINE r == [Detached[f] EXCEPT !.pc = "restoreSave"]
  <2>1. /\ queue' = ToPending(Restored(f)) /\ frame' = [Detached EXCEPT ![f] = r]
        /\ Save(f, currentProjectId, queue')
    BY <1>2, <1>4 DEF RestoreLoaded, Restored
  <2>2. /\ r \in FrameState /\ r.pc = "restoreSave" /\ r.proj = frame[f].proj
        /\ r.adds = frame[f].adds /\ r.drops = frame[f].drops /\ r.loaded = frame[f].loaded
    <3>1. r = [[frame[f] EXCEPT !.attached = FALSE] EXCEPT !.pc = "restoreSave"]
      BY DEF Detached
    <3> HIDE DEF r
    <3> QED
      BY <1>1, <3>1 DEF FrameState, Awaits
  <2> HIDE DEF r
  <2>3. Moves(f, r)
    BY <2>1, <2>2, DetachMoves DEF SInv, TypeOK
  <2>4. Restored(f) \subseteq TaskRecord /\ \A t \in Restored(f) : t.proj = currentProjectId
    BY <1>1, <1>2 DEF Restored, FrameState
  <2>5. Rewritten(Restored(f), queue')
    BY <2>1, <2>4, ToPendingRewrites
  <2>6. queue' \subseteq TaskRecord /\ \A t \in queue' : t.proj = currentProjectId
    BY <2>4, <2>5, RewrittenHome DEF Rewritten
  <2>7. inflight' \in Seq(WriteState)
    BY <1>2, <2>1, <2>6, SaveAppends DEF SInv, TypeOK
  <2>8. TypeOK'
    BY <2>3, <2>6, <2>7 DEF RestoreLoaded, SInv, TypeOK, Moves, history
  <2>9. Knows(r) /\ r.pc \notin LoadPcs /\ frame[f].pc \in SwitchPcs
    BY <1>1, <1>2, <2>2 DEF Knows, RunPcs, HoldPcs, LoadPcs, SwitchPcs
  <2>10. StepKeepsHome(f, r)
    BY <1>2, <2>1, <2>2, <2>3, <2>6, <2>9 DEF RestoreLoaded, StepKeepsHome
  <2> QED
    BY <1>1, <1>2, <2>1, <2>2, <2>5, <2>8, <2>10
<1> QED
  BY <1>3, <1>4

-----------------------------------------------------------------------------
(***************************************************************************)
(* The file system and the process.                                        *)
(***************************************************************************)
\* Where the writes that stay in flight were before, and are after, the i-th
\* has ended.
Was(i, k) == IF k < i THEN k ELSE k + 1
Becomes(i, k) == IF k < i THEN k ELSE k - 1

LEMMA WriteTaken ==
  ASSUME inflight \in Seq(WriteState), NEW i, WriteEnds(i)
  PROVE  /\ i \in DOMAIN inflight /\ DOMAIN inflight \subseteq Nat /\ DOMAIN inflight' \subseteq Nat
         /\ inflight' \in Seq(WriteState)
         /\ \A k \in DOMAIN inflight' : /\ Was(i, k) \in DOMAIN inflight \ {i}
                                        /\ inflight'[k] = inflight[Was(i, k)]
         /\ \A k \in DOMAIN inflight \ {i} : /\ Becomes(i, k) \in DOMAIN inflight'
                                             /\ inflight'[Becomes(i, k)] = inflight[k]
         /\ \A j, k \in DOMAIN inflight' : j < k => Was(i, j) < Was(i, k)
         /\ \A j, k \in DOMAIN inflight \ {i} : j < k => Becomes(i, j) < Becomes(i, k)
         /\ \A k \in DOMAIN inflight' : Becomes(i, Was(i, k)) = k
<1> DEFINE n == Len(inflight)
<1>1. i \in 1..n /\ DOMAIN inflight = 1..n /\ n \in Nat
  BY LenProperties DEF WriteEnds
<1>2. /\ inflight' \in Seq(WriteState) /\ Len(inflight') = n - 1
      /\ \A k \in 1..(n - 1) : inflight'[k] = IF k < i THEN inflight[k] ELSE inflight[k + 1]
  <2>1. inflight' = SubSeq(inflight, 1, i - 1) \o SubSeq(inflight, i + 1, Len(inflight))
    BY DEF WriteEnds
  <2> QED
    BY ONLY ZenonT(60), <1>1, <2>1, TakeOut, inflight \in Seq(WriteState)
<1>3. DOMAIN inflight' = 1..(n - 1)
  BY <1>2, LenProperties
<1> HIDE DEF n
<1>4. ASSUME NEW k \in 1..(n - 1)
      PROVE  /\ Was(i, k) \in (1..n) \ {i} /\ inflight'[k] = inflight[Was(i, k)]
             /\ Becomes(i, Was(i, k)) = k
  BY <1>1, <1>2 DEF Was, Becomes
<1>5. ASSUME NEW k \in (1..n) \ {i}
      PROVE  Becomes(i, k) \in 1..(n - 1) /\ inflight'[Becomes(i, k)] = inflight[k]
  <2>1. CASE k < i
    BY <1>1, <1>2, <2>1 DEF Becomes
  <2>2. CASE ~(k < i)
    <3>1. k - 1 \in 1..(n - 1) /\ ~(k - 1 < i) /\ (k - 1) + 1 = k
      BY <1>1, <2>2
    <3> QED
      BY <1>2, <2>2, <3>1 DEF Becomes
  <2> QED
    BY <2>1, <2>2
<1>6. \A j, k \in 1..(n - 1) : j < k => Was(i, j) < Was(i, k)
  BY <1>1 DEF Was
<1>7. \A j, k \in (1..n) \ {i} : j < k => Becomes(i, j) < Becomes(i, k)
  BY <1>1 DEF Becomes
<1> QED
  BY <1>1, <1>2, <1>3, <1>4, <1>5, <1>6, <1>7, SMTT(30)

LEMMA FileStepsHome ==
  ASSUME SInv, NEW i, Land(i) \/ WriteFails(i)
  PROVE  SInv'
<1>1. WriteEnds(i) /\ UNCHANGED <<queue, processing, currentProjectId, frame, issued, owner>>
  BY DEF Land, WriteFails, WriteEnds, memory, history
<1>2. inflight \in Seq(WriteState)
  BY DEF SInv, TypeOK
<1>3. /\ i \in DOMAIN inflight /\ inflight' \in Seq(WriteState)
      /\ \A k \in DOMAIN inflight' : /\ Was(i, k) \in DOMAIN inflight \ {i}
                                     /\ inflight'[k] = inflight[Was(i, k)]
  BY <1>1, <1>2, WriteTaken
<1>4. inflight[i] \in WriteState
  BY <1>2, <1>3
<1>5. /\ disk' \in [Projects -> {Torn} \cup SUBSET TaskRecord]
      /\ budget' \in [{"clicks", "cancels", "switches", "crashes", "failures"} -> Nat]
      /\ disk' = disk \/ disk' = [disk EXCEPT ![inflight[i].file] = inflight[i].content]
  BY <1>4, SpendIsTyped DEF Land, WriteFails, SInv, TypeOK, WriteState
<1>6. TypeOK'
  BY <1>1, <1>3, <1>5 DEF WriteEnds, SInv, TypeOK, memory, history
<1>7. FramesKnow' /\ OneSwitch' /\ LoadsIntoEmpty'
  BY <1>1 DEF SInv, FramesKnow, OneSwitch, LoadsIntoEmpty
<1>8. inflight[i].file \in Projects /\ \A t \in inflight[i].content : t.proj = inflight[i].file
  BY <1>3, <1>4 DEF SInv, AtHome, WriteState
<1>9. NoForeignTask'
  <2>1. \A t \in queue' : t.proj = currentProjectId'
    BY <1>1 DEF SInv, AtHome, NoForeignTask
  <2>2. ASSUME NEW p \in Projects, disk'[p] # Torn, NEW t \in disk'[p] PROVE t.proj = p
    <3>1. disk'[p] = disk[p] \/ (p = inflight[i].file /\ disk'[p] = inflight[i].content)
      BY <1>5, <1>8 DEF SInv, TypeOK
    <3> QED
      BY <1>8, <2>2, <3>1 DEF SInv, AtHome, NoForeignTask
  <2> QED
    BY <2>1, <2>2 DEF NoForeignTask
<1>10. AtHome'
  BY <1>3, <1>9 DEF SInv, AtHome
<1> QED
  BY <1>6, <1>7, <1>10 DEF SInv

LEMMA CrashHome ==
  ASSUME SInv, Crash
  PROVE  /\ SInv' /\ queue' = {} /\ processing' = FALSE /\ currentProjectId' = NoProject
         /\ inflight' = <<>> /\ frame' = [f \in Frames |-> IdleFrame]
         /\ UNCHANGED <<issued, owner, acked, dropped, closed>>
         /\ budget'.failures = budget.failures
         /\ AtomicWrites => disk' = disk
<1>1. /\ queue' = {} /\ processing' = FALSE /\ currentProjectId' = NoProject
      /\ inflight' = <<>> /\ frame' = [f \in Frames |-> IdleFrame]
      /\ UNCHANGED <<issued, owner, acked, dropped, closed>>
      /\ AtomicWrites => disk' = disk
  BY DEF Crash, history
<1>2. /\ disk' \in [Projects -> {Torn} \cup SUBSET TaskRecord]
      /\ \A p \in Projects : disk'[p] = Torn \/ disk'[p] = disk[p]
  BY DEF Crash, SInv, TypeOK
<1>3. /\ budget' \in [{"clicks", "cancels", "switches", "crashes", "failures"} -> Nat]
      /\ budget'.failures = budget.failures
  BY SpendIsTyped DEF Crash, SInv
<1>4. frame' \in [Frames -> FrameState] /\ \A f \in Frames : frame'[f].pc = "idle"
  BY <1>1, IdleIsState, CallFields
<1>5. TypeOK'
  <2>1. inflight' \in Seq(WriteState)
    BY <1>1
  <2>2. /\ currentAbortController' = NoFrame /\ sweepAbortController' = NoFrame
        /\ processedSinceDrain' = FALSE
    BY DEF Crash
  <2> QED
    BY <1>1, <1>2, <1>3, <1>4, <2>1, <2>2 DEF SInv, TypeOK
<1>6. FramesKnow' /\ OneSwitch' /\ LoadsIntoEmpty'
  BY <1>1, <1>4 DEF FramesKnow, Knows, OneSwitch, LoadsIntoEmpty, SwitchPcs, RunPcs, HoldPcs
<1>7. AtHome'
  BY <1>1, <1>2 DEF SInv, AtHome, NoForeignTask
<1> QED
  BY <1>1, <1>3, <1>5, <1>6, <1>7 DEF SInv

-----------------------------------------------------------------------------
LEMMA InitSInv == Init => SInv
<1> SUFFICES ASSUME Init PROVE SInv
  OBVIOUS
<1>1. frame \in [Frames -> FrameState] /\ \A f \in Frames : frame[f].pc = "idle"
  BY IdleIsState, CallFields DEF Init
<1>2. budget \in [{"clicks", "cancels", "switches", "crashes", "failures"} -> Nat]
  BY NumberAssumption DEF Init
<1>3. issued \in 0..MaxTasks
  BY NumberAssumption DEF Init
<1>4. inflight \in Seq(WriteState)
  BY DEF Init
<1>5. TypeOK
  <2>1. disk \in [Projects -> {Torn} \cup SUBSET TaskRecord]
    BY DEF Init
  <2>2. owner \in [Tasks -> Projects \cup {NoProject}]
    BY DEF Init
  <2>3. /\ queue \subseteq TaskRecord /\ processing \in BOOLEAN /\ processedSinceDrain \in BOOLEAN
        /\ currentProjectId \in Projects \cup {NoProject}
        /\ currentAbortController \in Frames \cup {NoFrame} /\ sweepAbortController \in Frames \cup {NoFrame}
        /\ {acked, dropped, closed} \subseteq SUBSET Tasks
    BY DEF Init
  <2> QED
    BY <1>1, <1>2, <1>3, <1>4, <2>1, <2>2, <2>3 DEF TypeOK
<1>6. FramesKnow /\ OneSwitch /\ LoadsIntoEmpty
  BY <1>1 DEF FramesKnow, Knows, OneSwitch, LoadsIntoEmpty, SwitchPcs, RunPcs, HoldPcs
<1>7. AtHome
  BY DEF Init, AtHome, NoForeignTask
<1> QED
  BY <1>5, <1>6, <1>7 DEF SInv

LEMMA UserKeepsSInv ==
  ASSUME SInv, Timing # "anytime", NEW f \in Frames, UserStep(f)
  PROVE  SInv'
<1>1. ASSUME NEW n \in 1..MaxTasks, Enqueue(f, n) PROVE SInv'
  BY <1>1, EnqueueHome, HomeIsKept
<1>2. ASSUME NEW t \in queue, retryTask(f, t) PROVE SInv'
  BY <1>2, RetryHome, HomeIsKept
<1>3. ASSUME NEW t \in queue, cancelTask(f, t) PROVE SInv'
  <2>1. {t.id} \in SUBSET Tasks
    BY DEF SInv, TypeOK, TaskRecord
  <2> QED
    BY <1>3, <2>1, CancelDrops, DropHome, HomeIsKept
<1>4. ASSUME clearCompletedTasks(f) PROVE SInv'
  <2>1. Ids(queue) \ Ids(NotFailed(queue)) \in SUBSET Tasks
    BY IdsAreTasks DEF SInv, TypeOK
  <2> QED
    BY <1>4, <2>1, ClearDrops, DropHome, HomeIsKept
<1>5. ASSUME cancelAllTasks(f) PROVE SInv'
  <2>1. Ids(queue) \ Ids(Failed(queue)) \in SUBSET Tasks
    BY IdsAreTasks DEF SInv, TypeOK
  <2> QED
    BY <1>5, <2>1, CancelAllDrops, DropHome, HomeIsKept
<1> QED
  BY <1>1, <1>2, <1>3, <1>4, <1>5 DEF UserStep

LEMMA SessionKeepsSInv ==
  ASSUME SInv, Timing # "anytime", NEW f \in Frames, SessionStep(f)
  PROVE  SInv'
<1>1. ASSUME PauseStart(f) PROVE SInv'
  BY <1>1, PauseStartHome, HomeIsKept
<1>2. ASSUME PauseEnd(f) PROVE SInv'
  BY <1>2, PauseEndHome
<1>3. ASSUME NEW p \in Projects, RestoreStart(f, p) PROVE SInv'
  BY <1>3, RestoreStartHome
<1>4. ASSUME RestoreRead(f) PROVE SInv'
  BY <1>4, RestoreReadHome, HomeIsKept
<1>5. ASSUME RestoreLoaded(f) PROVE SInv'
  BY <1>5, RestoreLoadedHome, HomeIsKept
<1>6. ASSUME RestoreSaved(f) PROVE SInv'
  BY <1>6, RestoreSavedRests, RestsHome, HomeIsKept
<1> QED
  BY <1>1, <1>2, <1>3, <1>4, <1>5, <1>6 DEF SessionStep

LEMMA RunnerKeepsSInv ==
  ASSUME SInv, NEW f \in Frames, RunnerStep(f)
  PROVE  SInv'
<1>1. ASSUME RunnerBails(f) PROVE SInv'
  BY <1>1, RunnerBailsRests, RestsHome, HomeIsKept
<1>2. ASSUME NEW r \in FrameState, RunnerSaves(f, r), Rewritten(queue, queue'), dropped' = dropped
      PROVE SInv'
  <2>1. dropped' \subseteq Tasks
    BY <1>2 DEF SInv, TypeOK
  <2> QED
    BY <1>2, <2>1, RunnerSavesHome, HomeIsKept DEF Rewritten
<1>3. ASSUME RunnerLost(f) PROVE SInv'
  BY <1>2, <1>3, RunnerLostSaves
<1>4. ASSUME RunnerStarts(f) PROVE SInv'
  BY <1>2, <1>4, RunnerStartsSaves
<1>5. ASSUME RunnerUnconfigured(f) PROVE SInv'
  BY <1>2, <1>5, RunnerUnconfiguredSaves
<1>6. ASSUME RunnerFails(f) PROVE SInv'
  BY <1>2, <1>6, RunnerFailsSaves
<1>7. ASSUME RunnerIngests(f) PROVE SInv'
  BY <1>7, RunnerIngestsRests, RestsHome, HomeIsKept
<1>8. ASSUME RunnerGoesOn(f) PROVE SInv'
  BY <1>8, RunnerGoesOnRests, RestsHome, HomeIsKept
<1>9. ASSUME RunnerSucceeds(f) PROVE SInv'
  <2>1. /\ RunnerSaves(f, DoneFrame(f)) /\ DoneFrame(f) \in FrameState
        /\ queue' = {t \in queue : t.id # frame[f].task}
        /\ frame[f].task \in Tasks /\ dropped' = dropped \cup {frame[f].task}
    BY <1>9, RunnerSucceedsSaves
  <2>2. /\ dropped' \subseteq Tasks /\ queue' \subseteq TaskRecord
        /\ \A t \in queue' : \E u \in queue : Kept(u, t)
    BY <2>1 DEF SInv, TypeOK, Kept
  <2> QED
    BY <2>1, <2>2, RunnerSavesHome, HomeIsKept
<1> QED
  BY <1>1, <1>3, <1>4, <1>5, <1>6, <1>7, <1>8, <1>9 DEF RunnerStep

LEMMA NextSInv ==
  ASSUME SInv, Timing # "anytime", [Next]_vars
  PROVE  SInv'
<1>1. ASSUME NEW f \in Frames, UserStep(f) PROVE SInv'
  BY <1>1, UserKeepsSInv
<1>2. ASSUME NEW f \in Frames, AfterOp(f) PROVE SInv'
  BY <1>2, AfterOpRests, RestsHome, HomeIsKept
<1>3. ASSUME NEW f \in Frames, SessionStep(f) PROVE SInv'
  BY <1>3, SessionKeepsSInv
<1>4. ASSUME NEW f \in Frames, RunnerStep(f) PROVE SInv'
  BY <1>4, RunnerKeepsSInv
<1>5. ASSUME NEW f \in Frames, SweepEnds(f) PROVE SInv'
  BY <1>5, SweepEndsRests, RestsHome, HomeIsKept
<1>6. ASSUME NEW i, Land(i) \/ WriteFails(i) PROVE SInv'
  BY <1>6, FileStepsHome
<1>7. ASSUME Crash PROVE SInv'
  BY <1>7, CrashHome
<1>8. ASSUME UNCHANGED vars PROVE SInv'
  BY <1>8 DEF vars, memory, history, SInv, TypeOK, FramesKnow, OneSwitch, LoadsIntoEmpty, AtHome, NoForeignTask
<1> QED
  BY <1>1, <1>2, <1>3, <1>4, <1>5, <1>6, <1>7, <1>8 DEF Next

\* The array, the flags, the calls and the files keep their types, and no list
\* of tasks, in memory, on its way to a file or in it, holds a task of another
\* project, however calls, switches and crashes overlap, as long as the
\* user's calls keep out of a switch (ingest-queue.ts).
THEOREM TasksStayHome ==
  ASSUME Timing # "anytime"
  PROVE  Spec => [](TypeOK /\ NoForeignTask)
<1>1. Init => SInv
  BY InitSInv
<1>2. SInv /\ [Next]_vars => SInv'
  BY NextSInv
<1>3. SInv => TypeOK /\ NoForeignTask
  BY DEF SInv, AtHome
<1> QED
  BY <1>1, <1>2, <1>3, PTL DEF Spec

-----------------------------------------------------------------------------
(***************************************************************************)
(* A runner of a project that was left touches nothing.                    *)
(***************************************************************************)
LEMMA OrphanStepsQuietly ==
  ASSUME SInv, Timing # "anytime", [Next]_vars, NEW f \in Frames, OrphanSteps(f)
  PROVE  UNCHANGED <<queue, inflight, disk>>
<1>1. /\ frame[f].pc \in RunPcs /\ frame[f].proj # currentProjectId /\ frame'[f].pc # frame[f].pc
      /\ currentProjectId # NoProject /\ currentProjectId' = currentProjectId
  BY DEF OrphanSteps, RunPcs, HoldPcs
<1>2. ASSUME NEW g \in Frames, NEW r, Moves(g, r) PROVE g = f
  BY <1>1, <1>2 DEF Moves, Same
<1>3. ASSUME NEW g \in Frames, NEW r, StepKeepsHome(g, r) PROVE g = f
  BY <1>2, <1>3 DEF StepKeepsHome
<1>4. ASSUME NEW g \in Frames, UserStep(g) PROVE FALSE
  <2>1. g = f
    <3>1. ASSUME NEW n \in 1..MaxTasks, Enqueue(g, n) PROVE g = f
      BY <1>3, <3>1, EnqueueHome
    <3>2. ASSUME NEW t \in queue, retryTask(g, t) PROVE g = f
      BY <1>3, <3>2, RetryHome
    <3>3. ASSUME NEW q, NEW pc \in {"saveOp", "saveOnly"}, NEW gone \in SUBSET Tasks, Drop(g, pc, q, gone)
          PROVE  g = f
      BY <1>3, <3>3, DropHome
    <3>4. ASSUME NEW t \in queue, cancelTask(g, t) PROVE g = f
      <4>1. {t.id} \in SUBSET Tasks
        BY DEF SInv, TypeOK, TaskRecord
      <4> QED
        BY <3>3, <3>4, <4>1, CancelDrops
    <3>5. ASSUME clearCompletedTasks(g) PROVE g = f
      <4>1. Ids(queue) \ Ids(NotFailed(queue)) \in SUBSET Tasks
        BY IdsAreTasks DEF SInv, TypeOK
      <4> QED
        BY <3>3, <3>5, <4>1, ClearDrops
    <3>6. ASSUME cancelAllTasks(g) PROVE g = f
      <4>1. Ids(queue) \ Ids(Failed(queue)) \in SUBSET Tasks
        BY IdsAreTasks DEF SInv, TypeOK
      <4> QED
        BY <3>3, <3>6, <4>1, CancelAllDrops
    <3> QED
      BY <1>4, <3>1, <3>2, <3>4, <3>5, <3>6 DEF UserStep
  <2>2. frame[g].pc = "idle"
    BY <1>4, CallFields
    DEF UserStep, Enqueue, retryTask, cancelTask, clearCompletedTasks, cancelAllTasks, FreeFrame
  <2> QED
    BY <1>1, <2>1, <2>2 DEF RunPcs, HoldPcs
<1>5. ASSUME NEW g \in Frames, AfterOp(g) PROVE UNCHANGED <<queue, inflight, disk>>
  BY <1>5 DEF AfterOp
<1>6. ASSUME NEW g \in Frames, SessionStep(g) PROVE UNCHANGED <<queue, inflight, disk>>
  <2>1. ASSUME PauseStart(g) PROVE FALSE
    <3>1. g = f
      BY <1>3, <2>1, PauseStartHome
    <3>2. frame[g].pc = "idle"
      BY <2>1, CallFields DEF PauseStart, FreeFrame
    <3> QED
      BY <1>1, <3>1, <3>2 DEF RunPcs, HoldPcs
  <2>2. ~PauseEnd(g)
    BY <1>1 DEF PauseEnd
  <2>3. ASSUME NEW p \in Projects, RestoreStart(g, p) PROVE FALSE
    BY <1>1, <2>3 DEF RestoreStart
  <2>4. ASSUME RestoreRead(g) PROVE UNCHANGED <<queue, inflight, disk>>
    BY <2>4 DEF RestoreRead, memory
  <2>5. ASSUME RestoreLoaded(g) PROVE FALSE
    <3>1. g = f
      BY <1>3, <2>5, RestoreLoadedHome
    <3> QED
      BY <1>1, <2>5, <3>1 DEF RestoreLoaded, RunPcs, HoldPcs
  <2>6. ASSUME RestoreSaved(g) PROVE UNCHANGED <<queue, inflight, disk>>
    BY <2>6 DEF RestoreSaved
  <2> QED
    BY <1>6, <2>1, <2>2, <2>3, <2>4, <2>5, <2>6 DEF SessionStep
<1>7. ASSUME NEW g \in Frames, RunnerStep(g) PROVE UNCHANGED <<queue, inflight, disk>>
  <2>1. ASSUME NEW r \in FrameState, RunnerSaves(g, r) PROVE FALSE
    <3>1. Moves(g, r)
      BY <2>1, UpdateMoves DEF RunnerSaves, SInv, TypeOK
    <3> QED
      BY <1>1, <1>2, <2>1, <3>1 DEF RunnerSaves
  <2>2. ~RunnerLost(g) /\ ~RunnerStarts(g) /\ ~RunnerUnconfigured(g) /\ ~RunnerFails(g) /\ ~RunnerSucceeds(g)
    BY <2>1, RunnerLostSaves, RunnerStartsSaves, RunnerUnconfiguredSaves, RunnerFailsSaves, RunnerSucceedsSaves
  <2>3. RunnerBails(g) \/ RunnerIngests(g) \/ RunnerGoesOn(g)
    BY <1>7, <2>2 DEF RunnerStep
  <2> QED
    BY <2>3 DEF RunnerBails, RunnerIngests, RunnerGoesOn, memory
<1>8. ASSUME NEW g \in Frames, SweepEnds(g) PROVE UNCHANGED <<queue, inflight, disk>>
  BY <1>8 DEF SweepEnds
<1>9. ASSUME NEW i, Land(i) \/ WriteFails(i) PROVE FALSE
  BY <1>1, <1>9 DEF Land, WriteFails, WriteEnds
<1>10. ~Crash
  BY <1>1 DEF Crash
<1>11. ASSUME UNCHANGED vars PROVE FALSE
  BY <1>1, <1>11 DEF vars
<1> QED
  BY <1>4, <1>5, <1>6, <1>7, <1>8, <1>9, <1>10, <1>11 DEF Next

\* A runner whose project was left for another one, however far it had come,
\* neither changes the list of the project now open nor writes or is about to
\* write a queue file: the guards of processNext after each await see to it.
THEOREM OrphansLeaveTasksAlone ==
  ASSUME Timing # "anytime"
  PROVE  Spec => OrphanLeavesTasksAlone
<1>1. Init => SInv
  BY InitSInv
<1>2. SInv /\ [Next]_vars => SInv'
  BY NextSInv
<1>3. SInv /\ [Next]_vars => [\A f \in Frames : OrphanSteps(f) => UNCHANGED <<queue, inflight, disk>>]_vars
  BY OrphanStepsQuietly
<1> QED
  BY <1>1, <1>2, <1>3, PTL DEF Spec, OrphanLeavesTasksAlone

-----------------------------------------------------------------------------
(***************************************************************************)
(* The queue never falls asleep over work.                                 *)
(***************************************************************************)
LEMMA BusyIsKept ==
  ASSUME SInv, LInv, NEW f \in Frames, NEW r, Moves(f, r), HoldsStay(f), currentProjectId' = currentProjectId,
         processing' /\ currentProjectId # NoProject => BusyFor(r) \/ (processing /\ ~BusyFor(frame[f])),
         \A t \in queue' : t.status = "processing" =>
           \/ HoldsTask(r, t)
           \/ \E u \in queue : u.status = "processing" /\ u.id = t.id /\ ~HoldsTask(frame[f], u),
         \/ DrivesOn(r)
         \/ \A t \in queue' : t.status # "pending"
         \/ ~DrivesOn(frame[f]) /\ \A t \in queue' : t.status = "pending" => t \in queue
         \/ \E g \in Frames \ {f} : DrivesOn(frame[g])
  PROVE  LInv'
<1> USE DEF LInv, Moves
<1>1. SomeoneIsBusy'
  BY DEF SomeoneIsBusy, BusyFor, Same
<1>2. MarkedTasksAreHeld'
  BY DEF MarkedTasksAreHeld, HoldsTask, HoldsStay, Hold, Same
<1>3. PendingTasksAreDriven'
  BY DEF PendingTasksAreDriven, DrivesOn, Same
<1> QED
  BY <1>1, <1>2, <1>3

\* The same, when the call only moves on.
LEMMA RestIsKept ==
  ASSUME SInv, LInv, NEW f \in Frames, NEW r, Rests(f, r),
         processing' /\ currentProjectId # NoProject => BusyFor(r) \/ (processing /\ ~BusyFor(frame[f])),
         r.pc = "ingest" \/ frame[f].pc \notin {"saveStart", "ingest"} \/ frame[f].proj # currentProjectId,
         \/ DrivesOn(r)
         \/ \A t \in queue : t.status # "pending"
         \/ ~DrivesOn(frame[f])
         \/ \E g \in Frames \ {f} : DrivesOn(frame[g])
  PROVE  LInv'
<1>1. Moves(f, r) /\ HoldsStay(f) /\ currentProjectId' = currentProjectId /\ queue' = queue
  BY DEF Rests
<1>2. \A t \in queue : ~HoldsTask(frame[f], t) \/ HoldsTask(r, t)
  BY DEF HoldsTask, Rests
<1>3. \A t \in queue' : t.status = "processing" =>
        \/ HoldsTask(r, t)
        \/ \E u \in queue : u.status = "processing" /\ u.id = t.id /\ ~HoldsTask(frame[f], u)
  BY <1>1, <1>2
<1>4. \/ DrivesOn(r)
      \/ \A t \in queue' : t.status # "pending"
      \/ ~DrivesOn(frame[f]) /\ \A t \in queue' : t.status = "pending" => t \in queue
      \/ \E g \in Frames \ {f} : DrivesOn(frame[g])
  BY <1>1
<1> QED
  BY <1>1, <1>3, <1>4, BusyIsKept

\* When processNext has nothing to do for the open project, somebody else has,
\* or nothing is pending.
LEMMA ProceedingKeepsLInv ==
  ASSUME SInv, LInv, NEW f \in Frames, NEW r, Rests(f, r), Proceeds(f, currentProjectId, processing', r),
         processing' => processing, frame[f].pc \notin {"saveStart", "ingest"},
         processing' => ~BusyFor(frame[f])
  PROVE  LInv'
<1>1. CASE processing' /\ currentProjectId # NoProject
  <2>1. PICK g \in Frames : BusyFor(frame[g])
    BY <1>1 DEF LInv, SomeoneIsBusy
  <2>2. g # f /\ DrivesOn(frame[g])
    BY <1>1, <2>1 DEF BusyFor, DrivesOn, RunPcs, HoldPcs
  <2> QED
    BY <1>1, <2>2, RestIsKept
<1>2. CASE currentProjectId = NoProject
  <2>1. queue = {}
    BY <1>2, AbsentAssumption DEF SInv, AtHome, NoForeignTask, TypeOK, TaskRecord
  <2> QED
    BY <1>2, <2>1, RestIsKept
<1>3. CASE ~processing' /\ currentProjectId # NoProject
  <2>1. CASE r.pc = "registry"
    <3>1. DrivesOn(r)
      BY <2>1 DEF Rests, DrivesOn, RunPcs, HoldPcs
    <3> QED
      BY <1>3, <3>1, RestIsKept
  <2>2. CASE r.pc # "registry"
    <3>1. Pending(queue, currentProjectId) = {}
      BY <1>3, <2>2 DEF Proceeds, RegistryFrame, Call, IdleFrame
    <3>2. \A t \in queue : t.status # "pending"
      BY <3>1 DEF Pending, SInv, AtHome, NoForeignTask
    <3> QED
      BY <1>3, <3>2, RestIsKept
  <2> QED
    BY <2>1, <2>2
<1> QED
  BY <1>1, <1>2, <1>3

\* A user's call holds no task, and is not busy.
LEMMA IdleIsNobody ==
  ASSUME SInv, NEW f \in Frames, FreeFrame(f)
  PROVE  /\ ~BusyFor(frame[f]) /\ ~DrivesOn(frame[f]) /\ \A t \in queue : ~HoldsTask(frame[f], t)
         /\ frame[f].pc = "idle"
  BY CallFields DEF FreeFrame, BusyFor, DrivesOn, HoldsTask, SwitchPcs, RunPcs, HoldPcs

LEMMA DropShrinks ==
  ASSUME NEW f \in Frames, NEW pc, NEW q, NEW gone, Drop(f, pc, q, gone)
  PROVE  FreeFrame(f) /\ currentProjectId' = currentProjectId /\ queue' \subseteq queue /\ (processing' => processing)
<1>1. processing' => processing
  <2>1. processing' = FALSE \/ processing' = processing
    BY DEF Drop
  <2> QED
    BY <2>1, Zenon
<1> QED
  BY <1>1 DEF Drop

LEMMA UserKeepsLInv ==
  ASSUME SInv, LInv, Timing # "anytime", NEW f \in Frames, UserStep(f)
  PROVE  LInv'
<1>1. ASSUME NEW n \in 1..MaxTasks, Enqueue(f, n) PROVE LInv'
  <2>1. Moves(f, EnqueueFrame(n)) /\ HoldsStay(f) /\ currentProjectId' = currentProjectId
    BY <1>1, EnqueueHome DEF StepKeepsHome
  <2>2. DrivesOn(EnqueueFrame(n))
    BY OpFields DEF EnqueueFrame, DrivesOn
  <2>3. FreeFrame(f) /\ processing' = processing
        /\ \A t \in queue' : t \in queue \/ t.status = "pending"
    BY <1>1 DEF Enqueue, NewTask
  <2> QED
    BY <2>1, <2>2, <2>3, IdleIsNobody, BusyIsKept
<1>2. ASSUME NEW t \in queue, retryTask(f, t) PROVE LInv'
  <2>1. Moves(f, Call("saveOp", NoProject)) /\ HoldsStay(f) /\ currentProjectId' = currentProjectId
    BY <1>2, RetryHome DEF StepKeepsHome
  <2>2. DrivesOn(Call("saveOp", NoProject))
    BY CallFields DEF DrivesOn
  <2>3. t \in TaskRecord
    BY DEF SInv, TypeOK
  <2>4. FreeFrame(f) /\ processing' = processing
        /\ \A u \in queue' : u \in queue \/ u.status = "pending"
    BY <1>2, <2>3, TaskUpdates DEF retryTask
  <2> QED
    BY <2>1, <2>2, <2>4, IdleIsNobody, BusyIsKept
<1>3. ASSUME NEW t \in queue, cancelTask(f, t) PROVE LInv'
  <2>1. {t.id} \in SUBSET Tasks
    BY DEF SInv, TypeOK, TaskRecord
  <2>2. Drop(f, "saveOp", queue \ {t}, {t.id})
    BY <1>3, CancelDrops
  <2>3. Moves(f, DropFrame("saveOp", {t.id})) /\ HoldsStay(f)
    BY <2>1, <2>2, DropHome DEF StepKeepsHome
  <2>4. DrivesOn(DropFrame("saveOp", {t.id}))
    BY OpFields DEF DropFrame, DrivesOn
  <2>5. FreeFrame(f) /\ currentProjectId' = currentProjectId /\ queue' \subseteq queue /\ (processing' => processing)
    BY <2>2, DropShrinks
  <2> QED
    BY <2>3, <2>4, <2>5, IdleIsNobody, BusyIsKept
<1>4. ASSUME clearCompletedTasks(f) PROVE LInv'
  <2> DEFINE gone == Ids(queue) \ Ids(NotFailed(queue))
  <2>1. gone \in SUBSET Tasks
    BY IdsAreTasks DEF SInv, TypeOK
  <2>2. Drop(f, "saveOnly", NotFailed(queue), gone)
    BY <1>4, ClearDrops
  <2>3. Moves(f, DropFrame("saveOnly", gone)) /\ HoldsStay(f)
    BY <2>1, <2>2, DropHome DEF StepKeepsHome
  <2>4. FreeFrame(f) /\ currentProjectId' = currentProjectId /\ queue' \subseteq queue /\ (processing' => processing)
    BY <2>2, DropShrinks
  <2> QED
    BY <2>3, <2>4, IdleIsNobody, BusyIsKept
<1>5. ASSUME cancelAllTasks(f) PROVE LInv'
  <2> DEFINE gone == Ids(queue) \ Ids(Failed(queue))
  <2>1. gone \in SUBSET Tasks
    BY IdsAreTasks DEF SInv, TypeOK
  <2>2. Drop(f, "saveOnly", Failed(queue), gone)
    BY <1>5, CancelAllDrops
  <2>3. Moves(f, DropFrame("saveOnly", gone)) /\ HoldsStay(f)
    BY <2>1, <2>2, DropHome DEF StepKeepsHome
  <2>4. FreeFrame(f) /\ currentProjectId' = currentProjectId /\ queue' \subseteq queue /\ (processing' => processing)
    BY <2>2, DropShrinks
  <2> QED
    BY <2>3, <2>4, IdleIsNobody, BusyIsKept
<1> QED
  BY <1>1, <1>2, <1>3, <1>4, <1>5 DEF UserStep

LEMMA SwitchersAreNobody ==
  ASSUME NEW fr, fr.pc \in SwitchPcs
  PROVE  ~BusyFor(fr) /\ DrivesOn(fr) /\ \A t : ~HoldsTask(fr, t)
  BY DEF SwitchPcs, BusyFor, DrivesOn, HoldsTask

LEMMA SessionKeepsLInv ==
  ASSUME SInv, LInv, Timing # "anytime", NEW f \in Frames, SessionStep(f)
  PROVE  LInv'
<1>1. ASSUME PauseStart(f) PROVE LInv'
  <2> DEFINE r == Call("pauseSave", currentProjectId)
  <2>1. /\ Moves(f, r) /\ HoldsStay(f) /\ currentProjectId' = currentProjectId
        /\ queue' = ToPending(queue)
    BY <1>1, PauseStartHome DEF StepKeepsHome
  <2>2. \A t \in queue' : t.status # "processing"
    BY <2>1, ToPendingRewrites DEF SInv, TypeOK
  <2>3. r.pc \in SwitchPcs
    BY CallFields DEF SwitchPcs
  <2>4. FreeFrame(f) /\ processing' = FALSE
    BY <1>1 DEF PauseStart
  <2> HIDE DEF r
  <2> QED
    BY <2>1, <2>2, <2>3, <2>4, SwitchersAreNobody, BusyIsKept
<1>2. ASSUME PauseEnd(f) PROVE LInv'
  BY <1>2 DEF PauseEnd, LInv, SomeoneIsBusy, MarkedTasksAreHeld, PendingTasksAreDriven
<1>3. ASSUME NEW p \in Projects, RestoreStart(f, p) PROVE LInv'
  BY <1>3 DEF RestoreStart, LInv, SomeoneIsBusy, MarkedTasksAreHeld, PendingTasksAreDriven
<1>4. ASSUME RestoreRead(f) PROVE LInv'
  <2>1. PICK r : Moves(f, r) /\ HoldsStay(f) /\ frame[f].pc \in SwitchPcs /\ r.pc \in SwitchPcs
    BY <1>4, RestoreReadHome DEF StepKeepsHome, SwitchPcs
  <2>2. UNCHANGED <<queue, processing, currentProjectId>>
    BY <1>4 DEF RestoreRead, memory
  <2> QED
    BY <2>1, <2>2, SwitchersAreNobody, BusyIsKept
<1>5. ASSUME RestoreLoaded(f) PROVE LInv'
  <2>1. frame[f].pc = "restoreLoaded" /\ UNCHANGED <<processing, currentProjectId>>
    BY <1>5 DEF RestoreLoaded
  <2>2. queue = {} /\ frame[f].pc \in SwitchPcs
    BY <2>1 DEF SInv, LoadsIntoEmpty, SwitchPcs
  <2>3. PICK r : /\ StepKeepsHome(f, r)
                 /\ \/ r = IdleFrame /\ queue' = queue
                    \/ r.pc = "restoreSave" /\ queue' = ToPending(Restored(f)) /\ Restored(f) \in SUBSET TaskRecord
    <3>1. Restored(f) \in SUBSET TaskRecord
      BY DEF Restored, SInv, TypeOK, FrameState
    <3> QED
      BY <1>5, <3>1, RestoreLoadedHome
  <2>4. \A t \in queue' : t.status # "processing"
    BY <2>2, <2>3, ToPendingRewrites
  <2>5. ~BusyFor(frame[f])
    BY <2>2, SwitchersAreNobody
  <2>6. SomeoneIsBusy' /\ MarkedTasksAreHeld'
    BY <2>1, <2>3, <2>4, <2>5
    DEF LInv, SomeoneIsBusy, MarkedTasksAreHeld, StepKeepsHome, Moves, Same, BusyFor
  <2>7. PendingTasksAreDriven'
    BY <2>2, <2>3 DEF PendingTasksAreDriven, DrivesOn, SwitchPcs, StepKeepsHome, Moves
  <2> QED
    BY <2>6, <2>7 DEF LInv
<1>6. ASSUME RestoreSaved(f) PROVE LInv'
  <2>1. /\ frame[f].pc = "restoreSave" /\ processing' = processing
        /\ ~BusyFor(frame[f]) /\ frame[f].pc \notin {"saveStart", "ingest"}
    BY <1>6 DEF RestoreSaved, Resume, BusyFor
  <2>2. PICK r \in FrameState :
          /\ Rests(f, r)
          /\ Proceeds(f, currentProjectId, processing, r) \/ \A t \in queue : t.status # "pending"
    BY <1>6, RestoreSavedRests
  <2>3. CASE Proceeds(f, currentProjectId, processing, r)
    BY <2>1, <2>2, <2>3, ProceedingKeepsLInv
  <2>4. CASE \A t \in queue : t.status # "pending"
    BY <2>1, <2>2, <2>4, RestIsKept
  <2> QED
    BY <2>2, <2>3, <2>4
<1> QED
  BY <1>1, <1>2, <1>3, <1>4, <1>5, <1>6 DEF SessionStep

LEMMA AfterOpKeepsLInv ==
  ASSUME SInv, LInv, NEW f \in Frames, AfterOp(f)
  PROVE  LInv'
<1>1. frame[f].pc \in {"saveOp", "saveOnly"} /\ processing' = processing
  BY DEF AfterOp, Resume
<1>2. PICK r \in FrameState :
         /\ Rests(f, r)
         /\ \/ Proceeds(f, currentProjectId, processing, r)
            \/ frame[f].pc = "saveOnly"
  BY AfterOpRests
<1>3. ~BusyFor(frame[f]) /\ frame[f].pc \notin {"saveStart", "ingest"}
  BY <1>1 DEF BusyFor
<1>4. CASE Proceeds(f, currentProjectId, processing, r)
  BY <1>1, <1>2, <1>3, <1>4, ProceedingKeepsLInv
<1>5. CASE frame[f].pc = "saveOnly"
  <2>1. ~DrivesOn(frame[f])
    BY <1>5 DEF DrivesOn, SwitchPcs, RunPcs, HoldPcs
  <2> QED
    BY <1>1, <1>2, <1>3, <2>1, RestIsKept
<1> QED
  BY <1>2, <1>4, <1>5

\* What a runner's save leaves marked, somebody else holds.
LEMMA RunnerSavesKeepLInv ==
  ASSUME SInv, LInv, NEW f \in Frames, NEW r \in FrameState, RunnerSaves(f, r),
         processing' => BusyFor(r) \/ (processing /\ ~BusyFor(frame[f])),
         \A t \in queue' : t.status = "processing" =>
            HoldsTask(r, t) \/ (t \in queue /\ ~HoldsTask(frame[f], t))
  PROVE  LInv'
<1>1. Moves(f, r) /\ HoldsStay(f) /\ currentProjectId' = currentProjectId
  BY UpdateMoves DEF RunnerSaves, SInv, TypeOK
<1>2. DrivesOn(r)
  BY DEF RunnerSaves, DrivesOn, RunPcs, HoldPcs
<1> QED
  BY <1>1, <1>2, BusyIsKept

LEMMA RunnerKeepsLInv ==
  ASSUME SInv, LInv, NEW f \in Frames, RunnerStep(f)
  PROVE  LInv'
<1> DEFINE fr == frame[f]
<1>1. queue \in SUBSET TaskRecord /\ Held(f) \subseteq queue
  BY DEF SInv, TypeOK, Held
<1>2. \A t \in queue : HoldsTask(fr, t) => t \in Held(f)
  BY DEF HoldsTask, Held
<1>3. ASSUME RunnerBails(f) PROVE LInv'
  <2>1. /\ Rests(f, IdleFrame) /\ fr.pc \in HoldPcs /\ fr.proj # currentProjectId /\ processing' = processing
    BY <1>3, RunnerBailsRests DEF RunnerBails, memory
  <2>2. ~BusyFor(fr) /\ ~DrivesOn(fr)
    BY <2>1 DEF BusyFor, DrivesOn, HoldPcs, SwitchPcs
  <2> QED
    BY <2>1, <2>2, RestIsKept
<1>4. ASSUME RunnerLost(f) PROVE LInv'
  <2>1. /\ RunnerSaves(f, Call("saveThenNext", currentProjectId)) /\ Call("saveThenNext", currentProjectId) \in FrameState
    BY <1>4, RunnerLostSaves
  <2>2. /\ queue' = (queue \ Held(f)) \cup {Fail(t) : t \in Held(f)} /\ processing' = processing
        /\ fr.pc = "registry"
    BY <1>4 DEF RunnerLost, Resume
  <2>3. ~BusyFor(fr)
    BY <2>2 DEF BusyFor
  <2>4. \A t \in queue' : t.status = "processing" => t \in queue /\ ~HoldsTask(fr, t)
    BY <1>1, <2>2, TaskUpdates DEF HoldsTask
  <2> QED
    BY <2>1, <2>2, <2>3, <2>4, RunnerSavesKeepLInv
<1>5. ASSUME RunnerStarts(f) PROVE LInv'
  <2> DEFINE r == MovedOn(f, "saveStart")
  <2>1. RunnerSaves(f, r) /\ r \in FrameState
    BY <1>5, RunnerStartsSaves
  <2>2. /\ queue' = (queue \ Held(f)) \cup {Start(t) : t \in Held(f)}
        /\ fr.pc = "registry" /\ fr.proj = currentProjectId
    BY <1>5 DEF RunnerStarts, Resume, Orphaned
  <2>3. r.pc = "saveStart" /\ r.proj = currentProjectId /\ r.task = fr.task /\ r.attached = fr.attached
    BY <2>2, MovedOnFields DEF Awaits
  <2> HIDE DEF r
  <2>4. BusyFor(r)
    BY <2>3 DEF BusyFor
  <2>5. \A t \in Held(f) : HoldsTask(r, Start(t))
    BY <1>1, <2>3, TaskUpdates DEF HoldsTask, Held, Kept
  <2>6. \A t \in queue' : t.status = "processing" =>
          HoldsTask(r, t) \/ (t \in queue /\ ~HoldsTask(fr, t))
    BY <2>2, <2>5 DEF HoldsTask
  <2> QED
    BY <2>1, <2>4, <2>6, RunnerSavesKeepLInv
<1>6. ASSUME RunnerUnconfigured(f) PROVE LInv'
  <2>1. /\ RunnerSaves(f, Call("saveThenNext", currentProjectId)) /\ Call("saveThenNext", currentProjectId) \in FrameState
    BY <1>6, RunnerUnconfiguredSaves
  <2>2. /\ queue' = (queue \ Held(f)) \cup {Fail(t) : t \in Held(f)} /\ processing' = FALSE
    BY <1>6 DEF RunnerUnconfigured
  <2>3. \A t \in queue' : t.status = "processing" => t \in queue /\ ~HoldsTask(fr, t)
    BY <1>1, <1>2, <2>2, TaskUpdates
  <2> QED
    BY <2>1, <2>2, <2>3, RunnerSavesKeepLInv
<1>7. ASSUME RunnerIngests(f) PROVE LInv'
  <2> DEFINE r == MovedOn(f, "ingest")
  <2>1. Rests(f, r) /\ fr.proj = currentProjectId /\ processing' = processing
    BY <1>7, RunnerIngestsRests
  <2>2. r.pc = "ingest" /\ r.proj = currentProjectId
    BY <2>1, MovedOnFields DEF Awaits
  <2> HIDE DEF r
  <2>3. BusyFor(r) /\ DrivesOn(r)
    BY <2>2 DEF BusyFor, DrivesOn, RunPcs, HoldPcs
  <2> QED
    BY <2>1, <2>2, <2>3, RestIsKept
<1>8. ASSUME RunnerSucceeds(f) PROVE LInv'
  <2>1. /\ RunnerSaves(f, DoneFrame(f)) /\ DoneFrame(f) \in FrameState
        /\ queue' = {t \in queue : t.id # frame[f].task}
        /\ DoneFrame(f).pc = "saveDone" /\ DoneFrame(f).proj = currentProjectId
    BY <1>8, RunnerSucceedsSaves
  <2>2. BusyFor(DoneFrame(f))
    BY <2>1 DEF BusyFor
  <2>3. \A t \in queue' : t \in queue /\ ~HoldsTask(fr, t)
    BY <2>1 DEF HoldsTask
  <2> QED
    BY <2>1, <2>2, <2>3, RunnerSavesKeepLInv
<1>9. ASSUME RunnerFails(f) PROVE LInv'
  <2>1. /\ RunnerSaves(f, Call("saveDone", currentProjectId)) /\ Call("saveDone", currentProjectId) \in FrameState
    BY <1>9, RunnerFailsSaves
  <2>2. queue' = (queue \ Held(f)) \cup {Tried(t) : t \in Held(f)}
    BY <1>9 DEF RunnerFails
  <2>3. BusyFor(Call("saveDone", currentProjectId))
    BY CallFields DEF BusyFor
  <2>4. \A t \in Held(f) : Tried(t).status # "processing"
    BY <1>1, TaskUpdates
  <2>5. \A t \in queue' : t.status = "processing" => t \in queue /\ ~HoldsTask(fr, t)
    BY <1>2, <2>2, <2>4
  <2> QED
    BY <2>1, <2>3, <2>5, RunnerSavesKeepLInv
<1>10. ASSUME RunnerGoesOn(f) PROVE LInv'
  <2>1. /\ \/ fr.pc = "saveThenNext" /\ processing' = processing
           \/ fr.pc = "saveDone" /\ processing' = FALSE
        /\ \E r \in FrameState : Rests(f, r) /\ Proceeds(f, fr.proj, processing', r)
    BY <1>10, RunnerGoesOnRests
  <2>2. PICK r \in FrameState : Rests(f, r) /\ Proceeds(f, fr.proj, processing', r)
    BY <2>1
  <2>3. processing' => processing /\ ~BusyFor(fr)
    BY <2>1 DEF BusyFor
  <2>4. fr.pc \notin {"saveStart", "ingest"}
    BY <2>1
  <2>5. CASE fr.proj = currentProjectId
    BY <2>2, <2>3, <2>4, <2>5, ProceedingKeepsLInv
  <2>6. CASE fr.proj # currentProjectId
    <3>1. ~DrivesOn(fr)
      BY <2>1, <2>6 DEF DrivesOn, SwitchPcs
    <3> QED
      BY <2>2, <2>3, <2>4, <3>1, RestIsKept
  <2> QED
    BY <2>5, <2>6
<1> QED
  BY <1>3, <1>4, <1>5, <1>6, <1>7, <1>8, <1>9, <1>10 DEF RunnerStep

LEMMA NextLInv ==
  ASSUME SInv, LInv, Timing # "anytime", [Next]_vars
  PROVE  LInv'
<1>1. ASSUME NEW f \in Frames, UserStep(f) PROVE LInv'
  BY <1>1, UserKeepsLInv
<1>2. ASSUME NEW f \in Frames, AfterOp(f) PROVE LInv'
  BY <1>2, AfterOpKeepsLInv
<1>3. ASSUME NEW f \in Frames, SessionStep(f) PROVE LInv'
  BY <1>3, SessionKeepsLInv
<1>4. ASSUME NEW f \in Frames, RunnerStep(f) PROVE LInv'
  BY <1>4, RunnerKeepsLInv
<1>5. ASSUME NEW f \in Frames, SweepEnds(f) PROVE LInv'
  <2>1. Rests(f, IdleFrame) /\ frame[f].pc = "sweep" /\ processing' = processing
    BY <1>5, SweepEndsRests DEF SweepEnds
  <2>2. ~BusyFor(frame[f]) /\ ~DrivesOn(frame[f]) /\ frame[f].pc \notin {"saveStart", "ingest"}
    BY <2>1 DEF BusyFor, DrivesOn, SwitchPcs, RunPcs, HoldPcs
  <2> QED
    BY <2>1, <2>2, RestIsKept
<1>6. ASSUME UNCHANGED <<queue, processing, currentProjectId, frame>> PROVE LInv'
  BY <1>6 DEF LInv, SomeoneIsBusy, MarkedTasksAreHeld, PendingTasksAreDriven, BusyFor, HoldsTask, DrivesOn
<1>7. ASSUME NEW i, Land(i) \/ WriteFails(i) PROVE LInv'
  BY <1>6, <1>7 DEF Land, WriteFails, WriteEnds, memory
<1>8. ASSUME Crash PROVE LInv'
  BY <1>8 DEF Crash, LInv, SomeoneIsBusy, MarkedTasksAreHeld, PendingTasksAreDriven
<1>9. ASSUME UNCHANGED vars PROVE LInv'
  BY <1>6, <1>9 DEF vars, memory
<1> QED
  BY <1>1, <1>2, <1>3, <1>4, <1>5, <1>7, <1>8, <1>9 DEF Next

\* When no call is in flight, every task of the open project has been ingested,
\* removed or has failed: whatever cancels, retries, switches and runners of
\* earlier visits have done to the flag `processing`, a pending task has a call
\* that will come to it, and a marked one a runner that holds it.
THEOREM NoTaskIsStranded ==
  ASSUME Timing # "anytime"
  PROVE  Spec => []NoStrandedTask
<1>1. Init => SInv /\ LInv
  BY InitSInv DEF Init, LInv, SomeoneIsBusy, MarkedTasksAreHeld, PendingTasksAreDriven
<1>2. SInv /\ LInv /\ [Next]_vars => (SInv /\ LInv)'
  BY NextSInv, NextLInv
<1>3. SInv /\ LInv => NoStrandedTask
  <2> SUFFICES ASSUME SInv, LInv, \A f \in Frames : frame[f] = IdleFrame, NEW t \in queue
               PROVE  t.status = "failed"
    BY DEF NoStrandedTask
  <2>1. \A f \in Frames : frame[f].pc = "idle"
    BY CallFields
  <2>2. t.status # "processing" /\ t.status # "pending"
    BY <2>1
    DEF LInv, MarkedTasksAreHeld, PendingTasksAreDriven, HoldsTask, DrivesOn, SwitchPcs, RunPcs, HoldPcs
  <2>3. t.status \in Statuses
    BY DEF SInv, TypeOK, TaskRecord
  <2> QED
    BY <2>2, <2>3 DEF Statuses
<1> QED
  BY <1>1, <1>2, <1>3, PTL DEF Spec

-----------------------------------------------------------------------------
(***************************************************************************)
(* Accepted tasks are kept: the invariant.                                 *)
(***************************************************************************)
Issued == 1..issued

\* The tasks of a list were issued, belong where they say, and are all different.
Known(q, last, own) ==
  /\ \A t \in q : t.id <= last /\ own[t.id] = t.proj
  /\ \A t, u \in q : t.id = u.id => t = u
TasksAreKnown ==
  /\ Known(queue, issued, owner)
  /\ \A p \in Projects : disk[p] # Torn => Known(disk[p], issued, owner)
  /\ \A i \in DOMAIN inflight : Known(inflight[i].content, issued, owner)
  /\ \A f \in Frames : Known(frame[f].loaded, issued, owner)
NumbersAreKnown ==
  /\ acked \subseteq Issued /\ dropped \subseteq Issued /\ closed \subseteq Issued
  /\ \A t \in Issued : owner[t] \in Projects
  /\ \A f \in Frames :
       /\ frame[f].adds \subseteq Issued /\ frame[f].drops \subseteq Issued
       /\ frame[f].pc \in HoldPcs => frame[f].task \in Issued /\ owner[frame[f].task] = frame[f].proj

\* A call has one write, which it waits for.
WritersWait ==
  /\ \A i \in DOMAIN inflight : frame[inflight[i].by].pc \in SavePcs
  /\ \A i, j \in DOMAIN inflight : inflight[i].by = inflight[j].by => i = j

Reliable == budget.failures = MaxFailures

\* The writes of a project end with the visit: those of clicks are ahead of
\* the one the switch waits for, the others belong to a call of that project.
OpPcs == {"saveOp", "saveOnly"}
WritesEndWithTheVisit ==
  \A i \in DOMAIN inflight :
    /\ frame[inflight[i].by].pc \in OpPcs =>
         /\ inflight[i].file = currentProjectId
         /\ \A f \in Frames : frame[f].pc = "pauseSave" =>
              \E j \in DOMAIN inflight : j > i /\ inflight[j].by = f /\ inflight[j].file = inflight[i].file
    /\ frame[inflight[i].by].pc \notin OpPcs => inflight[i].file = frame[inflight[i].by].proj

\* While the file is read nobody writes it or is about to.
LoadsAreQuiet ==
  \A f \in Frames : frame[f].pc \in LoadPcs =>
    /\ \A i \in DOMAIN inflight : inflight[i].file # currentProjectId
    /\ \A g \in Frames : frame[g].proj = currentProjectId => g = f \/ frame[g].pc \in {"sweep", "idle"}
    /\ frame[f].pc = "restoreLoaded" => frame[f].loaded = disk[currentProjectId]

Loading == \E f \in Frames : frame[f].pc \in LoadPcs

\* The task t is in its file, or in the i-th write to it.
InFile(files, own, t) == t \in Ids(files[own[t]])
InWrite(writes, own, i, t) == writes[i].file = own[t] /\ t \in Ids(writes[i].content)

\* A task that was not dropped is in every copy from some time on.
TasksArePassedOn ==
  \A t \in Issued \ dropped :
    /\ \A i, j \in DOMAIN inflight :
         i < j /\ InWrite(inflight, owner, i, t) /\ inflight[j].file = owner[t] => InWrite(inflight, owner, j, t)
    /\ InFile(disk, owner, t) =>
         \A i \in DOMAIN inflight : inflight[i].file = owner[t] => InWrite(inflight, owner, i, t)
    /\ /\ currentProjectId = owner[t] /\ ~Loading
       /\ InFile(disk, owner, t) \/ \E i \in DOMAIN inflight : InWrite(inflight, owner, i, t)
       => t \in Ids(queue)
    /\ t \in acked => InFile(disk, owner, t)
    /\ \A f \in Frames : t \in frame[f].adds =>
         InFile(disk, owner, t) \/ \E i \in DOMAIN inflight : inflight[i].by = f /\ InWrite(inflight, owner, i, t)

\* A task that was dropped is on its way out of every copy.
DroppedTasksLeave ==
  /\ \A t \in closed : /\ t \notin Ids(queue) /\ ~InFile(disk, owner, t)
                       /\ \A i \in DOMAIN inflight : ~InWrite(inflight, owner, i, t)
  /\ \A f \in Frames : \A t \in frame[f].drops :
       /\ t \notin Ids(queue)
       /\ \A k \in DOMAIN inflight : InWrite(inflight, owner, k, t) =>
            \E i \in DOMAIN inflight : i > k /\ inflight[i].by = f /\ inflight[i].file = owner[t]
       /\ InFile(disk, owner, t) => \E i \in DOMAIN inflight : inflight[i].by = f /\ inflight[i].file = owner[t]

NotTorn == \A p \in Projects : disk[p] # Torn

CInv == TasksAreKnown /\ NumbersAreKnown /\ WritersWait /\ NotTorn /\ budget.failures <= MaxFailures
RInv == WritesEndWithTheVisit /\ LoadsAreQuiet /\ TasksArePassedOn /\ DroppedTasksLeave
KInv == CInv /\ (Reliable => RInv)

-----------------------------------------------------------------------------
(***************************************************************************)
(* What is known.                                                          *)
(***************************************************************************)
LEMMA NumbersAreTyped ==
  ASSUME SInv, CInv
  PROVE  /\ issued \in Nat /\ Issued \subseteq Tasks
         /\ \A t \in acked \cup dropped \cup closed : t \in Issued
         /\ \A t \in Issued : owner[t] \in Projects
         /\ \A f \in Frames, i \in DOMAIN inflight : Saved(f) => inflight[i].by # f
         /\ \A i \in DOMAIN inflight : inflight[i].by \in Frames /\ inflight[i].file \in Projects
<1>1. issued \in Nat /\ Issued \subseteq Tasks
  BY NumberAssumption, SMTT(30) DEF SInv, TypeOK, Issued, Tasks
<1>2. \A i \in DOMAIN inflight : inflight[i] \in WriteState
  <2>1. inflight \in Seq(WriteState)
    BY DEF SInv, TypeOK
  <2> QED
    BY <2>1, LenProperties, ElementOfSeq
<1> QED
  BY <1>1, <1>2 DEF CInv, NumbersAreKnown, Saved, WriteState

LEMMA IdsAreIssued ==
  ASSUME SInv, NEW q \in SUBSET TaskRecord, Known(q, issued, owner)
  PROVE  /\ Ids(q) \subseteq Issued
         /\ \A t \in q : t.id \in Ids(q) /\ t.id \in Issued /\ owner[t.id] = t.proj
<1>1. \A t \in q : t.id \in 1..MaxTasks /\ t.id <= issued
  BY DEF TaskRecord, Tasks, Known
<1>2. \A t \in q : t.id \in Issued
  BY <1>1, NumberAssumption DEF Issued, SInv, TypeOK
<1> QED
  BY <1>2 DEF Ids, Known

\* What is known stays known when more tasks are issued.
LEMMA KnownStays ==
  ASSUME SInv, NEW q \in SUBSET TaskRecord, Known(q, issued, owner), issued' \in Nat, issued <= issued',
         \A t \in Issued : owner'[t] = owner[t]
  PROVE  Known(q, issued', owner')
<1>1. \A t \in q : t.id \in Issued /\ t.id \in Nat /\ t.id <= issued
  <2>1. \A t \in q : t.id \in Issued
    BY IdsAreIssued
  <2>2. \A t \in q : t.id \in Nat /\ t.id <= issued
    BY NumberAssumption DEF Known, TaskRecord, Tasks
  <2> QED
    BY <2>1, <2>2
<1>2. issued \in Nat
  BY NumberAssumption DEF SInv, TypeOK
<1> QED
  BY <1>1, <1>2 DEF Known

LEMMA RewrittenIsKnown ==
  ASSUME NEW q, NEW new, Known(q, issued, owner), Rewritten(q, new),
         \A t, u \in new : t.id = u.id => t = u
  PROVE  Known(new, issued, owner)
  BY DEF Known, Rewritten, Kept

-----------------------------------------------------------------------------
(***************************************************************************)
(* A step that saves the queue: the call f goes on as r; it has enqueued   *)
(* the tasks new and removed the tasks gone.                               *)
(***************************************************************************)
\* The list that is saved holds every task that a copy of the file holds or
\* will, and none that was not there before.
SavesAll(f, new) ==
  /\ \A g \in Frames \ {f} : frame[g].pc \notin LoadPcs
  /\ \A t \in Issued \ dropped' :
       owner[t] = currentProjectId
         /\ (InFile(disk, owner, t) \/ \E i \in DOMAIN inflight : InWrite(inflight, owner, i, t))
         => t \in Ids(queue')
  /\ \/ Ids(queue') \subseteq Ids(queue) \cup new
     \/ /\ Ids(queue') \subseteq Ids(disk[currentProjectId])
        /\ \A i \in DOMAIN inflight : inflight[i].file # currentProjectId

Saves(f, r, new, gone) ==
  /\ Moves(f, r) /\ r.pc \in SavePcs /\ Saved(f)
  /\ currentProjectId \in Projects
  /\ UNCHANGED <<currentProjectId, disk, acked, closed>> /\ budget'.failures = budget.failures
  /\ Save(f, currentProjectId, queue')
  /\ issued <= issued' /\ new = (issued + 1)..issued'
  /\ \A t \in Tasks : owner'[t] = IF t \in new THEN currentProjectId ELSE owner[t]
  /\ gone \subseteq Issued /\ (\A t \in gone : owner[t] = currentProjectId)
  /\ dropped' = dropped \cup gone
  /\ r.adds \subseteq new \cup frame[f].adds
  /\ r.drops \subseteq gone \cup frame[f].drops
  /\ r.loaded \in {{}, frame[f].loaded}
  /\ r.pc \in HoldPcs => frame[f].pc \in HoldPcs /\ r.task = frame[f].task /\ r.proj = frame[f].proj
  /\ r.pc \in OpPcs => \A g \in Frames : frame[g].pc # "pauseSave"
  /\ r.pc \notin OpPcs => r.proj = currentProjectId
  /\ Known(queue', issued', owner')
  /\ new \subseteq Ids(queue') /\ gone \cap Ids(queue') = {}
  /\ Reliable => SavesAll(f, new)

\* The numbers, the writes and the copies after such a step.
LEMMA SaveAdds ==
  ASSUME SInv, TypeOK', CInv, NEW f \in Frames, NEW r, NEW new, NEW gone, Saves(f, r, new, gone)
  PROVE  LET n == Len(inflight) + 1
         IN /\ Issued' = Issued \cup new /\ (\A t \in new : t \notin Issued) /\ Issued' \subseteq Tasks
            /\ \A t \in Issued : owner'[t] = owner[t]
            /\ \A t \in new : owner'[t] = currentProjectId
            /\ DOMAIN inflight' = DOMAIN inflight \cup {n} /\ n \notin DOMAIN inflight
            /\ \A i \in DOMAIN inflight : i < n /\ inflight'[i] = inflight[i]
            /\ inflight'[n].by = f /\ inflight'[n].file = currentProjectId /\ inflight'[n].content = queue'
<1>1. issued \in Nat /\ issued' \in Nat /\ MaxTasks \in Nat /\ issued' <= MaxTasks
  BY NumberAssumption DEF SInv, TypeOK
<1>2. Issued' = Issued \cup new /\ (\A t \in new : t \notin Issued) /\ Issued' \subseteq Tasks
  BY <1>1 DEF Saves, Issued, Tasks
<1>3. /\ \A t \in Issued : owner'[t] = owner[t]
      /\ \A t \in new : owner'[t] = currentProjectId
  BY <1>2 DEF Saves
<1>4. queue' \in SUBSET TaskRecord
  BY DEF TypeOK
<1>5. /\ DOMAIN inflight = 1..Len(inflight) /\ Len(inflight) \in Nat
      /\ DOMAIN inflight' = 1..(Len(inflight) + 1)
      /\ \A i \in DOMAIN inflight : inflight'[i] = inflight[i]
      /\ inflight'[Len(inflight) + 1] = [by |-> f, file |-> currentProjectId, content |-> queue']
  BY <1>4, SaveAppends DEF Saves, SInv, TypeOK
<1>6. /\ DOMAIN inflight' = DOMAIN inflight \cup {Len(inflight) + 1}
      /\ Len(inflight) + 1 \notin DOMAIN inflight
      /\ \A i \in DOMAIN inflight : i < Len(inflight) + 1
  BY <1>5
<1> QED
  BY <1>2, <1>3, <1>5, <1>6

LEMMA SaveKeepsCInv ==
  ASSUME SInv, TypeOK', CInv, NEW f \in Frames, NEW r, NEW new, NEW gone, Saves(f, r, new, gone)
  PROVE  CInv'
<1> DEFINE n == Len(inflight) + 1
<1>1. /\ Issued' = Issued \cup new /\ (\A t \in new : t \notin Issued) /\ Issued' \subseteq Tasks
      /\ \A t \in Issued : owner'[t] = owner[t]
      /\ \A t \in new : owner'[t] = currentProjectId
      /\ DOMAIN inflight' = DOMAIN inflight \cup {n} /\ n \notin DOMAIN inflight
      /\ \A i \in DOMAIN inflight : i < n /\ inflight'[i] = inflight[i]
      /\ inflight'[n].by = f /\ inflight'[n].file = currentProjectId /\ inflight'[n].content = queue'
  BY SaveAdds
<1> HIDE DEF n
<1>2. issued' \in Nat /\ issued <= issued'
  BY NumberAssumption DEF TypeOK, Saves
<1>3. \A q \in SUBSET TaskRecord : Known(q, issued, owner) => Known(q, issued', owner')
  BY <1>1, <1>2, KnownStays
<1>4. TasksAreKnown'
  <2>1. \A p \in Projects : disk'[p] # Torn => Known(disk'[p], issued', owner')
    BY <1>3 DEF Saves, SInv, TypeOK, CInv, TasksAreKnown
  <2>2. \A i \in DOMAIN inflight' : Known(inflight'[i].content, issued', owner')
    <3>1. \A i \in DOMAIN inflight : inflight[i].content \in SUBSET TaskRecord
      <4>1. inflight \in Seq(WriteState)
        BY DEF SInv, TypeOK
      <4>2. \A i \in DOMAIN inflight : inflight[i] \in WriteState
        BY <4>1, LenProperties, ElementOfSeq
      <4> QED
        BY <4>2 DEF WriteState
    <3> QED
      BY <1>1, <1>3, <3>1 DEF Saves, CInv, TasksAreKnown
  <2>3. \A g \in Frames : Known(frame'[g].loaded, issued', owner')
    <3>1. \A g \in Frames : frame[g].loaded \in SUBSET TaskRecord
      BY DEF SInv, TypeOK, FrameState
    <3>2. \A g \in Frames : frame'[g].loaded \in {{}, frame[g].loaded}
      BY DEF Saves, Moves, Same
    <3>3. Known({}, issued', owner')
      BY DEF Known
    <3> QED
      BY <1>3, <3>1, <3>2, <3>3 DEF CInv, TasksAreKnown
  <2> QED
    BY <2>1, <2>2, <2>3 DEF Saves, TasksAreKnown
<1>5. NumbersAreKnown'
  <2>1. acked' \subseteq Issued' /\ dropped' \subseteq Issued' /\ closed' \subseteq Issued'
    BY <1>1 DEF Saves, CInv, NumbersAreKnown
  <2>2. \A t \in Issued' : owner'[t] \in Projects
    BY <1>1 DEF Saves, CInv, NumbersAreKnown
  <2>3. ASSUME NEW g \in Frames
        PROVE  /\ frame'[g].adds \subseteq Issued' /\ frame'[g].drops \subseteq Issued'
               /\ frame'[g].pc \in HoldPcs => frame'[g].task \in Issued' /\ owner'[frame'[g].task] = frame'[g].proj
    <3>1. CASE g = f
      BY <1>1, <3>1 DEF Saves, Moves, CInv, NumbersAreKnown
    <3>2. CASE g # f
      BY <1>1, <3>2 DEF Saves, Moves, Same, CInv, NumbersAreKnown
    <3> QED
      BY <3>1, <3>2
  <2> QED
    BY <2>1, <2>2, <2>3 DEF NumbersAreKnown
<1>6. WritersWait'
  <2>1. \A i \in DOMAIN inflight : inflight[i].by \in Frames \ {f}
    BY NumbersAreTyped DEF Saves
  <2> QED
    BY <1>1, <2>1 DEF Saves, Moves, Same, CInv, WritersWait
<1> QED
  BY <1>4, <1>5, <1>6 DEF Saves, CInv, NotTorn

LEMMA SaveKeepsRInv ==
  ASSUME SInv, TypeOK', KInv, NEW f \in Frames, NEW r, NEW new, NEW gone, Saves(f, r, new, gone), Reliable
  PROVE  RInv'
<1> DEFINE n == Len(inflight) + 1
           cur == currentProjectId
<1>1. /\ Issued' = Issued \cup new /\ (\A t \in new : t \notin Issued) /\ Issued' \subseteq Tasks
      /\ \A t \in Issued : owner'[t] = owner[t]
      /\ \A t \in new : owner'[t] = cur
      /\ DOMAIN inflight' = DOMAIN inflight \cup {n} /\ n \notin DOMAIN inflight
      /\ \A i \in DOMAIN inflight : i < n /\ inflight'[i] = inflight[i]
      /\ inflight'[n].by = f /\ inflight'[n].file = cur /\ inflight'[n].content = queue'
  BY SaveAdds DEF KInv
<1> HIDE DEF n
<1>2. RInv /\ SavesAll(f, new)
  BY DEF KInv, Saves
<1>3. \A i \in DOMAIN inflight : inflight[i].by \in Frames \ {f}
  BY NumbersAreTyped DEF Saves, KInv
<1>4. cur' = cur /\ disk' = disk /\ acked' = acked /\ closed' = closed /\ dropped' = dropped \cup gone
      /\ cur \in Projects
  BY DEF Saves
\* The copies of a task that was there before, and of one that is new.
<1>5. ASSUME NEW t \in Issued
      PROVE  /\ InFile(disk', owner', t) <=> InFile(disk, owner, t)
             /\ \A i \in DOMAIN inflight : InWrite(inflight', owner', i, t) <=> InWrite(inflight, owner, i, t)
             /\ InWrite(inflight', owner', n, t) <=> owner[t] = cur /\ t \in Ids(queue')
  BY <1>1, <1>4 DEF InFile, InWrite
<1>6. ASSUME NEW t \in new
      PROVE  /\ ~InFile(disk', owner', t)
             /\ \A i \in DOMAIN inflight : ~InWrite(inflight', owner', i, t)
             /\ InWrite(inflight', owner', n, t) /\ t \in Ids(queue')
  <2>1. t \notin Issued /\ t \in Ids(queue') /\ owner'[t] = cur
    BY <1>1 DEF Saves
  <2>2. Ids(disk[cur]) \subseteq Issued
    BY <1>4, IdsAreIssued DEF SInv, TypeOK, KInv, CInv, TasksAreKnown, NotTorn
  <2>3. ASSUME NEW i \in DOMAIN inflight PROVE Ids(inflight[i].content) \subseteq Issued
    <3>1. inflight[i].content \in SUBSET TaskRecord
      <4>1. inflight \in Seq(WriteState)
        BY DEF SInv, TypeOK
      <4>2. inflight[i] \in WriteState
        BY <4>1, LenProperties, ElementOfSeq
      <4> QED
        BY <4>2 DEF WriteState
    <3> QED
      BY <3>1, IdsAreIssued DEF KInv, CInv, TasksAreKnown
  <2> QED
    BY <1>1, <1>4, <2>1, <2>2, <2>3 DEF InFile, InWrite
<1>7. WritesEndWithTheVisit'
  <2> SUFFICES ASSUME NEW i \in DOMAIN inflight'
               PROVE  /\ frame'[inflight'[i].by].pc \in OpPcs =>
                           /\ inflight'[i].file = cur
                           /\ \A h \in Frames : frame'[h].pc = "pauseSave" =>
                                \E j \in DOMAIN inflight' :
                                   j > i /\ inflight'[j].by = h /\ inflight'[j].file = inflight'[i].file
                      /\ frame'[inflight'[i].by].pc \notin OpPcs => inflight'[i].file = frame'[inflight'[i].by].proj
    BY <1>4 DEF WritesEndWithTheVisit
  <2>1. CASE i \in DOMAIN inflight
    <3> DEFINE g == inflight[i].by
    <3>1. /\ inflight'[i] = inflight[i] /\ g \in Frames \ {f}
          /\ frame'[g].pc = frame[g].pc /\ frame'[g].proj = frame[g].proj
      BY <1>1, <1>3, <2>1 DEF Saves, Moves, Same
    <3>2. CASE frame[g].pc \in OpPcs
      <4>1. inflight[i].file = cur
        BY <1>2, <2>1, <3>2 DEF RInv, WritesEndWithTheVisit
      <4>2. ASSUME NEW h \in Frames, frame'[h].pc = "pauseSave"
            PROVE  \E j \in DOMAIN inflight' :
                      j > i /\ inflight'[j].by = h /\ inflight'[j].file = inflight[i].file
        <5>1. CASE h = f
          <6>1. n > i
            BY <1>1, <2>1
          <6> QED
            BY <1>1, <4>1, <5>1, <6>1
        <5>2. CASE h # f
          <6>1. frame[h].pc = "pauseSave"
            BY <4>2, <5>2 DEF Saves, Moves, Same
          <6> QED
            BY <1>1, <1>2, <2>1, <3>2, <6>1 DEF RInv, WritesEndWithTheVisit
        <5> QED
          BY <5>1, <5>2
      <4> QED
        BY <3>1, <3>2, <4>1, <4>2
    <3>3. CASE frame[g].pc \notin OpPcs
      BY <1>2, <2>1, <3>1, <3>3 DEF RInv, WritesEndWithTheVisit
    <3> QED
      BY <3>2, <3>3
  <2>2. CASE i = n
    <3>1. inflight'[i].by = f /\ inflight'[i].file = cur /\ frame'[f] = r
      BY <1>1, <2>2 DEF Saves, Moves
    <3>2. ASSUME r.pc \in OpPcs, NEW h \in Frames PROVE frame'[h].pc # "pauseSave"
      BY <3>1, <3>2 DEF Saves, Moves, Same, OpPcs
    <3> QED
      BY <3>1, <3>2 DEF Saves
  <2> QED
    BY <1>1, <2>1, <2>2
<1>8. \A g \in Frames : frame'[g].pc \notin LoadPcs
  BY <1>2 DEF Saves, SavesAll, Moves, Same, SavePcs, LoadPcs
<1>9. LoadsAreQuiet'
  BY <1>8 DEF LoadsAreQuiet
<1>10. TasksArePassedOn'
  <2> SUFFICES ASSUME NEW t \in Issued', t \notin dropped'
               PROVE
    /\ \A i, j \in DOMAIN inflight' :
         i < j /\ InWrite(inflight', owner', i, t) /\ inflight'[j].file = owner'[t] => InWrite(inflight', owner', j, t)
    /\ InFile(disk', owner', t) =>
         \A i \in DOMAIN inflight' : inflight'[i].file = owner'[t] => InWrite(inflight', owner', i, t)
    /\ /\ cur = owner'[t]
       /\ InFile(disk', owner', t) \/ \E i \in DOMAIN inflight' : InWrite(inflight', owner', i, t)
       => t \in Ids(queue')
    /\ t \in acked => InFile(disk', owner', t)
    /\ \A g \in Frames : t \in frame'[g].adds =>
         \/ InFile(disk', owner', t)
         \/ \E i \in DOMAIN inflight' : inflight'[i].by = g /\ InWrite(inflight', owner', i, t)
    BY <1>4 DEF TasksArePassedOn
  <2>1. CASE t \in Issued
    <3>1. owner'[t] = owner[t] /\ t \notin dropped
      BY <1>1, <1>4, <2>1
    <3>2. owner[t] = cur /\ (InFile(disk, owner, t) \/ \E i \in DOMAIN inflight : InWrite(inflight, owner, i, t))
            => t \in Ids(queue')
      BY <1>2, <1>4, <2>1 DEF SavesAll
    <3>3. ASSUME NEW i \in DOMAIN inflight', NEW j \in DOMAIN inflight', i < j,
                 InWrite(inflight', owner', i, t), inflight'[j].file = owner'[t]
          PROVE  InWrite(inflight', owner', j, t)
      <4>1. CASE i \in DOMAIN inflight /\ j \in DOMAIN inflight
        BY <1>1, <1>2, <1>5, <2>1, <3>1, <3>3, <4>1 DEF RInv, TasksArePassedOn
      <4>2. CASE i \in DOMAIN inflight /\ j = n
        BY <1>1, <1>5, <2>1, <3>1, <3>2, <3>3, <4>2
      <4>3. i # n
        <5>1. i \in Nat /\ j \in Nat
          BY LenProperties DEF TypeOK
        <5> QED
          BY <1>1, <3>3, <5>1
      <4> QED
        BY <1>1, <4>1, <4>2, <4>3
    <3>4. ASSUME InFile(disk', owner', t), NEW i \in DOMAIN inflight', inflight'[i].file = owner'[t]
          PROVE  InWrite(inflight', owner', i, t)
      <4>1. CASE i \in DOMAIN inflight
        BY <1>1, <1>2, <1>5, <2>1, <3>1, <3>4, <4>1 DEF RInv, TasksArePassedOn
      <4>2. CASE i = n
        BY <1>1, <1>5, <2>1, <3>1, <3>2, <3>4, <4>2
      <4> QED
        BY <1>1, <4>1, <4>2
    <3>5. ASSUME cur = owner'[t],
                 InFile(disk', owner', t) \/ \E i \in DOMAIN inflight' : InWrite(inflight', owner', i, t)
          PROVE  t \in Ids(queue')
      BY <1>1, <1>5, <2>1, <3>1, <3>2, <3>5
    <3>6. t \in acked => InFile(disk', owner', t)
      BY <1>2, <1>5, <2>1, <3>1 DEF RInv, TasksArePassedOn
    <3>7. ASSUME NEW g \in Frames, t \in frame'[g].adds
          PROVE  \/ InFile(disk', owner', t)
                 \/ \E i \in DOMAIN inflight' : inflight'[i].by = g /\ InWrite(inflight', owner', i, t)
      <4>1. t \in frame[g].adds
        BY <1>1, <2>1, <3>7 DEF Saves, Moves, Same
      <4>2. InFile(disk, owner, t) \/ \E i \in DOMAIN inflight : inflight[i].by = g /\ InWrite(inflight, owner, i, t)
        BY <1>2, <2>1, <3>1, <4>1 DEF RInv, TasksArePassedOn
      <4> QED
        BY <1>1, <1>5, <2>1, <4>2
    <3> QED
      BY <3>3, <3>4, <3>5, <3>6, <3>7
  <2>2. CASE t \in new
    <3>1. t \notin acked
      BY <1>1, <2>2 DEF KInv, CInv, NumbersAreKnown
    <3>2. ASSUME NEW g \in Frames, t \in frame'[g].adds PROVE g = f
      BY <1>1, <2>2, <3>2 DEF Saves, Moves, Same, KInv, CInv, NumbersAreKnown
    <3>3. \A i \in DOMAIN inflight' : InWrite(inflight', owner', i, t) <=> i = n
      BY <1>1, <1>6, <2>2
    <3>4. \A i, j \in DOMAIN inflight' : i < j => i # n
      <4>1. \A i \in DOMAIN inflight' : i \in Nat /\ i <= n
        <5>1. \A i \in DOMAIN inflight' : i \in Nat
          BY LenProperties DEF TypeOK
        <5>2. n \in Nat
          BY <1>1, <5>1
        <5> QED
          BY <1>1, <5>1, <5>2
      <4> QED
        BY <1>1, <4>1
    <3> QED
      BY <1>1, <1>6, <2>2, <3>1, <3>2, <3>3, <3>4
  <2> QED
    BY <1>1, <2>1, <2>2
<1>11. DroppedTasksLeave'
  \* A task in no copy that the step could take it from is not taken up again.
  <2>1. ASSUME NEW t \in Issued, t \notin Ids(queue),
               \/ ~InFile(disk, owner, t)
               \/ \E i \in DOMAIN inflight : inflight[i].file = owner[t]
        PROVE  t \notin Ids(queue')
    <3>1. CASE Ids(queue') \subseteq Ids(queue) \cup new
      BY <1>1, <2>1, <3>1
    <3>2. CASE /\ Ids(queue') \subseteq Ids(disk[cur])
               /\ \A i \in DOMAIN inflight : inflight[i].file # cur
      <4>1. SUFFICES ASSUME t \in Ids(disk[cur]) PROVE FALSE
        BY <3>2
      <4>2. disk[cur] \in SUBSET TaskRecord /\ Known(disk[cur], issued, owner)
            /\ \A u \in disk[cur] : u.proj = cur
        BY <1>4 DEF SInv, TypeOK, AtHome, NoForeignTask, KInv, CInv, TasksAreKnown, NotTorn
      <4>3. PICK u \in disk[cur] : u.id = t
        BY <4>1 DEF Ids
      <4>4. owner[t] = cur
        BY <4>2, <4>3 DEF Known
      <4> QED
        BY <2>1, <3>2, <4>1, <4>4 DEF InFile
    <3> QED
      BY <1>2, <3>1, <3>2 DEF SavesAll
  <2>2. ASSUME NEW t \in closed
        PROVE  /\ t \notin Ids(queue') /\ ~InFile(disk', owner', t)
               /\ \A i \in DOMAIN inflight' : ~InWrite(inflight', owner', i, t)
    <3>1. t \in Issued
      BY DEF KInv, CInv, NumbersAreKnown
    <3>2. /\ t \notin Ids(queue) /\ ~InFile(disk, owner, t)
          /\ \A i \in DOMAIN inflight : ~InWrite(inflight, owner, i, t)
      BY <1>2 DEF RInv, DroppedTasksLeave
    <3>3. t \notin Ids(queue')
      BY <2>1, <3>1, <3>2
    <3> QED
      BY <1>1, <1>5, <3>1, <3>2, <3>3
  <2>3. ASSUME NEW g \in Frames, NEW t \in frame'[g].drops
        PROVE  /\ t \notin Ids(queue')
               /\ \A k \in DOMAIN inflight' : InWrite(inflight', owner', k, t) =>
                    \E i \in DOMAIN inflight' : i > k /\ inflight'[i].by = g /\ inflight'[i].file = owner'[t]
               /\ InFile(disk', owner', t) =>
                    \E i \in DOMAIN inflight' : inflight'[i].by = g /\ inflight'[i].file = owner'[t]
    <3>1. CASE g = f /\ t \in gone
      <4>1. t \in Issued /\ owner'[t] = cur /\ t \notin Ids(queue')
        BY <1>1, <3>1 DEF Saves
      <4>2. \A k \in DOMAIN inflight' : InWrite(inflight', owner', k, t) => n > k
        BY <1>1, <1>5, <4>1
      <4> QED
        BY <1>1, <3>1, <4>1, <4>2
    <3>2. CASE t \in frame[g].drops
      <4>1. t \in Issued /\ owner'[t] = owner[t]
        BY <1>1, <3>2 DEF KInv, CInv, NumbersAreKnown
      <4>2. /\ t \notin Ids(queue)
            /\ \A k \in DOMAIN inflight : InWrite(inflight, owner, k, t) =>
                 \E i \in DOMAIN inflight : i > k /\ inflight[i].by = g /\ inflight[i].file = owner[t]
            /\ InFile(disk, owner, t) =>
                 \E i \in DOMAIN inflight : inflight[i].by = g /\ inflight[i].file = owner[t]
        BY <1>2, <3>2 DEF RInv, DroppedTasksLeave
      <4>3. t \notin Ids(queue')
        BY <2>1, <4>1, <4>2
      <4>4. ASSUME NEW k \in DOMAIN inflight', InWrite(inflight', owner', k, t)
            PROVE  \E i \in DOMAIN inflight' : i > k /\ inflight'[i].by = g /\ inflight'[i].file = owner'[t]
        <5>1. k \in DOMAIN inflight /\ InWrite(inflight, owner, k, t)
          BY <1>1, <1>5, <4>1, <4>3, <4>4
        <5> QED
          BY <1>1, <4>1, <4>2, <5>1
      <4>5. ASSUME InFile(disk', owner', t)
            PROVE  \E i \in DOMAIN inflight' : inflight'[i].by = g /\ inflight'[i].file = owner'[t]
        <5>1. InFile(disk, owner, t)
          BY <1>5, <4>1, <4>5
        <5> QED
          BY <1>1, <4>1, <4>2, <5>1
      <4> QED
        BY <4>3, <4>4, <4>5
    <3>3. t \in frame[g].drops \/ (g = f /\ t \in gone)
      BY <2>3 DEF Saves, Moves, Same
    <3> QED
      BY <3>1, <3>2, <3>3
  <2> QED
    BY <1>4, <2>2, <2>3 DEF DroppedTasksLeave
<1> QED
  BY <1>7, <1>9, <1>10, <1>11 DEF RInv

LEMMA SaveIsKept ==
  ASSUME SInv, TypeOK', KInv, NEW f \in Frames, NEW r, NEW new, NEW gone, Saves(f, r, new, gone)
  PROVE  KInv'
<1>1. Reliable' => Reliable
  BY DEF Saves, Reliable
<1> QED
  BY <1>1, SaveKeepsCInv, SaveKeepsRInv DEF KInv

-----------------------------------------------------------------------------
(***************************************************************************)
(* A step that saves the queue and enqueues nothing.                       *)
(***************************************************************************)
Resaves(f, r, gone) ==
  /\ StepKeepsHome(f, r) /\ r.pc \in SavePcs /\ Saved(f)
  /\ currentProjectId \in Projects /\ Save(f, currentProjectId, queue')
  /\ UNCHANGED <<issued, owner, acked, closed>> /\ budget'.failures = budget.failures
  /\ gone \subseteq Ids(queue) /\ dropped' = dropped \cup gone
  /\ r.adds \subseteq frame[f].adds
  /\ r.drops \subseteq gone \cup frame[f].drops
  /\ r.loaded \in {{}, frame[f].loaded}
  /\ r.pc \in HoldPcs => frame[f].pc \in HoldPcs /\ r.task = frame[f].task /\ r.proj = frame[f].proj
  /\ r.pc \in OpPcs => \A g \in Frames : frame[g].pc # "pauseSave"
  /\ r.pc \notin OpPcs => r.proj = currentProjectId
  /\ Known(queue', issued, owner)
  /\ Ids(queue') = Ids(queue) \ gone
  /\ Reliable => \A g \in Frames : frame[g].pc \notin LoadPcs

\* The list in memory holds what the copies hold.
LEMMA MemoryIsLast ==
  ASSUME SInv, KInv, Reliable, NEW f \in Frames, NEW new,
         \A g \in Frames : frame[g].pc \notin LoadPcs,
         dropped \subseteq dropped', Ids(queue) \subseteq Ids(queue') \cup dropped',
         Ids(queue') \subseteq Ids(queue) \cup new
  PROVE  SavesAll(f, new)
<1>1. TasksArePassedOn /\ ~Loading
  BY DEF KInv, RInv, Loading
<1>2. ASSUME NEW t \in Issued \ dropped', owner[t] = currentProjectId,
             InFile(disk, owner, t) \/ \E i \in DOMAIN inflight : InWrite(inflight, owner, i, t)
      PROVE  t \in Ids(queue')
  BY <1>1, <1>2 DEF TasksArePassedOn
<1> QED
  BY <1>2 DEF SavesAll

LEMMA QueueIsKnown ==
  ASSUME SInv, CInv
  PROVE  /\ Ids(queue) \subseteq Issued
         /\ \A t \in Ids(queue) : owner[t] = currentProjectId
<1>1. queue \in SUBSET TaskRecord /\ Known(queue, issued, owner)
  BY DEF SInv, TypeOK, CInv, TasksAreKnown
<1>2. Ids(queue) \subseteq Issued /\ \A t \in queue : owner[t.id] = t.proj
  BY <1>1, IdsAreIssued
<1>3. \A t \in queue : owner[t.id] = currentProjectId
  BY <1>2 DEF SInv, AtHome, NoForeignTask
<1> QED
  BY <1>2, <1>3 DEF Ids

LEMMA ResaveIsKept ==
  ASSUME SInv, TypeOK', KInv, NEW f \in Frames, NEW r, NEW gone, Resaves(f, r, gone)
  PROVE  KInv'
<1>1. issued \in Nat
  BY NumberAssumption DEF SInv, TypeOK
<1>2. {} = (issued + 1)..issued' /\ issued <= issued'
  BY <1>1 DEF Resaves
<1>3. gone \subseteq Issued /\ \A t \in gone : owner[t] = currentProjectId
  BY QueueIsKnown DEF Resaves, KInv
<1>4. Reliable => SavesAll(f, {})
  BY MemoryIsLast DEF Resaves
<1>5. Saves(f, r, {}, gone)
  BY <1>2, <1>3, <1>4 DEF Resaves, Saves, StepKeepsHome
<1> QED
  BY <1>5, SaveIsKept

LEMMA WaitersOnly ==
  ASSUME SInv, CInv, NEW f \in Frames, frame[f].pc \notin SavePcs
  PROVE  Saved(f)
  BY NumbersAreTyped DEF Saved, CInv, WritersWait

LEMMA CallsFindQuiet ==
  ASSUME SInv, CInv, Timing # "anytime", NEW f \in Frames, MayCall, FreeFrame(f)
  PROVE  /\ \A g \in Frames : frame[g].pc \notin LoadPcs /\ frame[g].pc # "pauseSave"
         /\ Saved(f) /\ frame[f].adds = {} /\ frame[f].drops = {} /\ frame[f].loaded = {}
         /\ currentProjectId \in Projects
<1>1. currentProjectId \in Projects /\ ~Switching
  BY CallsAreMade
<1>2. \A g \in Frames : frame[g].pc \notin LoadPcs /\ frame[g].pc # "pauseSave"
  BY <1>1 DEF Switching, LoadPcs
<1>3. frame[f].pc = "idle" /\ frame[f].adds = {} /\ frame[f].drops = {} /\ frame[f].loaded = {}
  BY CallFields DEF FreeFrame
<1>4. Saved(f)
  BY <1>3, WaitersOnly DEF SavePcs
<1> QED
  BY <1>1, <1>2, <1>3, <1>4

LEMMA RunnersFindQuiet ==
  ASSUME KInv, Reliable, NEW f \in Frames, frame[f].pc \in HoldPcs, frame[f].proj = currentProjectId
  PROVE  \A g \in Frames : frame[g].pc \notin LoadPcs
  BY DEF KInv, RInv, LoadsAreQuiet, LoadPcs, HoldPcs

-----------------------------------------------------------------------------
(***************************************************************************)
(* The calls of the user.                                                  *)
(***************************************************************************)
LEMMA EnqueueKeepsKInv ==
  ASSUME SInv, KInv, Timing # "anytime", NEW f \in Frames, NEW n \in 1..MaxTasks, Enqueue(f, n)
  PROVE  KInv'
<1> DEFINE new == (issued + 1)..(issued + n)
           r == EnqueueFrame(n)
<1>1. TypeOK' /\ Moves(f, r)
  BY EnqueueHome DEF StepKeepsHome
<1>2. /\ \A g \in Frames : frame[g].pc \notin LoadPcs /\ frame[g].pc # "pauseSave"
      /\ Saved(f) /\ currentProjectId \in Projects
  BY CallsFindQuiet DEF Enqueue, KInv
<1>3. issued \in Nat /\ n \in Nat /\ issued' = issued + n /\ issued <= issued' /\ new = (issued + 1)..issued'
  BY NumberAssumption, SMTT(30) DEF SInv, TypeOK, Enqueue
<1>4. queue \in SUBSET TaskRecord /\ Known(queue, issued, owner) /\ Ids(queue) \subseteq Issued
  BY QueueIsKnown DEF SInv, TypeOK, KInv, CInv, TasksAreKnown
<1>5. /\ \A t \in Tasks : owner'[t] = IF t \in new THEN currentProjectId ELSE owner[t]
      /\ \A t \in Issued : t \in Tasks /\ t \notin new
      /\ new \subseteq Tasks
  <2>1. \A t \in Issued : t \in Tasks /\ t \notin new
    BY <1>3, NumbersAreTyped DEF Issued, KInv
  <2>2. new \subseteq Tasks
    <3>1. issued + n <= MaxTasks /\ MaxTasks \in Nat
      BY NumberAssumption DEF Enqueue
    <3> QED
      BY <1>3, <3>1 DEF Tasks
  <2> QED
    BY <2>1, <2>2 DEF Enqueue
<1>6. queue' = queue \cup {NewTask(t) : t \in new}
  BY DEF Enqueue
<1>7. \A t \in new : NewTask(t).id = t /\ NewTask(t).proj = currentProjectId
  BY DEF NewTask
<1>8. Ids(queue') = Ids(queue) \cup new
  BY <1>6, <1>7 DEF Ids
<1>9. Known(queue', issued', owner')
  <2>1. Known(queue, issued', owner')
    BY <1>3, <1>4, <1>5, KnownStays
  <2>2. \A t \in queue : t.id \in Issued
    BY <1>4, IdsAreIssued
  <2>3. \A t \in new : t <= issued' /\ owner'[t] = currentProjectId
    BY <1>3, <1>5
  <2> HIDE DEF new
  <2> QED
    BY <1>5, <1>6, <1>7, <2>1, <2>2, <2>3 DEF Known
<1>10. r.pc = "saveOp" /\ r.adds = new /\ r.drops = {} /\ r.loaded = {}
  BY OpFields DEF EnqueueFrame
<1>11. Reliable => SavesAll(f, new)
  BY <1>2, <1>8, MemoryIsLast DEF Enqueue
<1>12. Saves(f, r, new, {})
  <2>1. r.pc \in SavePcs /\ r.pc \notin HoldPcs /\ r.pc \in OpPcs
    BY <1>10 DEF SavePcs, HoldPcs, OpPcs
  <2> HIDE DEF new, r
  <2> QED
    BY <1>1, <1>2, <1>3, <1>5, <1>8, <1>9, <1>10, <1>11, <2>1 DEF Saves, Enqueue
<1> QED
  BY <1>1, <1>12, SaveIsKept

LEMMA RetryKeepsKInv ==
  ASSUME SInv, KInv, Timing # "anytime", NEW f \in Frames, NEW t \in queue, retryTask(f, t)
  PROVE  KInv'
<1> DEFINE r == Call("saveOp", NoProject)
           u == [t EXCEPT !.status = "pending"]
<1>1. TypeOK' /\ StepKeepsHome(f, r)
  BY RetryHome
<1>2. /\ \A g \in Frames : frame[g].pc \notin LoadPcs /\ frame[g].pc # "pauseSave"
      /\ Saved(f) /\ currentProjectId \in Projects
  BY CallsFindQuiet DEF retryTask, KInv
<1>3. t \in TaskRecord /\ Kept(t, u)
  BY TaskUpdates DEF SInv, TypeOK
<1>4. queue' = (queue \ {t}) \cup {u}
  BY DEF retryTask
<1> HIDE DEF u
<1>5. Known(queue, issued, owner)
  BY DEF KInv, CInv, TasksAreKnown
<1>6. Known(queue', issued, owner) /\ Ids(queue') = Ids(queue)
  BY <1>3, <1>4, <1>5 DEF Known, Kept, Ids
<1>7. /\ r.pc = "saveOp" /\ r.adds = {} /\ r.drops = {} /\ r.loaded = {}
      /\ r.pc \in SavePcs /\ r.pc \notin HoldPcs /\ r.pc \in OpPcs
  BY CallFields DEF SavePcs, HoldPcs, OpPcs
<1>8. budget'.failures = budget.failures
  BY SpendIsTyped DEF retryTask, SInv
<1> HIDE DEF r
<1>9. Resaves(f, r, {})
  BY <1>1, <1>2, <1>6, <1>7, <1>8 DEF Resaves, retryTask, history
<1> QED
  BY <1>1, <1>9, ResaveIsKept

LEMMA DropKeepsKInv ==
  ASSUME SInv, KInv, Timing # "anytime", NEW f \in Frames, NEW pc \in OpPcs, NEW q, NEW gone,
         Drop(f, pc, q, gone), gone = Ids(queue) \ Ids(q)
  PROVE  KInv'
<1> DEFINE r == DropFrame(pc, gone)
<1>1. gone \in SUBSET Tasks
  BY IdsAreTasks DEF SInv, TypeOK
<1>2. TypeOK' /\ StepKeepsHome(f, r)
  BY <1>1, DropHome DEF OpPcs
<1>3. /\ \A g \in Frames : frame[g].pc \notin LoadPcs /\ frame[g].pc # "pauseSave"
      /\ Saved(f) /\ currentProjectId \in Projects
  BY CallsFindQuiet DEF Drop, KInv
<1>4. queue' = q /\ q \subseteq queue /\ Known(queue, issued, owner)
  BY DEF Drop, KInv, CInv, TasksAreKnown
<1>5. Known(queue', issued, owner) /\ Ids(q) \subseteq Ids(queue)
  BY <1>4 DEF Known, Ids
<1>6. Ids(queue') = Ids(queue) \ gone
  BY <1>4, <1>5
<1>7. /\ r.pc = pc /\ r.adds = {} /\ r.drops = gone /\ r.loaded = {}
      /\ r.pc \in SavePcs /\ r.pc \notin HoldPcs /\ r.pc \in OpPcs
  BY OpFields DEF DropFrame, SavePcs, HoldPcs, OpPcs
<1>8. budget'.failures = budget.failures
  BY SpendIsTyped DEF Drop, SInv
<1> HIDE DEF r
<1>9. Resaves(f, r, gone)
  BY <1>2, <1>3, <1>5, <1>6, <1>7, <1>8 DEF Resaves, Drop
<1> QED
  BY <1>2, <1>9, ResaveIsKept

LEMMA UserKeepsKInv ==
  ASSUME SInv, KInv, Timing # "anytime", NEW f \in Frames, UserStep(f)
  PROVE  KInv'
<1>1. ASSUME NEW n \in 1..MaxTasks, Enqueue(f, n) PROVE KInv'
  BY <1>1, EnqueueKeepsKInv
<1>2. ASSUME NEW t \in queue, retryTask(f, t) PROVE KInv'
  BY <1>2, RetryKeepsKInv
<1>3. ASSUME NEW t \in queue, cancelTask(f, t) PROVE KInv'
  <2>1. Drop(f, "saveOp", queue \ {t}, {t.id})
    BY <1>3, CancelDrops
  <2>2. \A u \in queue : u.id = t.id => u = t
    BY DEF KInv, CInv, TasksAreKnown, Known
  <2>3. {t.id} = Ids(queue) \ Ids(queue \ {t})
    BY <2>2 DEF Ids
  <2> QED
    BY <2>1, <2>3, DropKeepsKInv DEF OpPcs
<1>4. ASSUME clearCompletedTasks(f) PROVE KInv'
  BY <1>4, ClearDrops, DropKeepsKInv DEF OpPcs
<1>5. ASSUME cancelAllTasks(f) PROVE KInv'
  BY <1>5, CancelAllDrops, DropKeepsKInv DEF OpPcs
<1> QED
  BY <1>1, <1>2, <1>3, <1>4, <1>5 DEF UserStep

-----------------------------------------------------------------------------
(***************************************************************************)
(* The runner's saves.                                                     *)
(***************************************************************************)
LEMMA ToPendingIsKnown ==
  ASSUME NEW q \in SUBSET TaskRecord, Known(q, issued, owner)
  PROVE  Known(ToPending(q), issued, owner) /\ Ids(ToPending(q)) = Ids(q)
<1> DEFINE g(t) == IF t.status = "processing" THEN [t EXCEPT !.status = "pending"] ELSE t
<1>1. Rewritten(q, ToPending(q))
  BY ToPendingRewrites
<1>2. \A t \in q : Kept(t, g(t))
  BY TaskUpdates DEF Kept
<1>3. ToPending(q) = {g(t) : t \in q}
  BY DEF ToPending
<1> HIDE DEF g
<1>4. ASSUME NEW t \in ToPending(q), NEW u \in ToPending(q), t.id = u.id PROVE t = u
  <2>1. PICK a \in q : t = g(a)
    BY <1>3
  <2>2. PICK b \in q : u = g(b)
    BY <1>3
  <2>3. a.id = b.id
    BY <1>2, <1>4, <2>1, <2>2 DEF Kept
  <2> QED
    BY <2>1, <2>2, <2>3 DEF Known
<1> QED
  BY <1>1, <1>4, RewrittenIsKnown, RewrittenIds

\* Of the tasks in memory a call holds at most one.
LEMMA HeldIsOne ==
  ASSUME SInv, CInv, NEW f \in Frames
  PROVE  /\ \A t, u \in Held(f) : t = u
         /\ \A t \in Held(f), u \in queue \ Held(f) : t.id # u.id
         /\ Held(f) \subseteq queue /\ queue \subseteq TaskRecord
<1>1. \A t, u \in queue : t.id = u.id => t = u
  BY DEF CInv, TasksAreKnown, Known
<1> QED
  BY <1>1 DEF Held, SInv, TypeOK

LEMMA UpdateIsKnown ==
  ASSUME SInv, CInv, NEW f \in Frames,
         \/ queue' = (queue \ Held(f)) \cup {Fail(t) : t \in Held(f)}
         \/ queue' = (queue \ Held(f)) \cup {Start(t) : t \in Held(f)}
         \/ queue' = (queue \ Held(f)) \cup {Tried(t) : t \in Held(f)}
  PROVE  Known(queue', issued, owner) /\ Ids(queue') = Ids(queue)
<1>1. Rewritten(queue, queue')
  BY UpdateRewrites
<1>2. /\ \A t, u \in Held(f) : t = u
      /\ \A t \in Held(f), u \in queue \ Held(f) : t.id # u.id
      /\ Held(f) \subseteq queue /\ queue \subseteq TaskRecord
  BY HeldIsOne
<1>3. \A t \in Held(f) : Fail(t).id = t.id /\ Start(t).id = t.id /\ Tried(t).id = t.id
  BY <1>2, TaskUpdates DEF Kept
<1>4. Known(queue, issued, owner)
  BY DEF CInv, TasksAreKnown
<1>5. \A t, u \in queue \ Held(f) : t.id = u.id => t = u
  BY <1>4 DEF Known
<1>6. \A t, u \in queue' : t.id = u.id => t = u
  <2>1. CASE queue' = (queue \ Held(f)) \cup {Fail(t) : t \in Held(f)}
    BY <1>2, <1>3, <1>5, <2>1
  <2>2. CASE queue' = (queue \ Held(f)) \cup {Start(t) : t \in Held(f)}
    BY <1>2, <1>3, <1>5, <2>2
  <2>3. CASE queue' = (queue \ Held(f)) \cup {Tried(t) : t \in Held(f)}
    BY <1>2, <1>3, <1>5, <2>3
  <2> QED
    BY <2>1, <2>2, <2>3
<1> QED
  BY <1>1, <1>4, <1>6, RewrittenIsKnown, RewrittenIds

LEMMA RunnerSavesKeepKInv ==
  ASSUME SInv, KInv, NEW f \in Frames, NEW r \in FrameState, NEW gone, RunnerSaves(f, r),
         gone \subseteq Ids(queue) \cup {frame[f].task},
         dropped' = dropped \cup gone, r.drops \subseteq gone \cup frame[f].drops, r.adds \subseteq frame[f].adds,
         r.loaded \in {{}, frame[f].loaded},
         queue' \subseteq TaskRecord, \A t \in queue' : \E u \in queue : Kept(u, t),
         Known(queue', issued, owner), Ids(queue') = Ids(queue) \ gone
  PROVE  KInv'
<1>1. dropped' \subseteq Tasks
  <2>1. frame[f].task \in Tasks
    BY DEF RunnerSaves, SInv, FramesKnow, Knows
  <2> QED
    BY <2>1, IdsAreTasks DEF SInv, TypeOK
<1>2. TypeOK' /\ Moves(f, r) /\ currentProjectId \in Projects
  BY <1>1, RunnerSavesHome DEF StepKeepsHome
<1>3. Saved(f)
  BY WaitersOnly DEF RunnerSaves, KInv, SavePcs
<1>4. gone \subseteq Issued /\ \A t \in gone : owner[t] = currentProjectId
  BY QueueIsKnown DEF RunnerSaves, KInv, CInv, NumbersAreKnown
<1>5. issued \in Nat
  BY NumberAssumption DEF SInv, TypeOK
<1>6. {} = (issued + 1)..issued' /\ issued <= issued'
  BY <1>5 DEF RunnerSaves
<1>7. Reliable => SavesAll(f, {})
  BY RunnersFindQuiet, MemoryIsLast DEF RunnerSaves
<1>8. r.pc \in SavePcs /\ r.pc \notin OpPcs
  BY DEF RunnerSaves, SavePcs, OpPcs
<1>9. r.pc \in HoldPcs => frame[f].pc \in HoldPcs /\ r.task = frame[f].task /\ r.proj = frame[f].proj
  BY MovedOnFields DEF RunnerSaves, HoldPcs, Awaits
<1>10. Saves(f, r, {}, gone)
  BY <1>2, <1>3, <1>4, <1>6, <1>7, <1>8, <1>9 DEF RunnerSaves, Saves
<1> QED
  BY <1>2, <1>10, SaveIsKept

LEMMA RunnerMovesKeepKInv ==
  ASSUME SInv, KInv, NEW f \in Frames, NEW r \in FrameState, RunnerSaves(f, r), Rewritten(queue, queue'),
         dropped' = dropped, Known(queue', issued, owner), Ids(queue') = Ids(queue),
         r.adds \subseteq frame[f].adds, r.drops \subseteq frame[f].drops, r.loaded \in {{}, frame[f].loaded}
  PROVE  KInv'
  BY RunnerSavesKeepKInv DEF Rewritten

LEMMA RunnerSaveStepsKeepKInv ==
  ASSUME SInv, KInv, NEW f \in Frames,
         RunnerLost(f) \/ RunnerStarts(f) \/ RunnerUnconfigured(f) \/ RunnerSucceeds(f) \/ RunnerFails(f)
  PROVE  KInv'
<1> DEFINE next == Call("saveThenNext", currentProjectId)
           done == Call("saveDone", currentProjectId)
           start == MovedOn(f, "saveStart")
<1>1. /\ next.adds = {} /\ next.drops = {} /\ next.loaded = {}
      /\ done.adds = {} /\ done.drops = {} /\ done.loaded = {}
      /\ start.adds = frame[f].adds /\ start.drops = frame[f].drops /\ start.loaded = frame[f].loaded
  BY CallFields, MovedOnFields DEF Awaits
<1>2. CASE RunnerLost(f)
  <2>1. Known(queue', issued, owner) /\ Ids(queue') = Ids(queue)
    BY <1>2, UpdateIsKnown DEF RunnerLost, KInv
  <2>2. RunnerSaves(f, next) /\ next \in FrameState /\ Rewritten(queue, queue') /\ dropped' = dropped
    BY <1>2, RunnerLostSaves
  <2> HIDE DEF next
  <2> QED
    BY <1>1, <2>1, <2>2, RunnerMovesKeepKInv
<1>3. CASE RunnerStarts(f)
  <2>1. Known(queue', issued, owner) /\ Ids(queue') = Ids(queue)
    BY <1>3, UpdateIsKnown DEF RunnerStarts, KInv
  <2>2. RunnerSaves(f, start) /\ start \in FrameState /\ Rewritten(queue, queue') /\ dropped' = dropped
    BY <1>3, RunnerStartsSaves
  <2> HIDE DEF start
  <2> QED
    BY <1>1, <2>1, <2>2, RunnerMovesKeepKInv
<1>4. CASE RunnerUnconfigured(f)
  <2>1. Known(queue', issued, owner) /\ Ids(queue') = Ids(queue)
    BY <1>4, UpdateIsKnown DEF RunnerUnconfigured, KInv
  <2>2. RunnerSaves(f, next) /\ next \in FrameState /\ Rewritten(queue, queue') /\ dropped' = dropped
    BY <1>4, RunnerUnconfiguredSaves
  <2> HIDE DEF next
  <2> QED
    BY <1>1, <2>1, <2>2, RunnerMovesKeepKInv
<1>5. CASE RunnerFails(f)
  <2>1. Known(queue', issued, owner) /\ Ids(queue') = Ids(queue)
    BY <1>5, UpdateIsKnown DEF RunnerFails, KInv
  <2>2. RunnerSaves(f, done) /\ done \in FrameState /\ Rewritten(queue, queue') /\ dropped' = dropped
    BY <1>5, RunnerFailsSaves
  <2> HIDE DEF done
  <2> QED
    BY <1>1, <2>1, <2>2, RunnerMovesKeepKInv
<1>6. CASE RunnerSucceeds(f)
  <2> DEFINE gone == {frame[f].task}
  <2>1. /\ RunnerSaves(f, DoneFrame(f)) /\ DoneFrame(f) \in FrameState
        /\ queue' = {t \in queue : t.id # frame[f].task}
        /\ dropped' = dropped \cup gone
        /\ DoneFrame(f).adds = {} /\ DoneFrame(f).drops = gone /\ DoneFrame(f).loaded = {}
    BY <1>6, RunnerSucceedsSaves
  <2>2. Known(queue', issued, owner)
    BY <2>1 DEF KInv, CInv, TasksAreKnown, Known
  <2>3. Ids(queue') = Ids(queue) \ gone
    BY <2>1 DEF Ids
  <2>4. queue' \subseteq TaskRecord /\ \A t \in queue' : \E u \in queue : Kept(u, t)
    BY <2>1 DEF SInv, TypeOK, Kept
  <2> HIDE DEF gone
  <2>5. gone \subseteq Ids(queue) \cup {frame[f].task}
    BY DEF gone
  <2> QED
    BY <2>1, <2>2, <2>3, <2>4, <2>5, RunnerSavesKeepKInv
<1> QED
  BY <1>2, <1>3, <1>4, <1>5, <1>6

-----------------------------------------------------------------------------
(***************************************************************************)
(* Steps that leave the queue and the files as they are.                   *)
(***************************************************************************)
LEMMA RestKeepsKInv ==
  ASSUME SInv, TypeOK', KInv, NEW f \in Frames, NEW r, Rests(f, r)
  PROVE  KInv'
<1> DEFINE cur == currentProjectId
<1>1. /\ Moves(f, r) /\ Saved(f)
      /\ queue' = queue /\ cur' = cur /\ inflight' = inflight /\ disk' = disk
      /\ issued' = issued /\ budget' = budget /\ owner' = owner /\ dropped' = dropped
      /\ frame[f].pc \notin LoadPcs /\ r.pc \notin LoadPcs /\ r.pc \notin SavePcs /\ r.pc # "pauseSave"
  BY WaitersOnly DEF Rests, KInv, LoadPcs, SavePcs
<1>2. \A i \in DOMAIN inflight : inflight[i].by \in Frames \ {f}
  BY <1>1, NumbersAreTyped DEF KInv
<1>3. TasksAreKnown'
  <2>1. \A g \in Frames : frame'[g].loaded \in {{}, frame[g].loaded}
    BY <1>1 DEF Rests, Moves, Same
  <2>2. \A g \in Frames : Known(frame'[g].loaded, issued, owner)
    BY <2>1 DEF KInv, CInv, TasksAreKnown, Known
  <2> QED
    BY <1>1, <2>2 DEF KInv, CInv, TasksAreKnown
<1>4. NumbersAreKnown'
  <2>1. acked' \subseteq Issued /\ closed' \subseteq Issued
    BY DEF Rests, KInv, CInv, NumbersAreKnown
  <2>2. r.pc \in HoldPcs => r.task \in Issued /\ owner[r.task] = r.proj
    <3>1. CASE r.pc = "registry"
      BY <3>1, QueueIsKnown DEF Rests, KInv
    <3>2. CASE r.pc = "ingest"
      BY <3>2 DEF Rests, KInv, CInv, NumbersAreKnown, HoldPcs
    <3> QED
      BY <3>1, <3>2 DEF Rests, HoldPcs
  <2>3. ASSUME NEW g \in Frames
        PROVE  /\ frame'[g].adds \subseteq Issued /\ frame'[g].drops \subseteq Issued
               /\ frame'[g].pc \in HoldPcs => frame'[g].task \in Issued /\ owner[frame'[g].task] = frame'[g].proj
    <3>1. CASE g = f
      BY <1>1, <2>2, <3>1 DEF Rests, Moves, KInv, CInv, NumbersAreKnown
    <3>2. CASE g # f
      BY <1>1, <3>2 DEF Moves, Same, KInv, CInv, NumbersAreKnown
    <3> QED
      BY <3>1, <3>2
  <2>4. Issued' = Issued /\ dropped \subseteq Issued /\ \A t \in Issued : owner[t] \in Projects
    BY <1>1 DEF Issued, KInv, CInv, NumbersAreKnown
  <2> HIDE DEF Issued
  <2> QED
    BY <1>1, <2>1, <2>3, <2>4 DEF NumbersAreKnown
<1>5. CInv'
  BY <1>1, <1>2, <1>3, <1>4 DEF Moves, Same, KInv, CInv, WritersWait, NotTorn
<1>6. ASSUME Reliable PROVE RInv'
  <2>1. RInv
    BY <1>6 DEF KInv
  <2>2. WritesEndWithTheVisit'
    BY <1>1, <1>2, <2>1 DEF RInv, WritesEndWithTheVisit, Moves, Same
  <2>3. LoadsAreQuiet'
    <3> SUFFICES ASSUME NEW h \in Frames, frame'[h].pc \in LoadPcs
                 PROVE  /\ \A i \in DOMAIN inflight : inflight[i].file # cur
                        /\ \A g \in Frames : frame'[g].proj = cur => g = h \/ frame'[g].pc \in {"sweep", "idle"}
                        /\ frame'[h].pc = "restoreLoaded" => frame'[h].loaded = disk[cur]
      BY <1>1 DEF LoadsAreQuiet
    <3>1. h # f /\ Same(h) /\ frame[h].pc \in LoadPcs
      BY <1>1 DEF Moves, Same
    <3>2. ASSUME frame'[f].proj = cur PROVE frame'[f].pc \in {"sweep", "idle"}
      <4>1. r.pc # "registry"
        BY <3>1 DEF Rests, Ids, SInv, LoadsIntoEmpty, LoadPcs
      <4>2. r.pc # "ingest"
        BY <2>1, <3>1 DEF Rests, RInv, LoadsAreQuiet, LoadPcs
      <4> QED
        BY <1>1, <4>1, <4>2 DEF Rests, Moves
    <3> QED
      BY <1>1, <2>1, <3>1, <3>2 DEF RInv, LoadsAreQuiet, Moves, Same
  <2>4. TasksArePassedOn'
    <3>1. Loading' <=> Loading
      BY <1>1 DEF Loading, Moves, Same
    <3>2. \A t \in frame[f].adds \ dropped : t \in Issued /\ InFile(disk, owner, t)
      BY <1>2, <2>1 DEF RInv, TasksArePassedOn, KInv, CInv, NumbersAreKnown
    <3>3. \A t \in acked' \ dropped : InFile(disk, owner, t)
      BY <2>1, <3>2 DEF Rests, RInv, TasksArePassedOn, KInv, CInv, NumbersAreKnown
    <3>4. \A g \in Frames : frame'[g].adds \subseteq frame[g].adds
      BY <1>1 DEF Rests, Moves, Same
    <3>5. Issued' = Issued
      BY <1>1 DEF Issued
    <3> QED
      BY <1>1, <2>1, <3>1, <3>3, <3>4, <3>5 DEF RInv, TasksArePassedOn
  <2>5. DroppedTasksLeave'
    <3>1. \A t \in frame[f].drops : /\ t \notin Ids(queue) /\ ~InFile(disk, owner, t)
                                    /\ \A i \in DOMAIN inflight : ~InWrite(inflight, owner, i, t)
      BY <1>2, <2>1 DEF RInv, DroppedTasksLeave
    <3>2. \A t \in closed' : /\ t \notin Ids(queue) /\ ~InFile(disk, owner, t)
                             /\ \A i \in DOMAIN inflight : ~InWrite(inflight, owner, i, t)
      BY <2>1, <3>1 DEF Rests, RInv, DroppedTasksLeave
    <3>3. \A g \in Frames : frame'[g].drops \subseteq frame[g].drops
      BY <1>1 DEF Rests, Moves, Same
    <3> QED
      BY <1>1, <2>1, <3>2, <3>3 DEF RInv, DroppedTasksLeave
  <2> QED
    BY <2>2, <2>3, <2>4, <2>5 DEF RInv
<1> QED
  BY <1>1, <1>5, <1>6 DEF KInv, Reliable

LEMMA RunnerKeepsKInv ==
  ASSUME SInv, KInv, NEW f \in Frames, RunnerStep(f)
  PROVE  KInv'
<1>1. ASSUME RunnerBails(f) PROVE KInv'
  BY <1>1, RunnerBailsRests, RestKeepsKInv
<1>2. ASSUME RunnerIngests(f) PROVE KInv'
  BY <1>2, RunnerIngestsRests, RestKeepsKInv
<1>3. ASSUME RunnerGoesOn(f) PROVE KInv'
  BY <1>3, RunnerGoesOnRests, RestKeepsKInv
<1> QED
  BY <1>1, <1>2, <1>3, RunnerSaveStepsKeepKInv DEF RunnerStep

-----------------------------------------------------------------------------
(***************************************************************************)
(* The project switch.                                                     *)
(***************************************************************************)
\* A step of a switch that writes nothing.
Turns(f, r) ==
  /\ Moves(f, r) /\ Saved(f) /\ queue' \subseteq queue
  /\ UNCHANGED <<inflight, disk, issued, budget, owner, acked, dropped, closed>>
  /\ r.pc \notin SavePcs /\ r.pc \notin HoldPcs
  /\ r.adds \subseteq frame[f].adds /\ r.drops \subseteq frame[f].drops
  /\ Known(r.loaded, issued, owner)

\* The list in memory holds what is in the file.
MemoryHolds ==
  \A t \in Issued \ dropped :
    /\ currentProjectId = owner[t] /\ ~Loading
    /\ InFile(disk, owner, t) \/ \E i \in DOMAIN inflight : InWrite(inflight, owner, i, t)
    => t \in Ids(queue)

LEMMA TurnKeepsKInv ==
  ASSUME SInv, KInv, NEW f \in Frames, NEW r, Turns(f, r),
         Reliable => WritesEndWithTheVisit' /\ LoadsAreQuiet' /\ MemoryHolds'
  PROVE  KInv'
<1>1. \A i \in DOMAIN inflight : inflight[i].by \in Frames \ {f}
  BY NumbersAreTyped DEF KInv, Turns
<1>2. TasksAreKnown'
  <2>1. \A g \in Frames : Known(frame'[g].loaded, issued, owner)
    <3>1. \A g \in Frames \ {f} : frame'[g].loaded = frame[g].loaded
      BY DEF Turns, Moves, Same
    <3>2. frame'[f].loaded = r.loaded
      BY DEF Turns, Moves
    <3> QED
      BY <3>1, <3>2 DEF Turns, KInv, CInv, TasksAreKnown
  <2>2. Known(queue', issued, owner)
    BY DEF Turns, KInv, CInv, TasksAreKnown, Known
  <2>3. (\A p \in Projects : disk[p] # Torn => Known(disk[p], issued, owner))
        /\ \A i \in DOMAIN inflight : Known(inflight[i].content, issued, owner)
    BY DEF KInv, CInv, TasksAreKnown
  <2> QED
    BY <2>1, <2>2, <2>3 DEF Turns, TasksAreKnown
<1>3. NumbersAreKnown'
  <2>1. ASSUME NEW g \in Frames
        PROVE  /\ frame'[g].adds \subseteq Issued /\ frame'[g].drops \subseteq Issued
               /\ frame'[g].pc \in HoldPcs => frame'[g].task \in Issued /\ owner[frame'[g].task] = frame'[g].proj
    <3>1. CASE g = f
      BY <3>1 DEF Turns, Moves, KInv, CInv, NumbersAreKnown
    <3>2. CASE g # f
      BY <3>2 DEF Turns, Moves, Same, KInv, CInv, NumbersAreKnown
    <3> QED
      BY <3>1, <3>2
  <2>2. Issued' = Issued
    BY DEF Turns, Issued
  <2>3. /\ acked' \subseteq Issued /\ dropped' \subseteq Issued /\ closed' \subseteq Issued
        /\ \A t \in Issued : owner'[t] \in Projects
    BY DEF Turns, KInv, CInv, NumbersAreKnown
  <2> HIDE DEF Issued
  <2> QED
    BY <2>1, <2>2, <2>3 DEF Turns, NumbersAreKnown
<1>4. CInv'
  BY <1>1, <1>2, <1>3 DEF Turns, Moves, Same, KInv, CInv, WritersWait, NotTorn
<1>5. ASSUME Reliable PROVE RInv'
  <2>1. /\ TasksArePassedOn /\ DroppedTasksLeave
        /\ WritesEndWithTheVisit' /\ LoadsAreQuiet' /\ MemoryHolds'
    BY <1>5 DEF KInv, RInv
  <2>2. Issued' = Issued /\ UNCHANGED <<inflight, disk, owner, acked, dropped, closed>>
    BY DEF Turns, Issued
  <2>3. \A g \in Frames : frame'[g].adds \subseteq frame[g].adds /\ frame'[g].drops \subseteq frame[g].drops
    BY DEF Turns, Moves, Same
  <2>4. Ids(queue') \subseteq Ids(queue)
    BY DEF Turns, Ids
  <2>5. TasksArePassedOn'
    BY <2>1, <2>2, <2>3 DEF TasksArePassedOn, MemoryHolds
  <2>6. DroppedTasksLeave'
    BY <2>1, <2>2, <2>3, <2>4 DEF DroppedTasksLeave
  <2> QED
    BY <2>1, <2>5, <2>6 DEF RInv
<1> QED
  BY <1>4, <1>5 DEF KInv, Reliable, Turns

LEMMA PauseStartKeepsKInv ==
  ASSUME SInv, KInv, Timing # "anytime", NEW f \in Frames, PauseStart(f)
  PROVE  KInv'
<1> DEFINE r == Call("pauseSave", currentProjectId)
<1>1. /\ TypeOK' /\ StepKeepsHome(f, r)
      /\ queue' = ToPending(queue) /\ Save(f, currentProjectId, queue')
      /\ budget'.failures = budget.failures
  BY PauseStartHome
<1>2. /\ \A g \in Frames : frame[g].pc \notin LoadPcs
      /\ Saved(f) /\ currentProjectId \in Projects
  BY CallsFindQuiet DEF PauseStart, KInv
<1>3. Known(queue', issued, owner) /\ Ids(queue') = Ids(queue)
  BY <1>1, ToPendingIsKnown DEF SInv, TypeOK, KInv, CInv, TasksAreKnown
<1>4. /\ r.pc = "pauseSave" /\ r.proj = currentProjectId /\ r.adds = {} /\ r.drops = {} /\ r.loaded = {}
      /\ r.pc \in SavePcs /\ r.pc \notin HoldPcs /\ r.pc \notin OpPcs
  BY CallFields DEF SavePcs, HoldPcs, OpPcs
<1> HIDE DEF r
<1>5. Resaves(f, r, {})
  BY <1>1, <1>2, <1>3, <1>4 DEF Resaves, PauseStart, history
<1> QED
  BY <1>1, <1>5, ResaveIsKept

LEMMA PauseEndKeepsKInv ==
  ASSUME SInv, KInv, NEW f \in Frames, PauseEnd(f)
  PROVE  KInv'
<1>1. Moves(f, IdleFrame)
  BY PauseEndHome
<1>2. /\ frame[f].pc = "pauseSave" /\ Saved(f) /\ queue' = {} /\ currentProjectId' = NoProject
      /\ UNCHANGED <<inflight, disk, issued, budget, owner, acked, dropped, closed>>
  BY DEF PauseEnd, Resume, history
<1>3. Turns(f, IdleFrame)
  <2>1. Known({}, issued, owner)
    BY DEF Known
  <2> QED
    BY <1>1, <1>2, <2>1, CallFields DEF Turns, SavePcs, HoldPcs
<1>4. ASSUME Reliable PROVE WritesEndWithTheVisit' /\ LoadsAreQuiet' /\ MemoryHolds'
  <2>1. WritesEndWithTheVisit'
    <3>1. \A i \in DOMAIN inflight : inflight[i].by \in Frames \ {f}
      BY <1>2, NumbersAreTyped DEF KInv
    <3>2. \A i \in DOMAIN inflight : /\ frame[inflight[i].by].pc \notin OpPcs
                                     /\ inflight[i].file = frame[inflight[i].by].proj
      BY <1>2, <1>4, <3>1 DEF KInv, RInv, WritesEndWithTheVisit, Saved
    <3> QED
      BY <1>1, <1>2, <3>1, <3>2 DEF WritesEndWithTheVisit, Moves, Same
  <2>2. \A g \in Frames : frame'[g].pc \notin LoadPcs
    BY <1>1, <1>2, CallFields DEF Moves, Same, SInv, OneSwitch, SwitchPcs, LoadPcs
  <2>3. LoadsAreQuiet'
    BY <2>2 DEF LoadsAreQuiet
  <2>4. MemoryHolds'
    BY <1>2, AbsentAssumption DEF MemoryHolds, Issued, KInv, CInv, NumbersAreKnown
  <2> QED
    BY <2>1, <2>3, <2>4
<1> QED
  BY <1>3, <1>4, TurnKeepsKInv

LEMMA RestoreStartKeepsKInv ==
  ASSUME SInv, KInv, ~EarlyReturns, NEW f \in Frames, NEW p \in Projects, RestoreStart(f, p)
  PROVE  KInv'
<1> DEFINE r == Call("restoreLoad", p)
<1>1. Moves(f, r)
  BY RestoreStartHome
<1>2. r.pc = "restoreLoad" /\ r.proj = p /\ r.adds = {} /\ r.drops = {} /\ r.loaded = {}
  BY CallFields
<1>3. frame[f].pc = "idle" /\ Saved(f)
  <2>1. frame[f].pc = "idle"
    BY CallFields DEF RestoreStart, FreeFrame
  <2> QED
    BY <2>1, WaitersOnly DEF KInv, SavePcs
<1> HIDE DEF r
<1>4. /\ queue' = {} /\ currentProjectId = NoProject /\ currentProjectId' = p
      /\ \A g \in Frames : frame[g].proj # p
      /\ UNCHANGED <<inflight, disk, issued, budget, owner, acked, dropped, closed>>
  BY DEF RestoreStart, history
<1>5. Turns(f, r)
  <2>1. Known({}, issued, owner)
    BY DEF Known
  <2> QED
    BY <1>1, <1>2, <1>3, <1>4, <2>1 DEF Turns, SavePcs, HoldPcs
<1>6. ASSUME Reliable PROVE WritesEndWithTheVisit' /\ LoadsAreQuiet' /\ MemoryHolds'
  <2>1. \A i \in DOMAIN inflight : inflight[i].by \in Frames \ {f} /\ inflight[i].file \in Projects
    BY <1>3, NumbersAreTyped DEF KInv
  <2>2. \A i \in DOMAIN inflight : /\ frame[inflight[i].by].pc \notin OpPcs
                                   /\ inflight[i].file = frame[inflight[i].by].proj
    BY <1>4, <1>6, <2>1, AbsentAssumption DEF KInv, RInv, WritesEndWithTheVisit
  <2>3. WritesEndWithTheVisit'
    BY <1>1, <1>4, <2>1, <2>2 DEF WritesEndWithTheVisit, Moves, Same
  <2>4. \A g \in Frames : frame'[g].pc \in LoadPcs => g = f
    BY <1>1, <1>4, NobodySwitches DEF Moves, Same, LoadPcs, SwitchPcs
  <2>5. \A g \in Frames : frame'[g].proj = p => g = f
    BY <1>1, <1>4 DEF Moves, Same
  <2>6. \A i \in DOMAIN inflight : inflight[i].file # p
    BY <1>4, <2>1, <2>2
  <2>7. LoadsAreQuiet'
    BY <1>1, <1>2, <1>4, <2>4, <2>5, <2>6 DEF LoadsAreQuiet, Moves
  <2>8. MemoryHolds'
    BY <1>1, <1>2 DEF MemoryHolds, Loading, Moves, LoadPcs
  <2> QED
    BY <2>3, <2>7, <2>8
<1> QED
  BY <1>5, <1>6, TurnKeepsKInv

LEMMA RestoreReadKeepsKInv ==
  ASSUME SInv, KInv, NEW f \in Frames, RestoreRead(f)
  PROVE  KInv'
<1> DEFINE cur == currentProjectId
<1>1. PICK r \in FrameState :
        /\ StepKeepsHome(f, r)
        /\ frame[f].pc = "restoreLoad" /\ r.pc = "restoreLoaded" /\ r.proj = frame[f].proj
        /\ r.adds = frame[f].adds /\ r.drops = frame[f].drops
        /\ \/ disk[r.proj] # Torn /\ r.loaded = disk[r.proj]
           \/ r.loaded = frame[f].loaded
              /\ (disk[r.proj] = Torn \/ \E i \in DOMAIN inflight : inflight[i].file = r.proj)
  BY RestoreReadHome
<1>2. r.proj = cur /\ r.proj \in Projects
  BY <1>1 DEF SInv, FramesKnow, Knows, OneSwitch, SwitchPcs
<1>3. /\ UNCHANGED <<queue, currentProjectId, inflight, disk, issued, budget, owner, acked, dropped, closed>>
      /\ Moves(f, r)
  BY <1>1 DEF RestoreRead, memory, history, StepKeepsHome
<1>4. Turns(f, r)
  <2>1. Known(r.loaded, issued, owner)
    BY <1>1, <1>2 DEF KInv, CInv, TasksAreKnown
  <2>2. Saved(f)
    BY <1>1, WaitersOnly DEF KInv, SavePcs
  <2> QED
    BY <1>1, <1>3, <2>1, <2>2 DEF Turns, SavePcs, HoldPcs
<1>5. ASSUME Reliable PROVE WritesEndWithTheVisit' /\ LoadsAreQuiet' /\ MemoryHolds'
  <2>1. /\ \A i \in DOMAIN inflight : inflight[i].file # cur
        /\ \A g \in Frames : frame[g].proj = cur => g = f \/ frame[g].pc \in {"sweep", "idle"}
    BY <1>1, <1>5 DEF KInv, RInv, LoadsAreQuiet, LoadPcs
  <2>2. r.loaded = disk[cur]
    BY <1>1, <1>2, <2>1 DEF KInv, CInv, NotTorn
  <2>3. \A i \in DOMAIN inflight : inflight[i].by \in Frames \ {f}
    BY <1>4, NumbersAreTyped DEF KInv, Turns
  <2>4. WritesEndWithTheVisit'
    BY <1>1, <1>3, <1>5, <2>3 DEF KInv, RInv, WritesEndWithTheVisit, Moves, Same
  <2>5. \A g \in Frames : frame'[g].pc \in LoadPcs => g = f
    BY <1>1, <1>3 DEF Moves, Same, SInv, OneSwitch, SwitchPcs, LoadPcs
  <2>6. LoadsAreQuiet'
    BY <1>3, <2>1, <2>2, <2>5 DEF LoadsAreQuiet, Moves, Same
  <2>7. MemoryHolds'
    BY <1>1, <1>3 DEF MemoryHolds, Loading, Moves, LoadPcs
  <2> QED
    BY <2>4, <2>6, <2>7
<1> QED
  BY <1>4, <1>5, TurnKeepsKInv

LEMMA RestoreLoadedKeepsKInv ==
  ASSUME SInv, KInv, NEW f \in Frames, RestoreLoaded(f)
  PROVE  KInv'
<1> DEFINE cur == currentProjectId
<1>1. frame[f].pc = "restoreLoaded" /\ frame[f].proj = cur /\ cur \in Projects
  BY RestoreLoadedHome
<1>2. PICK r \in FrameState :
         /\ TypeOK' /\ StepKeepsHome(f, r)
         /\ \/ /\ frame[f].loaded = {} /\ r = IdleFrame /\ HoldsStay(f) /\ queue' = queue
               /\ inflight' = inflight
            \/ /\ r.pc = "restoreSave" /\ r.proj = cur
               /\ r.adds = frame[f].adds /\ r.drops = frame[f].drops /\ r.loaded = frame[f].loaded
               /\ Rewritten(Restored(f), queue') /\ queue' = ToPending(Restored(f))
               /\ Save(f, cur, queue')
  BY RestoreLoadedHome
<1>3. /\ UNCHANGED <<currentProjectId, disk, issued, budget, owner, acked, dropped, closed>>
      /\ Moves(f, r)
  BY <1>2 DEF RestoreLoaded, history, StepKeepsHome
<1>4. Saved(f)
  BY <1>1, WaitersOnly DEF KInv, SavePcs
<1>5. \A g \in Frames \ {f} : frame[g].pc \notin LoadPcs
  BY <1>1 DEF SInv, OneSwitch, SwitchPcs, LoadPcs
<1>6. Reliable => /\ \A i \in DOMAIN inflight : inflight[i].file # cur
                  /\ frame[f].loaded = disk[cur]
  BY <1>1 DEF KInv, RInv, LoadsAreQuiet, LoadPcs
<1>7. CASE frame[f].loaded = {} /\ r = IdleFrame /\ queue' = queue /\ inflight' = inflight
  <2>1. Turns(f, IdleFrame)
    <3>1. Known({}, issued, owner)
      BY DEF Known
    <3> QED
      BY <1>3, <1>4, <1>7, <3>1, CallFields DEF Turns, SavePcs, HoldPcs
  <2>2. ASSUME Reliable PROVE WritesEndWithTheVisit' /\ LoadsAreQuiet' /\ MemoryHolds'
    <3>1. \A i \in DOMAIN inflight : inflight[i].by \in Frames \ {f}
      BY <1>4, NumbersAreTyped DEF KInv
    <3>2. WritesEndWithTheVisit'
      BY <1>3, <1>7, <2>2, <3>1, CallFields DEF KInv, RInv, WritesEndWithTheVisit, Moves, Same
    <3>3. LoadsAreQuiet'
      BY <1>3, <1>5, <1>7, CallFields DEF LoadsAreQuiet, LoadPcs, Moves, Same
    <3>4. \A t : t \notin Ids(disk[cur])
      BY <1>6, <1>7, <2>2 DEF Ids
    <3>5. MemoryHolds'
      BY <1>3, <1>6, <1>7, <2>2, <3>4 DEF MemoryHolds, InFile, InWrite
    <3> QED
      BY <3>2, <3>3, <3>5
  <2> QED
    BY <2>1, <2>2, TurnKeepsKInv
<1>8. CASE /\ r.pc = "restoreSave" /\ r.proj = cur
           /\ r.adds = frame[f].adds /\ r.drops = frame[f].drops /\ r.loaded = frame[f].loaded
           /\ queue' = ToPending(Restored(f)) /\ Save(f, cur, queue')
  <2>1. Restored(f) \in SUBSET TaskRecord /\ Known(Restored(f), issued, owner)
    BY DEF Restored, SInv, TypeOK, FrameState, KInv, CInv, TasksAreKnown, Known
  <2>2. Known(queue', issued, owner) /\ Ids(queue') = Ids(Restored(f))
    BY <1>8, <2>1, ToPendingIsKnown
  <2>3. issued \in Nat /\ {} = (issued + 1)..issued' /\ issued <= issued'
    <3>1. issued \in Nat
      BY NumberAssumption DEF SInv, TypeOK
    <3> QED
      BY <1>3, <3>1
  <2>4. ASSUME Reliable PROVE SavesAll(f, {})
    <3>1. Restored(f) = disk[cur]
      BY <1>1, <1>6, <2>4 DEF Restored, SInv, AtHome, NoForeignTask, KInv, CInv, NotTorn
    <3>2. Ids(queue') = Ids(disk[cur])
      BY <2>2, <3>1
    <3> QED
      BY <1>5, <1>6, <2>4, <3>2 DEF SavesAll, InFile, InWrite
  <2>5. r.pc \in SavePcs /\ r.pc \notin HoldPcs /\ r.pc \notin OpPcs
    BY <1>8 DEF SavePcs, HoldPcs, OpPcs
  <2>6. Saves(f, r, {}, {})
    BY <1>1, <1>3, <1>4, <1>8, <2>2, <2>3, <2>4, <2>5 DEF Saves
  <2> QED
    BY <1>2, <2>6, SaveIsKept
<1> QED
  BY <1>2, <1>7, <1>8

LEMMA SessionKeepsKInv ==
  ASSUME SInv, KInv, Timing # "anytime", ~EarlyReturns, NEW f \in Frames, SessionStep(f)
  PROVE  KInv'
<1>1. ASSUME RestoreSaved(f) PROVE KInv'
  BY <1>1, RestoreSavedRests, RestKeepsKInv
<1> QED
  BY <1>1, PauseStartKeepsKInv, PauseEndKeepsKInv, RestoreStartKeepsKInv, RestoreReadKeepsKInv,
     RestoreLoadedKeepsKInv
  DEF SessionStep

-----------------------------------------------------------------------------
(***************************************************************************)
(* The file system and the process.                                        *)
(***************************************************************************)
\* What either end of a write leaves alone.
LEMMA EndedWriteKeepsCInv ==
  ASSUME SInv, CInv, NEW i, WriteEnds(i), budget' = budget \/ budget'.failures = budget.failures - 1,
         disk' = disk \/ disk' = [disk EXCEPT ![inflight[i].file] = inflight[i].content], SInv'
  PROVE  CInv'
<1>1. UNCHANGED <<queue, frame, issued, owner, acked, dropped, closed>>
  BY DEF WriteEnds, memory, history
<1>2. inflight \in Seq(WriteState)
  BY DEF SInv, TypeOK
<1>3. /\ i \in DOMAIN inflight
      /\ \A k \in DOMAIN inflight' : /\ Was(i, k) \in DOMAIN inflight
                                     /\ inflight'[k] = inflight[Was(i, k)]
                                     /\ Becomes(i, Was(i, k)) = k
  BY <1>2, WriteTaken
<1>4. inflight[i] \in WriteState
  BY <1>2, <1>3
<1>5. \A p \in Projects : disk'[p] = disk[p] \/ disk'[p] = inflight[i].content
  BY <1>4 DEF SInv, TypeOK, WriteState
<1>6. TasksAreKnown'
  BY <1>1, <1>3, <1>5 DEF CInv, TasksAreKnown, NotTorn
<1>7. NumbersAreKnown'
  BY <1>1 DEF CInv, NumbersAreKnown, Issued
<1>8. WritersWait'
  <2>1. \A k \in DOMAIN inflight' : frame'[inflight'[k].by].pc \in SavePcs
    BY <1>1, <1>3 DEF CInv, WritersWait
  <2>2. ASSUME NEW j \in DOMAIN inflight', NEW k \in DOMAIN inflight', inflight'[j].by = inflight'[k].by
        PROVE  j = k
    <3>1. Was(i, j) = Was(i, k)
      BY <1>3, <2>2 DEF CInv, WritersWait
    <3> QED
      BY <1>3, <3>1
  <2> QED
    BY <2>1, <2>2 DEF WritersWait
<1>9. NotTorn'
  <2>1. inflight[i].content \in SUBSET TaskRecord
    BY <1>4 DEF WriteState
  <2>2. \A q \in SUBSET TaskRecord : q # Torn
    <3> DEFINE cut == [id |-> 0, proj |-> NoProject, status |-> "torn", retryCount |-> 0]
    <3>1. cut \in Torn
      BY DEF Torn
    <3>2. cut.proj = NoProject
      OBVIOUS
    <3> HIDE DEF cut
    <3>3. cut \notin TaskRecord
      BY <3>2, AbsentAssumption DEF TaskRecord
    <3> QED
      BY <3>1, <3>3
  <2> QED
    BY <1>5, <2>1, <2>2 DEF CInv, NotTorn
<1>10. budget'.failures <= MaxFailures
  <2>1. budget.failures \in Nat /\ MaxFailures \in Nat
    BY NumberAssumption DEF SInv, TypeOK
  <2> QED
    BY <2>1 DEF CInv
<1> QED
  BY <1>6, <1>7, <1>8, <1>9, <1>10 DEF CInv

LEMMA WriteFailsKeepsKInv ==
  ASSUME SInv, KInv, NEW i, WriteFails(i)
  PROVE  KInv'
<1>1. SInv'
  BY FileStepsHome
<1>2. WriteEnds(i) /\ disk' = disk /\ budget'.failures = budget.failures - 1
  BY SpendIsTyped DEF WriteFails, SInv
<1>3. CInv'
  BY <1>1, <1>2, EndedWriteKeepsCInv DEF KInv
<1>4. ~Reliable'
  <2>1. budget.failures \in Nat /\ MaxFailures \in Nat
    BY NumberAssumption DEF SInv, TypeOK
  <2> QED
    BY <1>2, <2>1 DEF Reliable, KInv, CInv
<1> QED
  BY <1>3, <1>4 DEF KInv

LEMMA LandKeepsKInv ==
  ASSUME SInv, KInv, OrderedWrites, NEW i, Land(i)
  PROVE  KInv'
<1> DEFINE cur == currentProjectId
           w == inflight[i]
           D == DOMAIN inflight
           E == DOMAIN inflight'
<1>1. SInv'
  BY FileStepsHome
<1>2. /\ WriteEnds(i) /\ budget' = budget
      /\ disk' = [disk EXCEPT ![inflight[i].file] = inflight[i].content]
      /\ UNCHANGED <<queue, currentProjectId, frame, issued, owner, acked, dropped, closed>>
  BY DEF Land, WriteEnds, memory, history
<1>3. CInv'
  BY <1>1, <1>2, EndedWriteKeepsCInv DEF KInv
<1>4. inflight \in Seq(WriteState)
  BY DEF SInv, TypeOK
<1>5. /\ i \in D /\ D \subseteq Nat /\ E \subseteq Nat
      /\ \A k \in E : Was(i, k) \in D \ {i} /\ inflight'[k] = inflight[Was(i, k)]
      /\ \A k \in D \ {i} : Becomes(i, k) \in E /\ inflight'[Becomes(i, k)] = inflight[k]
      /\ \A j, k \in E : j < k => Was(i, j) < Was(i, k)
      /\ \A j, k \in D \ {i} : j < k => Becomes(i, j) < Becomes(i, k)
      /\ \A k \in E : Becomes(i, Was(i, k)) = k
  BY <1>2, <1>4, WriteTaken
<1>6. w \in WriteState /\ w.file \in Projects
  <2>1. w \in WriteState
    BY <1>4, <1>5
  <2> QED
    BY <2>1 DEF WriteState
\* It was the first of those to its file.
<1>7. ASSUME NEW k \in D, inflight[k].file = w.file, k # i PROVE k > i
  <2>1. k \in Nat /\ i \in Nat /\ k >= 1
    BY <1>4, <1>5, LenProperties
  <2>2. k \notin 1..(i - 1)
    BY <1>7 DEF Land
  <2> QED
    BY <1>7, <2>1, <2>2
<1>8. SUFFICES ASSUME Reliable PROVE RInv'
  BY <1>2, <1>3 DEF KInv, Reliable
<1>9. RInv
  BY <1>8 DEF KInv
<1>10. disk'[w.file] = w.content /\ \A p \in Projects : p # w.file => disk'[p] = disk[p]
  BY <1>2, <1>6 DEF SInv, TypeOK
<1> HIDE DEF D, E
\* The copies of a task.
<1>11. ASSUME NEW t \in Issued
       PROVE  /\ \A k \in E : InWrite(inflight', owner', k, t) <=> InWrite(inflight, owner, Was(i, k), t)
              /\ \A k \in D \ {i} : InWrite(inflight', owner', Becomes(i, k), t) <=> InWrite(inflight, owner, k, t)
              /\ owner[t] = w.file => (InFile(disk', owner', t) <=> InWrite(inflight, owner, i, t))
              /\ owner[t] # w.file => (InFile(disk', owner', t) <=> InFile(disk, owner, t))
  <2>1. owner' = owner /\ owner[t] \in Projects
    BY <1>2 DEF KInv, CInv, NumbersAreKnown
  <2> QED
    BY <1>5, <1>10, <2>1 DEF InFile, InWrite
<1>12. WritesEndWithTheVisit'
  <2> SUFFICES ASSUME NEW k \in E
               PROVE  /\ frame[inflight'[k].by].pc \in OpPcs =>
                           /\ inflight'[k].file = cur
                           /\ \A f \in Frames : frame[f].pc = "pauseSave" =>
                                \E j \in E : j > k /\ inflight'[j].by = f /\ inflight'[j].file = inflight'[k].file
                      /\ frame[inflight'[k].by].pc \notin OpPcs => inflight'[k].file = frame[inflight'[k].by].proj
    BY <1>2 DEF WritesEndWithTheVisit, E
  <2> DEFINE old == Was(i, k)
  <2>1. old \in D /\ old # i /\ inflight'[k] = inflight[old]
    BY <1>5
  <2>2. ASSUME frame[inflight[old].by].pc \in OpPcs, NEW f \in Frames, frame[f].pc = "pauseSave"
        PROVE  \E j \in E : j > k /\ inflight'[j].by = f /\ inflight'[j].file = inflight[old].file
    <3>1. PICK j \in D : j > old /\ inflight[j].by = f /\ inflight[j].file = inflight[old].file
      BY <1>9, <2>1, <2>2 DEF RInv, WritesEndWithTheVisit, D
    <3>2. j # i
      <4>1. j = i => old > i
        BY <1>7, <2>1, <3>1
      <4>2. j \in Nat /\ old \in Nat /\ i \in Nat
        BY <1>5, <2>1
      <4> QED
        BY <3>1, <4>1, <4>2
    <3>3. /\ Becomes(i, j) \in E /\ inflight'[Becomes(i, j)] = inflight[j]
          /\ Becomes(i, old) < Becomes(i, j) /\ Becomes(i, old) = k
      <4>1. j \in D \ {i} /\ old \in D \ {i} /\ old < j
        BY <1>5, <2>1, <3>1, <3>2
      <4> QED
        BY <1>5, <4>1
    <3>4. Becomes(i, j) > k
      BY <1>5, <3>3
    <3> QED
      BY <3>1, <3>3, <3>4
  <2>3. frame[inflight[old].by].pc \in OpPcs => inflight[old].file = cur
    BY <1>9, <2>1 DEF RInv, WritesEndWithTheVisit, D
  <2>4. frame[inflight[old].by].pc \notin OpPcs => inflight[old].file = frame[inflight[old].by].proj
    BY <1>9, <2>1 DEF RInv, WritesEndWithTheVisit, D
  <2> QED
    BY <2>1, <2>2, <2>3, <2>4
<1>13. LoadsAreQuiet'
  <2> SUFFICES ASSUME NEW f \in Frames, frame[f].pc \in LoadPcs
               PROVE  /\ \A k \in E : inflight'[k].file # cur
                      /\ \A g \in Frames : frame[g].proj = cur => g = f \/ frame[g].pc \in {"sweep", "idle"}
                      /\ frame[f].pc = "restoreLoaded" => frame[f].loaded = disk'[cur]
    BY <1>2 DEF LoadsAreQuiet, E
  <2>1. /\ \A k \in D : inflight[k].file # cur
        /\ \A g \in Frames : frame[g].proj = cur => g = f \/ frame[g].pc \in {"sweep", "idle"}
        /\ frame[f].pc = "restoreLoaded" => frame[f].loaded = disk[cur]
    BY <1>9 DEF RInv, LoadsAreQuiet, D
  <2>2. cur \in Projects
    BY DEF SInv, FramesKnow, Knows, OneSwitch, SwitchPcs, LoadPcs
  <2> QED
    BY <1>5, <1>10, <2>1, <2>2, ZenonT(60)
<1>14. TasksArePassedOn'
  <2> SUFFICES ASSUME NEW t \in Issued, t \notin dropped
               PROVE
    /\ \A j, k \in E :
         j < k /\ InWrite(inflight', owner', j, t) /\ inflight'[k].file = owner[t] => InWrite(inflight', owner', k, t)
    /\ InFile(disk', owner', t) =>
         \A k \in E : inflight'[k].file = owner[t] => InWrite(inflight', owner', k, t)
    /\ /\ cur = owner[t] /\ ~Loading
       /\ InFile(disk', owner', t) \/ \E k \in E : InWrite(inflight', owner', k, t)
       => t \in Ids(queue)
    /\ t \in acked => InFile(disk', owner', t)
    /\ \A f \in Frames : t \in frame[f].adds =>
         InFile(disk', owner', t) \/ \E k \in E : inflight'[k].by = f /\ InWrite(inflight', owner', k, t)
    BY <1>2 DEF TasksArePassedOn, E, Issued, Loading
  <2>1. /\ \A j, k \in D :
             j < k /\ InWrite(inflight, owner, j, t) /\ inflight[k].file = owner[t] => InWrite(inflight, owner, k, t)
        /\ InFile(disk, owner, t) =>
             \A k \in D : inflight[k].file = owner[t] => InWrite(inflight, owner, k, t)
        /\ /\ cur = owner[t] /\ ~Loading
           /\ InFile(disk, owner, t) \/ \E k \in D : InWrite(inflight, owner, k, t)
           => t \in Ids(queue)
        /\ t \in acked => InFile(disk, owner, t)
        /\ \A f \in Frames : t \in frame[f].adds =>
             InFile(disk, owner, t) \/ \E k \in D : inflight[k].by = f /\ InWrite(inflight, owner, k, t)
    BY <1>9 DEF RInv, TasksArePassedOn, D
  \* What was in the file stays there.
  <2>2. InFile(disk, owner, t) => InFile(disk', owner', t)
    BY <1>5, <1>11, <2>1
  <2>3. InFile(disk', owner', t) => InFile(disk, owner, t) \/ InWrite(inflight, owner, i, t)
    BY <1>11
  <2>4. ASSUME NEW j \in E, NEW k \in E, j < k, InWrite(inflight', owner', j, t), inflight'[k].file = owner[t]
        PROVE  InWrite(inflight', owner', k, t)
    <3>1. /\ Was(i, j) \in D /\ Was(i, k) \in D /\ Was(i, j) < Was(i, k)
          /\ InWrite(inflight, owner, Was(i, j), t) /\ inflight[Was(i, k)].file = owner[t]
      BY <1>5, <1>11, <2>4
    <3>2. InWrite(inflight, owner, Was(i, k), t)
      BY <2>1, <3>1
    <3> QED
      BY <1>11, <3>2
  <2>5. ASSUME InFile(disk', owner', t), NEW k \in E, inflight'[k].file = owner[t]
        PROVE  InWrite(inflight', owner', k, t)
    <3>1. Was(i, k) \in D /\ Was(i, k) # i /\ inflight[Was(i, k)].file = owner[t]
      BY <1>5, <2>5
    <3>2. InWrite(inflight, owner, Was(i, k), t)
      <4>1. CASE owner[t] = w.file
        <5>1. InWrite(inflight, owner, i, t) /\ Was(i, k) > i
          BY <1>7, <1>11, <2>5, <3>1, <4>1
        <5>2. Was(i, k) \in Nat /\ i \in Nat
          BY <1>5, <3>1
        <5>3. i < Was(i, k)
          BY <5>1, <5>2
        <5> QED
          BY <1>5, <2>1, <3>1, <5>1, <5>3
      <4>2. CASE owner[t] # w.file
        BY <1>11, <2>1, <2>5, <3>1, <4>2
      <4> QED
        BY <4>1, <4>2
    <3> QED
      BY <1>11, <3>2
  <2>6. ASSUME cur = owner[t], ~Loading,
               InFile(disk', owner', t) \/ \E k \in E : InWrite(inflight', owner', k, t)
        PROVE  t \in Ids(queue)
    <3>1. InFile(disk, owner, t) \/ \E k \in D : InWrite(inflight, owner, k, t)
      BY <1>5, <1>11, <2>3, <2>6
    <3> QED
      BY <2>1, <2>6, <3>1
  <2>7. ASSUME NEW f \in Frames, t \in frame[f].adds
        PROVE  InFile(disk', owner', t) \/ \E k \in E : inflight'[k].by = f /\ InWrite(inflight', owner', k, t)
    <3>1. CASE InFile(disk, owner, t)
      BY <2>2, <3>1
    <3>2. CASE \E k \in D : inflight[k].by = f /\ InWrite(inflight, owner, k, t)
      <4>1. PICK k \in D : inflight[k].by = f /\ InWrite(inflight, owner, k, t)
        BY <3>2
      <4>2. CASE k = i
        <5>1. owner[t] = w.file
          BY <4>1, <4>2 DEF InWrite
        <5> QED
          BY <1>11, <4>1, <4>2, <5>1
      <4>3. CASE k # i
        <5>1. /\ Becomes(i, k) \in E /\ inflight'[Becomes(i, k)].by = f
              /\ InWrite(inflight', owner', Becomes(i, k), t)
          BY <1>5, <1>11, <4>1, <4>3
        <5> QED
          BY <5>1
      <4> QED
        BY <4>2, <4>3
    <3> QED
      BY <2>1, <2>7, <3>1, <3>2
  <2> QED
    BY <2>1, <2>2, <2>4, <2>5, <2>6, <2>7
<1>15. DroppedTasksLeave'
  <2>1. ASSUME NEW t \in closed
        PROVE  /\ t \notin Ids(queue) /\ ~InFile(disk', owner', t)
               /\ \A k \in E : ~InWrite(inflight', owner', k, t)
    <3>1. t \in Issued
      BY DEF KInv, CInv, NumbersAreKnown
    <3>2. /\ t \notin Ids(queue) /\ ~InFile(disk, owner, t)
          /\ \A k \in D : ~InWrite(inflight, owner, k, t)
      BY <1>9 DEF RInv, DroppedTasksLeave, D
    <3> QED
      BY <1>5, <1>11, <3>1, <3>2
  <2>2. ASSUME NEW f \in Frames, NEW t \in frame[f].drops
        PROVE  /\ t \notin Ids(queue)
               /\ \A k \in E : InWrite(inflight', owner', k, t) =>
                    \E j \in E : j > k /\ inflight'[j].by = f /\ inflight'[j].file = owner[t]
               /\ InFile(disk', owner', t) => \E j \in E : inflight'[j].by = f /\ inflight'[j].file = owner[t]
    <3>1. t \in Issued
      BY DEF KInv, CInv, NumbersAreKnown
    <3>2. /\ t \notin Ids(queue)
          /\ \A k \in D : InWrite(inflight, owner, k, t) =>
               \E j \in D : j > k /\ inflight[j].by = f /\ inflight[j].file = owner[t]
          /\ InFile(disk, owner, t) => \E j \in D : inflight[j].by = f /\ inflight[j].file = owner[t]
      BY <1>9 DEF RInv, DroppedTasksLeave, D
    <3>3. ASSUME NEW k \in E, InWrite(inflight', owner', k, t)
          PROVE  \E j \in E : j > k /\ inflight'[j].by = f /\ inflight'[j].file = owner[t]
      <4> DEFINE old == Was(i, k)
      <4>1. old \in D \ {i} /\ InWrite(inflight, owner, old, t) /\ inflight[old].file = owner[t]
        BY <1>5, <1>11, <3>1, <3>3 DEF InWrite
      <4>2. PICK j \in D : j > old /\ inflight[j].by = f /\ inflight[j].file = owner[t]
        BY <3>2, <4>1
      <4>3. j # i
        <5>1. j = i => old > i
          BY <1>7, <4>1, <4>2
        <5>2. j \in Nat /\ old \in Nat /\ i \in Nat
          BY <1>5, <4>1
        <5> QED
          BY <4>2, <5>1, <5>2
      <4>4. /\ Becomes(i, j) \in E /\ inflight'[Becomes(i, j)] = inflight[j]
            /\ Becomes(i, old) < Becomes(i, j) /\ Becomes(i, old) = k
        <5>1. j \in D \ {i} /\ old < j
          BY <1>5, <4>1, <4>2, <4>3
        <5> QED
          BY <1>5, <4>1, <5>1
      <4>5. Becomes(i, j) > k
        BY <1>5, <4>4
      <4> QED
        BY <4>2, <4>4, <4>5
    <3>4. ASSUME InFile(disk', owner', t)
          PROVE  \E j \in E : inflight'[j].by = f /\ inflight'[j].file = owner[t]
      <4>1. PICK j \in D : j # i /\ inflight[j].by = f /\ inflight[j].file = owner[t]
        <5>1. CASE owner[t] = w.file
          <6>1. InWrite(inflight, owner, i, t)
            BY <1>11, <3>1, <3>4, <5>1
          <6>2. PICK j \in D : j > i /\ inflight[j].by = f /\ inflight[j].file = owner[t]
            BY <1>5, <3>2, <6>1
          <6>3. j # i
            BY <1>5, <6>2
          <6> QED
            BY <6>2, <6>3
        <5>2. CASE owner[t] # w.file
          BY <1>11, <3>1, <3>2, <3>4, <5>2
        <5> QED
          BY <5>1, <5>2
      <4>2. Becomes(i, j) \in E /\ inflight'[Becomes(i, j)] = inflight[j]
        BY <1>5, <4>1
      <4> QED
        BY <4>1, <4>2
    <3> QED
      BY <3>2, <3>3, <3>4
  <2>3. \A t \in closed' :
          /\ t \notin Ids(queue') /\ ~InFile(disk', owner', t)
          /\ \A k \in DOMAIN inflight' : ~InWrite(inflight', owner', k, t)
    BY <1>2, <2>1 DEF E
  <2>4. \A f \in Frames : \A t \in frame'[f].drops :
          /\ t \notin Ids(queue')
          /\ \A k \in DOMAIN inflight' : InWrite(inflight', owner', k, t) =>
               \E j \in DOMAIN inflight' : j > k /\ inflight'[j].by = f /\ inflight'[j].file = owner'[t]
          /\ InFile(disk', owner', t) =>
               \E j \in DOMAIN inflight' : inflight'[j].by = f /\ inflight'[j].file = owner'[t]
    <3>1. queue' = queue /\ frame' = frame /\ owner'= owner
      BY <1>2
    <3> QED
      BY <2>2, <3>1 DEF E
  <2> QED
    BY <2>3, <2>4 DEF DroppedTasksLeave
<1> QED
  BY <1>12, <1>13, <1>14, <1>15 DEF RInv

LEMMA CrashKeepsKInv ==
  ASSUME SInv, KInv, AtomicWrites, Crash
  PROVE  KInv'
<1>1. /\ queue' = {} /\ currentProjectId' = NoProject /\ inflight' = <<>>
      /\ frame' = [f \in Frames |-> IdleFrame]
      /\ UNCHANGED <<issued, owner, acked, dropped, closed>>
      /\ budget'.failures = budget.failures /\ disk' = disk
  BY CrashHome
<1>2. \A f \in Frames : /\ frame'[f].pc = "idle" /\ frame'[f].adds = {} /\ frame'[f].drops = {}
                        /\ frame'[f].loaded = {}
  BY <1>1, CallFields
<1>3. DOMAIN inflight' = {}
  BY <1>1
<1>4. CInv'
  <2>1. TasksAreKnown'
    BY <1>1, <1>2, <1>3 DEF KInv, CInv, TasksAreKnown, Known
  <2>2. NumbersAreKnown'
    BY <1>1, <1>2 DEF KInv, CInv, NumbersAreKnown, Issued, HoldPcs
  <2>3. WritersWait'
    BY <1>3 DEF WritersWait
  <2> QED
    BY <1>1, <2>1, <2>2, <2>3 DEF KInv, CInv, NotTorn
<1>5. ASSUME Reliable PROVE RInv'
  <2>1. TasksArePassedOn /\ DroppedTasksLeave
    BY <1>5 DEF KInv, RInv
  <2>2. \A t \in Issued : owner[t] # NoProject
    BY AbsentAssumption DEF KInv, CInv, NumbersAreKnown
  <2>3. Issued' = Issued /\ Ids(queue') = {}
    BY <1>1 DEF Issued, Ids
  <2>4. TasksArePassedOn'
    BY <1>1, <1>2, <1>3, <2>1, <2>2, <2>3 DEF TasksArePassedOn
  <2>5. DroppedTasksLeave'
    <3>1. \A t \in closed' : ~InFile(disk', owner', t)
      BY <1>1, <2>1 DEF DroppedTasksLeave
    <3>2. \A f \in Frames : frame'[f].drops = {}
      BY <1>2
    <3>3. \A f \in Frames : \A t \in frame'[f].drops : FALSE
      BY <3>2
    <3>4. \A t \in closed' : /\ t \notin Ids(queue') /\ ~InFile(disk', owner', t)
                             /\ \A i \in DOMAIN inflight' : ~InWrite(inflight', owner', i, t)
      BY <1>3, <2>3, <3>1
    <3> QED
      BY <3>3, <3>4 DEF DroppedTasksLeave
  <2>6. WritesEndWithTheVisit' /\ LoadsAreQuiet'
    BY <1>2, <1>3 DEF WritesEndWithTheVisit, LoadsAreQuiet, LoadPcs
  <2> QED
    BY <2>4, <2>5, <2>6 DEF RInv
<1> QED
  BY <1>1, <1>4, <1>5 DEF KInv, Reliable

-----------------------------------------------------------------------------
LEMMA InitKInv == Init => KInv
<1> SUFFICES ASSUME Init PROVE KInv
  OBVIOUS
<1>1. \A f \in Frames : /\ frame[f].pc = "idle" /\ frame[f].adds = {} /\ frame[f].drops = {}
                        /\ frame[f].loaded = {}
  BY CallFields DEF Init
<1>2. Issued = {} /\ DOMAIN inflight = {} /\ queue = {} /\ acked = {} /\ dropped = {} /\ closed = {}
  BY DEF Init, Issued
<1>3. Known({}, issued, owner) /\ \A p \in Projects : disk[p] = {}
  BY DEF Init, Known
<1>4. CInv
  <2>1. budget.failures <= MaxFailures
    BY NumberAssumption DEF Init
  <2>2. NotTorn
    BY <1>3 DEF NotTorn, Torn
  <2> QED
    BY <1>1, <1>2, <1>3, <2>1, <2>2 DEF CInv, TasksAreKnown, NumbersAreKnown, WritersWait, HoldPcs
<1>5. RInv
  BY <1>1, <1>2
  DEF RInv, WritesEndWithTheVisit, LoadsAreQuiet, TasksArePassedOn, DroppedTasksLeave, LoadPcs
<1> QED
  BY <1>4, <1>5 DEF KInv

LEMMA NextKInv ==
  ASSUME SInv, KInv, Timing # "anytime", ~EarlyReturns, OrderedWrites, AtomicWrites, [Next]_vars
  PROVE  KInv'
<1>1. ASSUME NEW f \in Frames, AfterOp(f) PROVE KInv'
  BY <1>1, AfterOpRests, RestKeepsKInv
<1>2. ASSUME NEW f \in Frames, SweepEnds(f) PROVE KInv'
  BY <1>2, SweepEndsRests, RestKeepsKInv
<1>3. ASSUME UNCHANGED vars PROVE KInv'
  BY <1>3
  DEF vars, memory, history, KInv, CInv, RInv, Reliable, TasksAreKnown, NumbersAreKnown, WritersWait, NotTorn,
      WritesEndWithTheVisit, LoadsAreQuiet, TasksArePassedOn, DroppedTasksLeave, Issued, Loading
<1> QED
  BY <1>1, <1>2, <1>3, UserKeepsKInv, SessionKeepsKInv, RunnerKeepsKInv, LandKeepsKInv, WriteFailsKeepsKInv,
     CrashKeepsKInv
  DEF Next

LEMMA KInvSuffices ==
  ASSUME SInv, KInv
  PROVE  TasksAreKept
<1>1. TypeOK /\ NoForeignTask
  BY DEF SInv, AtHome
<1>2. ASSUME Reliable PROVE AckedTasksAreDurable /\ RemovedTasksStayRemoved
  <2>1. TasksArePassedOn /\ DroppedTasksLeave
    BY <1>2 DEF KInv, RInv
  <2>2. \A t \in acked \cup closed : t \in Issued /\ owner[t] \in Projects /\ disk[owner[t]] # Torn
    BY DEF KInv, CInv, NumbersAreKnown, NotTorn
  <2>3. AckedTasksAreDurable
    BY <2>1, <2>2 DEF AckedTasksAreDurable, TasksArePassedOn, InFile
  <2>4. RemovedTasksStayRemoved
    BY <2>1, <2>2 DEF RemovedTasksStayRemoved, DroppedTasksLeave, InFile
  <2> QED
    BY <2>3, <2>4
<1> QED
  BY <1>1, <1>2 DEF TasksAreKept, Reliable

\* A task whose enqueue call has returned is in its project's queue file until
\* it is ingested, cancelled or cleared, through switches, restarts and
\* crashes; one whose removal was saved is in no list and no file again; and
\* every list holds tasks of its own project only (ingest-queue.ts).  A write
\* that fails, which saveQueue swallows, ends the promise about the files.
THEOREM AcceptedTasksAreKept ==
  ASSUME Timing # "anytime", ~EarlyReturns, OrderedWrites, AtomicWrites
  PROVE  Spec => []TasksAreKept
<1>1. Init => SInv /\ KInv
  BY InitSInv, InitKInv
<1>2. SInv /\ KInv /\ [Next]_vars => (SInv /\ KInv)'
  BY NextSInv, NextKInv
<1>3. SInv /\ KInv => TasksAreKept
  BY KInvSuffices
<1> QED
  BY <1>1, <1>2, <1>3, PTL DEF Spec

-----------------------------------------------------------------------------
(***************************************************************************)
(* One ingest at a time.                                                   *)
(***************************************************************************)
Quick(f) == frame[f].pc \notin {"idle", "ingest", "sweep"}
Alone(f) == Quick(f) /\ frame[f].pc \notin {"saveOp", "saveOnly"}
LeftOrLeaving(f) ==
  frame[f].proj = currentProjectId => \E g \in Frames : frame[g].pc = "pauseSave"

\* One call at a time is between an ingest and the next; none is while no project
\* is open.  Who ingests holds the controller and the flag, for the open project,
\* and nobody is about to take either; who was told to stop has been left, or is
\* being left.
OneQuick == \A f, g \in Frames : Quick(f) /\ Quick(g) => f = g
ClosedIsQuiet == currentProjectId = NoProject => \A f \in Frames : ~Quick(f)
IngestsHold ==
  \A f \in Frames : Ingesting(f) =>
    currentAbortController = f /\ processing /\ frame[f].proj = currentProjectId
ClaimsAreAlone ==
  \A f \in Frames :
    /\ Alone(f) => \A g \in Frames : ~Ingesting(g)
    /\ frame[f].pc = "saveStart" => processing
AbortsAreLeft ==
  \A f \in Frames : frame[f].aborted => ~Quick(f) /\ (frame[f].pc = "ingest" => LeftOrLeaving(f))
OInv == /\ budget.cancels = 0
        /\ OneQuick /\ ClosedIsQuiet /\ IngestsHold /\ ClaimsAreAlone /\ AbortsAreLeft

\* All calls but one stay where they are.
Stay(f) ==
  \A g \in Frames \ {f} : /\ frame'[g].pc = frame[g].pc /\ frame'[g].proj = frame[g].proj
                          /\ frame'[g].aborted = frame[g].aborted

LEMMA UpdateStays ==
  ASSUME frame \in [Frames -> FrameState], NEW f \in Frames, NEW r, frame' = [frame EXCEPT ![f] = r]
  PROVE  frame'[f] = r /\ Stay(f)
BY DEF Stay

LEMMA DetachStays ==
  ASSUME frame \in [Frames -> FrameState], NEW f \in Frames, NEW r, frame' = [Detached EXCEPT ![f] = r]
  PROVE  frame'[f] = r /\ Stay(f)
<1>1. Detached = [g \in Frames |-> [frame[g] EXCEPT !.attached = FALSE]]
  BY DEF Detached
<1>2. frame'[f] = r /\ \A g \in Frames \ {f} : frame'[g] = [frame[g] EXCEPT !.attached = FALSE]
  BY <1>1
<1>3. ASSUME NEW g \in Frames \ {f}
      PROVE  /\ frame'[g].pc = frame[g].pc /\ frame'[g].proj = frame[g].proj
             /\ frame'[g].aborted = frame[g].aborted
  <2>1. frame'[g] = [frame[g] EXCEPT !.attached = FALSE] /\ frame[g] \in FrameState
    BY <1>2
  <2> QED
    BY <2>1 DEF FrameState
<1> QED
  BY <1>2, <1>3 DEF Stay

LEMMA AbortIsHeard ==
  ASSUME NEW fr \in [Frames -> FrameState], NEW c \in Frames \cup {NoFrame}, NEW g \in Frames,
         fr[g].aborted \/ g = c
  PROVE  Abort(fr, c)[g].aborted
<1>1. CASE c = NoFrame
  BY <1>1, AbsentAssumption DEF Abort
<1>2. CASE c \in Frames /\ c # NoFrame
  <2>1. Abort(fr, c) = [fr EXCEPT ![c] = [fr[c] EXCEPT !.aborted = TRUE]]
    BY <1>2 DEF Abort
  <2>2. fr[c] \in FrameState
    BY <1>2
  <2>3. [fr[c] EXCEPT !.aborted = TRUE].aborted
    BY <2>2 DEF FrameState
  <2> QED
    BY <1>2, <2>1, <2>3
<1> QED
  BY <1>1, <1>2

LEMMA AbortStays ==
  ASSUME frame \in [Frames -> FrameState], NEW f \in Frames, NEW r,
         NEW c \in Frames \cup {NoFrame}, NEW d \in Frames \cup {NoFrame},
         frame' = [Abort(Abort(frame, c), d) EXCEPT ![f] = r]
  PROVE  /\ frame'[f] = r
         /\ \A g \in Frames \ {f} : /\ frame'[g].pc = frame[g].pc /\ frame'[g].proj = frame[g].proj
                                    /\ frame[g].aborted \/ g = c => frame'[g].aborted
<1> DEFINE one == Abort(frame, c)
           two == Abort(one, d)
<1>1. one \in [Frames -> FrameState]
      /\ \A g \in Frames : one[g].pc = frame[g].pc /\ one[g].proj = frame[g].proj
                           /\ (frame[g].aborted \/ g = c => one[g].aborted)
  BY AbortIsTyped, AbortIsHeard
<1>2. two \in [Frames -> FrameState]
      /\ \A g \in Frames : two[g].pc = one[g].pc /\ two[g].proj = one[g].proj
                           /\ (one[g].aborted => two[g].aborted)
  <2> HIDE DEF one
  <2> QED
    BY <1>1, AbortIsTyped, AbortIsHeard
<1>3. frame' = [two EXCEPT ![f] = r]
  OBVIOUS
<1> HIDE DEF one, two
<1>4. frame'[f] = r /\ \A g \in Frames \ {f} : frame'[g] = two[g]
  BY <1>2, <1>3
<1> QED
  BY <1>1, <1>2, <1>4

\* A call that has gone on: to rest, to the sweep, or to a task of its own.
LEMMA ProceedingStays ==
  ASSUME frame \in [Frames -> FrameState], NEW f \in Frames, NEW p, NEW q, NEW busy,
         ProcessNext(f, p, q, busy) \/ Return(f)
  PROVE  /\ Stay(f) /\ frame'[f].pc \in {"idle", "sweep", "registry"} /\ ~frame'[f].aborted
         /\ frame'[f].pc = "registry" => ~busy
<1>1. IdleFrame.pc = "idle" /\ ~IdleFrame.aborted /\ Call("sweep", p).pc = "sweep"
      /\ ~Call("sweep", p).aborted
  BY DEF IdleFrame, Call
<1>2. CASE Return(f) \/ frame' = [frame EXCEPT ![f] = IdleFrame]
  BY <1>1, <1>2, UpdateStays DEF Return
<1>3. CASE frame' = [frame EXCEPT ![f] = Call("sweep", p)]
  BY <1>1, <1>3, UpdateStays
<1>4. ASSUME ~busy, NEW t, frame' = [frame EXCEPT ![f] = [Call("registry", p) EXCEPT
                                                            !.task = t, !.attached = TRUE]]
      PROVE  Stay(f) /\ frame'[f].pc = "registry" /\ ~frame'[f].aborted
  BY <1>4, UpdateStays DEF IdleFrame, Call
<1> QED
  BY <1>2, <1>3, <1>4 DEF ProcessNext

\* A call that was quick goes on.
LEMMA QuickKeepsTurns ==
  ASSUME OInv, NEW f \in Frames, Quick(f), Stay(f), frame'[f].pc # "ingest", ~frame'[f].aborted,
         frame[f].pc # "pauseSave", budget'.cancels = budget.cancels,
         UNCHANGED <<currentProjectId, currentAbortController>>,
         processing' = processing \/ \A g \in Frames : ~Ingesting(g),
         Alone(f)' => \A g \in Frames : ~Ingesting(g),
         frame'[f].pc = "saveStart" => processing'
  PROVE  OInv'
<1>1. \A g \in Frames : Quick(g)' => Quick(g) /\ g = f
  BY DEF OInv, OneQuick, Quick, Stay
<1>2. \A g \in Frames : Ingesting(g)' => g # f /\ Ingesting(g)
  BY DEF Ingesting, Stay
<1>3. OneQuick' /\ ClosedIsQuiet'
  BY <1>1 DEF OInv, OneQuick, ClosedIsQuiet
<1>4. IngestsHold'
  BY <1>2 DEF OInv, IngestsHold, Stay
<1>5. ClaimsAreAlone'
  <2>1. ASSUME NEW g \in Frames, Alone(g)' PROVE \A h \in Frames : ~Ingesting(h)'
    BY <1>1, <1>2, <2>1 DEF Alone
  <2>2. ASSUME NEW g \in Frames, frame'[g].pc = "saveStart" PROVE processing'
    BY <1>1, <2>2 DEF Quick
  <2> QED
    BY <2>1, <2>2 DEF ClaimsAreAlone
<1>6. AbortsAreLeft'
  <2> SUFFICES ASSUME NEW g \in Frames, frame'[g].aborted
               PROVE  ~Quick(g)' /\ (frame'[g].pc = "ingest" => LeftOrLeaving(g)')
    BY DEF AbortsAreLeft
  <2>1. g # f /\ frame[g].aborted
    BY DEF Stay
  <2>2. ~Quick(g)'
    BY <1>1, <2>1
  <2>3. ASSUME frame'[g].pc = "ingest", frame'[g].proj = currentProjectId'
        PROVE  \E h \in Frames : frame'[h].pc = "pauseSave"
    <3>1. PICK h \in Frames : frame[h].pc = "pauseSave"
      BY <2>1, <2>3 DEF OInv, AbortsAreLeft, LeftOrLeaving, Stay
    <3> QED
      BY <3>1 DEF Stay
  <2> QED
    BY <2>2, <2>3 DEF LeftOrLeaving
<1> QED
  BY <1>3, <1>4, <1>5, <1>6 DEF OInv

\* A call that was not quick ends, or the user makes one while none is quick.
LEMMA RestKeepsTurns ==
  ASSUME OInv, NEW f \in Frames, ~Quick(f), Stay(f), ~frame'[f].aborted,
         \/ frame'[f].pc = "idle"
         \/ /\ frame'[f].pc \in {"saveOp", "saveOnly"} /\ currentProjectId # NoProject
            /\ \A g \in Frames : ~Quick(g),
         budget'.cancels = budget.cancels,
         UNCHANGED <<currentProjectId, currentAbortController, processing>>
  PROVE  OInv'
<1>1. \A g \in Frames \ {f} : (Quick(g)' <=> Quick(g)) /\ (Ingesting(g)' <=> Ingesting(g))
  BY DEF Quick, Ingesting, Stay
<1>2. ~Ingesting(f)' /\ ~Alone(f)' /\ frame'[f].pc # "saveStart"
  BY DEF Ingesting, Alone, Quick
<1>3. OneQuick' /\ ClosedIsQuiet'
  BY <1>1 DEF OInv, OneQuick, ClosedIsQuiet, Quick
<1>4. IngestsHold'
  BY <1>1, <1>2 DEF OInv, IngestsHold, Stay
<1>5. ClaimsAreAlone'
  BY <1>1, <1>2 DEF OInv, ClaimsAreAlone, Alone, Stay
<1>6. AbortsAreLeft'
  <2> SUFFICES ASSUME NEW g \in Frames, frame'[g].aborted
               PROVE  ~Quick(g)' /\ (frame'[g].pc = "ingest" => LeftOrLeaving(g)')
    BY DEF AbortsAreLeft
  <2>1. g # f /\ frame[g].aborted
    BY DEF Stay
  <2>2. ~Quick(g)'
    BY <1>1, <2>1 DEF OInv, AbortsAreLeft
  <2>3. ASSUME frame'[g].pc = "ingest", frame'[g].proj = currentProjectId'
        PROVE  \E h \in Frames : frame'[h].pc = "pauseSave"
    <3>1. PICK h \in Frames : frame[h].pc = "pauseSave"
      BY <2>1, <2>3 DEF OInv, AbortsAreLeft, LeftOrLeaving, Stay
    <3>2. h # f
      BY <3>1 DEF Quick
    <3> QED
      BY <3>1, <3>2 DEF Stay
  <2> QED
    BY <2>2, <2>3 DEF LeftOrLeaving
<1> QED
  BY <1>3, <1>4, <1>5, <1>6 DEF OInv

LEMMA OtherSpending ==
  ASSUME TypeOK, NEW what \in {"clicks", "switches", "crashes", "failures"}, Spend(what)
  PROVE  budget'.cancels = budget.cancels
BY DEF TypeOK, Spend

\* The user's calls, when nobody cancels.
LEMMA CallKeepsTurns ==
  ASSUME SInv, OInv, Timing = "paced", NEW f \in Frames, NEW r, MayCall, FreeFrame(f),
         frame' = [frame EXCEPT ![f] = r], r.pc \in {"saveOp", "saveOnly"}, ~r.aborted,
         budget'.cancels = budget.cancels,
         currentProjectId' = currentProjectId, currentAbortController' = currentAbortController,
         processing' = processing
  PROVE  OInv'
<1>1. currentProjectId # NoProject /\ \A g \in Frames : ~Quick(g)
  BY DEF MayCall, Paced, QuickStepsPending, Quick
<1>2. frame \in [Frames -> FrameState]
  BY DEF SInv, TypeOK
<1>3. frame'[f] = r /\ Stay(f)
  BY <1>2, UpdateStays
<1> QED
  BY <1>1, <1>3, RestKeepsTurns

LEMMA UserKeepsTurns ==
  ASSUME SInv, OInv, Timing = "paced", NEW f \in Frames, UserStep(f)
  PROVE  OInv'
<1>1. ~Spend("cancels")
  BY DEF OInv, Spend
<1>2. ASSUME NEW n \in 1..MaxTasks, Enqueue(f, n) PROVE OInv'
  <2> DEFINE r == [Call("saveOp", NoProject) EXCEPT !.adds = (issued + 1)..(issued + n)]
  <2>1. r.pc = "saveOp" /\ ~r.aborted
    BY DEF Call, IdleFrame
  <2>2. /\ frame' = [frame EXCEPT ![f] = r] /\ MayCall /\ FreeFrame(f)
        /\ currentProjectId' = currentProjectId /\ currentAbortController' = currentAbortController
        /\ processing' = processing /\ budget' = budget
    BY <1>2 DEF Enqueue
  <2> HIDE DEF r
  <2> QED
    BY <2>1, <2>2, CallKeepsTurns
<1>3. ASSUME NEW t \in queue, retryTask(f, t) PROVE OInv'
  <2> DEFINE r == Call("saveOp", NoProject)
  <2>1. r.pc = "saveOp" /\ ~r.aborted
    BY DEF Call, IdleFrame
  <2>2. /\ frame' = [frame EXCEPT ![f] = r] /\ MayCall /\ FreeFrame(f)
        /\ currentProjectId' = currentProjectId /\ currentAbortController' = currentAbortController
        /\ processing' = processing /\ Spend("clicks")
    BY <1>3 DEF retryTask
  <2>3. budget'.cancels = budget.cancels
    BY <2>2, OtherSpending DEF SInv
  <2> HIDE DEF r
  <2> QED
    BY <2>1, <2>2, <2>3, CallKeepsTurns
<1>4. ASSUME clearCompletedTasks(f) PROVE OInv'
  <2> DEFINE r == [Call("saveOnly", NoProject) EXCEPT !.drops = Ids(queue) \ Ids(queue')]
  <2>1. r.pc = "saveOnly" /\ ~r.aborted
    BY DEF Call, IdleFrame
  <2>2. /\ frame' = [frame EXCEPT ![f] = r] /\ MayCall /\ FreeFrame(f)
        /\ currentProjectId' = currentProjectId /\ currentAbortController' = currentAbortController
        /\ processing' = processing /\ Spend("clicks")
    BY <1>4 DEF clearCompletedTasks
  <2>3. budget'.cancels = budget.cancels
    BY <2>2, OtherSpending DEF SInv
  <2> HIDE DEF r
  <2> QED
    BY <2>1, <2>2, <2>3, CallKeepsTurns
<1>5. (\A t \in queue : ~cancelTask(f, t)) /\ ~cancelAllTasks(f)
  BY <1>1 DEF cancelTask, cancelAllTasks
<1> QED
  BY <1>2, <1>3, <1>4, <1>5 DEF UserStep

LEMMA AfterOpKeepsTurns ==
  ASSUME SInv, OInv, NEW f \in Frames, AfterOp(f)
  PROVE  OInv'
<1>1. frame \in [Frames -> FrameState]
  BY DEF SInv, TypeOK
<1>2. frame[f].pc \in {"saveOp", "saveOnly"} /\ Quick(f)
      /\ (ProcessNext(f, currentProjectId, queue, processing) \/ Return(f))
      /\ UNCHANGED <<currentProjectId, currentAbortController, processing, budget>>
  BY DEF AfterOp, Resume, Quick
<1>3. /\ Stay(f) /\ frame'[f].pc \in {"idle", "sweep", "registry"} /\ ~frame'[f].aborted
      /\ frame'[f].pc = "registry" => ~processing
  BY <1>1, <1>2, ProceedingStays
<1>4. Alone(f)' => \A g \in Frames : ~Ingesting(g)
  BY <1>3 DEF Alone, Quick, OInv, IngestsHold
<1> QED
  BY <1>2, <1>3, <1>4, QuickKeepsTurns

LEMMA PauseStartKeepsTurns ==
  ASSUME SInv, OInv, Timing = "paced", NEW f \in Frames, PauseStart(f)
  PROVE  OInv'
<1> DEFINE r == Call("pauseSave", currentProjectId)
<1>1. currentProjectId # NoProject /\ \A g \in Frames : ~Quick(g)
  BY DEF PauseStart, MayCall, Paced, QuickStepsPending, Quick
<1>2. r.pc = "pauseSave" /\ ~r.aborted
  BY DEF Call, IdleFrame
<1>3. /\ frame' = [Abort(Abort(frame, currentAbortController), sweepAbortController) EXCEPT ![f] = r]
      /\ currentProjectId' = currentProjectId /\ Spend("switches")
  BY DEF PauseStart
<1> HIDE DEF r
<1>4. /\ frame'[f] = r
      /\ \A g \in Frames \ {f} :
           /\ frame'[g].pc = frame[g].pc /\ frame'[g].proj = frame[g].proj
           /\ frame[g].aborted \/ g = currentAbortController => frame'[g].aborted
  BY <1>3, AbortStays DEF SInv, TypeOK
<1>5. \A g \in Frames \ {f} : ~Quick(g)' /\ frame'[g].pc # "pauseSave"
  BY <1>1, <1>4 DEF Quick
<1>6. \A g \in Frames : ~Ingesting(g)'
  BY <1>2, <1>4 DEF OInv, IngestsHold, Ingesting
<1>7. OneQuick' /\ ClosedIsQuiet'
  BY <1>1, <1>3, <1>5 DEF OneQuick, ClosedIsQuiet
<1>8. IngestsHold' /\ ClaimsAreAlone'
  BY <1>2, <1>4, <1>5, <1>6 DEF IngestsHold, ClaimsAreAlone, Quick
<1>9. AbortsAreLeft'
  BY <1>2, <1>4, <1>5 DEF AbortsAreLeft, LeftOrLeaving
<1>10. budget'.cancels = budget.cancels
  BY <1>3, OtherSpending DEF SInv
<1> QED
  BY <1>7, <1>8, <1>9, <1>10 DEF OInv

\* A switch goes on: nobody ingests meanwhile.
LEMMA SwitchIsAlone ==
  ASSUME OInv, NEW f \in Frames, frame[f].pc \in SwitchPcs
  PROVE  Quick(f) /\ ~frame[f].aborted /\ \A g \in Frames : ~Ingesting(g)
BY DEF OInv, ClaimsAreAlone, AbortsAreLeft, Alone, Quick, SwitchPcs

LEMMA PauseEndKeepsTurns ==
  ASSUME SInv, OInv, NEW f \in Frames, PauseEnd(f)
  PROVE  OInv'
<1>1. /\ frame' = [Detached EXCEPT ![f] = IdleFrame] /\ frame[f].pc = "pauseSave"
      /\ currentProjectId' = NoProject /\ budget' = budget
  BY DEF PauseEnd, Resume
<1>2. Quick(f) /\ \A g \in Frames : ~Ingesting(g)
  BY <1>1, SwitchIsAlone DEF SwitchPcs
<1>3. frame'[f] = IdleFrame /\ Stay(f)
  BY <1>1, DetachStays DEF SInv, TypeOK
<1>4. IdleFrame.pc = "idle" /\ ~IdleFrame.aborted
  BY DEF IdleFrame
<1>5. \A g \in Frames : ~Quick(g)' /\ ~Ingesting(g)'
  BY <1>2, <1>3, <1>4 DEF OInv, OneQuick, Quick, Ingesting, Stay
<1>6. AbortsAreLeft'
  <2> SUFFICES ASSUME NEW g \in Frames, frame'[g].aborted, frame'[g].pc = "ingest"
               PROVE  frame'[g].proj # NoProject
    BY <1>1, <1>5 DEF AbortsAreLeft, LeftOrLeaving
  <2>1. frame[g].pc = "ingest" /\ frame'[g].proj = frame[g].proj
    BY <1>3, <1>4 DEF Stay
  <2> QED
    BY <2>1, AbsentAssumption DEF SInv, FramesKnow, Knows, RunPcs, HoldPcs
<1>7. OneQuick' /\ ClosedIsQuiet' /\ IngestsHold' /\ ClaimsAreAlone'
  BY <1>5 DEF OneQuick, ClosedIsQuiet, IngestsHold, ClaimsAreAlone, Alone, Quick
<1> QED
  BY <1>1, <1>6, <1>7 DEF OInv

LEMMA RestoreStartKeepsTurns ==
  ASSUME SInv, OInv, ~EarlyReturns, NEW f \in Frames, NEW p \in Projects, RestoreStart(f, p)
  PROVE  OInv'
<1> DEFINE r == Call("restoreLoad", p)
<1>1. /\ frame' = [Detached EXCEPT ![f] = r] /\ currentProjectId = NoProject /\ currentProjectId' = p
      /\ budget' = budget /\ \A g \in Frames : frame[g].proj # p
  BY DEF RestoreStart
<1>2. r.pc = "restoreLoad" /\ ~r.aborted
  BY DEF Call, IdleFrame
<1> HIDE DEF r
<1>3. frame'[f] = r /\ Stay(f)
  BY <1>1, DetachStays DEF SInv, TypeOK
<1>4. \A g \in Frames : ~Quick(g) /\ ~Ingesting(g)
  <2>1. \A g \in Frames : frame[g].pc = "ingest" => frame[g].proj # NoProject
    BY AbsentAssumption DEF SInv, FramesKnow, Knows, RunPcs, HoldPcs
  <2> QED
    BY <1>1, <2>1 DEF OInv, ClosedIsQuiet, IngestsHold, Ingesting
<1>5. \A g \in Frames : ~Ingesting(g)' /\ (Quick(g)' => g = f)
  BY <1>2, <1>3, <1>4 DEF Quick, Ingesting, Stay
<1>6. OneQuick' /\ ClosedIsQuiet' /\ IngestsHold' /\ ClaimsAreAlone'
  <2>1. currentProjectId' # NoProject
    BY <1>1, AbsentAssumption
  <2> QED
    BY <1>2, <1>3, <1>5, <2>1 DEF OneQuick, ClosedIsQuiet, IngestsHold, ClaimsAreAlone, Quick
<1>7. AbortsAreLeft'
  <2> SUFFICES ASSUME NEW g \in Frames, frame'[g].aborted
               PROVE  ~Quick(g)' /\ (frame'[g].pc = "ingest" => LeftOrLeaving(g)')
    BY DEF AbortsAreLeft
  <2>1. g # f
    BY <1>2, <1>3
  <2>2. frame'[g].proj # currentProjectId'
    BY <1>1, <1>3, <2>1 DEF Stay
  <2> QED
    BY <1>5, <2>1, <2>2 DEF LeftOrLeaving
<1> QED
  BY <1>1, <1>6, <1>7 DEF OInv

LEMMA SwitchKeepsTurns ==
  ASSUME SInv, OInv, NEW f \in Frames, RestoreRead(f) \/ RestoreLoaded(f) \/ RestoreSaved(f)
  PROVE  OInv'
<1>1. frame[f].pc \in {"restoreLoad", "restoreLoaded", "restoreSave"} /\ frame[f] \in FrameState
  BY DEF RestoreRead, RestoreLoaded, RestoreSaved, Resume, SInv, TypeOK
<1>2. Quick(f) /\ ~frame[f].aborted /\ \A g \in Frames : ~Ingesting(g)
  BY <1>1, SwitchIsAlone DEF SwitchPcs
<1>3. UNCHANGED <<processing, currentProjectId, currentAbortController, budget>>
  BY DEF RestoreRead, RestoreLoaded, RestoreSaved, memory
<1>4. Stay(f) /\ frame'[f].pc \notin {"ingest", "saveStart"} /\ ~frame'[f].aborted
  <2>1. CASE RestoreRead(f)
    <3>1. PICK r : /\ frame' = [frame EXCEPT ![f] = r]
                   /\ r = ReadFrame(f, disk[frame[f].proj]) \/ r = MovedOn(f, "restoreLoaded")
      BY <2>1 DEF RestoreRead, ReadFrame, MovedOn
    <3>2. r.pc = "restoreLoaded" /\ r.aborted = frame[f].aborted
      BY <1>1, <3>1 DEF ReadFrame, MovedOn, FrameState
    <3> QED
      BY <1>2, <3>1, <3>2, UpdateStays DEF SInv, TypeOK
  <2>2. CASE RestoreLoaded(f) /\ frame[f].loaded = {}
    <3>1. frame' = [frame EXCEPT ![f] = IdleFrame] /\ IdleFrame.pc = "idle" /\ ~IdleFrame.aborted
      BY <2>2 DEF RestoreLoaded, IdleFrame
    <3> QED
      BY <3>1, UpdateStays DEF SInv, TypeOK
  <2>3. CASE RestoreLoaded(f) /\ frame[f].loaded # {}
    <3> DEFINE r == [Detached[f] EXCEPT !.pc = "restoreSave"]
    <3>1. frame' = [Detached EXCEPT ![f] = r]
      BY <2>3 DEF RestoreLoaded
    <3>2. r = [[frame[f] EXCEPT !.attached = FALSE] EXCEPT !.pc = "restoreSave"]
      BY DEF Detached
    <3> HIDE DEF r
    <3>3. r.pc = "restoreSave" /\ r.aborted = frame[f].aborted
      BY <1>1, <3>2 DEF FrameState
    <3> QED
      BY <1>2, <3>1, <3>3, DetachStays DEF SInv, TypeOK
  <2>4. CASE RestoreSaved(f)
    <3>1. ProcessNext(f, frame[f].proj, queue, processing) \/ Return(f)
      BY <2>4 DEF RestoreSaved
    <3>2. frame \in [Frames -> FrameState]
      BY DEF SInv, TypeOK
    <3> QED
      BY <3>1, <3>2, ProceedingStays
  <2> QED
    BY <2>1, <2>2, <2>3, <2>4
<1> QED
  BY <1>1, <1>2, <1>3, <1>4, QuickKeepsTurns

LEMMA SessionKeepsTurns ==
  ASSUME SInv, OInv, Timing = "paced", ~EarlyReturns, NEW f \in Frames, SessionStep(f)
  PROVE  OInv'
BY PauseStartKeepsTurns, PauseEndKeepsTurns, RestoreStartKeepsTurns, SwitchKeepsTurns DEF SessionStep

\* A runner between two ingests.
LEMMA QuickRunnerKeepsTurns ==
  ASSUME SInv, OInv, NEW f \in Frames,
         \/ RunnerBails(f) /\ frame[f].pc # "ingest"
         \/ RunnerLost(f) \/ RunnerStarts(f) \/ RunnerUnconfigured(f) \/ RunnerGoesOn(f)
  PROVE  OInv'
<1>1. frame[f].pc \in {"registry", "saveStart", "saveThenNext", "saveDone"} /\ frame[f] \in FrameState
  BY DEF RunnerBails, Bail, RunnerLost, RunnerStarts, RunnerUnconfigured, RunnerGoesOn, Resume, SInv, TypeOK
<1>2. Quick(f) /\ ~frame[f].aborted /\ \A g \in Frames : ~Ingesting(g)
  BY <1>1 DEF OInv, ClaimsAreAlone, AbortsAreLeft, Alone, Quick
<1>3. UNCHANGED <<currentProjectId, currentAbortController, budget>>
  BY DEF RunnerBails, RunnerLost, RunnerStarts, RunnerUnconfigured, RunnerGoesOn, memory
<1>4. /\ Stay(f) /\ frame'[f].pc # "ingest" /\ ~frame'[f].aborted
      /\ frame'[f].pc = "saveStart" => processing'
  <2>1. CASE RunnerBails(f)
    <3>1. frame' = [frame EXCEPT ![f] = IdleFrame] /\ IdleFrame.pc = "idle" /\ ~IdleFrame.aborted
      BY <2>1 DEF RunnerBails, Bail, IdleFrame
    <3> QED
      BY <3>1, UpdateStays DEF SInv, TypeOK
  <2>2. CASE RunnerLost(f) \/ RunnerUnconfigured(f)
    <3> DEFINE r == Call("saveThenNext", frame[f].proj)
    <3>1. frame' = [frame EXCEPT ![f] = r]
      BY <2>2 DEF RunnerLost, RunnerUnconfigured
    <3>2. r.pc = "saveThenNext" /\ ~r.aborted
      BY DEF Call, IdleFrame
    <3> HIDE DEF r
    <3> QED
      BY <3>1, <3>2, UpdateStays DEF SInv, TypeOK
  <2>3. CASE RunnerStarts(f)
    <3>1. frame' = [frame EXCEPT ![f] = MovedOn(f, "saveStart")] /\ processing' = TRUE
      BY <2>3 DEF RunnerStarts, MovedOn
    <3>2. MovedOn(f, "saveStart").pc = "saveStart" /\ MovedOn(f, "saveStart").aborted = frame[f].aborted
      BY <1>1 DEF MovedOn, FrameState
    <3> QED
      BY <1>2, <3>1, <3>2, UpdateStays DEF SInv, TypeOK
  <2>4. CASE RunnerGoesOn(f)
    <3>1. ProcessNext(f, frame[f].proj, queue, processing')
      BY <2>4 DEF RunnerGoesOn
    <3>2. frame \in [Frames -> FrameState]
      BY DEF SInv, TypeOK
    <3> QED
      BY <3>1, <3>2, ProceedingStays
  <2> QED
    BY <2>1, <2>2, <2>3, <2>4
<1> QED
  BY <1>1, <1>2, <1>3, <1>4, QuickKeepsTurns

LEMMA RunnerIngestsAlone ==
  ASSUME SInv, OInv, NEW f \in Frames, RunnerIngests(f)
  PROVE  OInv'
<1>1. /\ frame[f].pc = "saveStart" /\ frame[f].proj = currentProjectId /\ frame[f] \in FrameState
      /\ frame' = [frame EXCEPT ![f] = MovedOn(f, "ingest")] /\ currentAbortController' = f
      /\ processing' = processing /\ currentProjectId' = currentProjectId /\ budget' = budget
  BY DEF RunnerIngests, Resume, Orphaned, MovedOn, SInv, TypeOK
<1>2. Quick(f) /\ ~frame[f].aborted /\ processing /\ \A g \in Frames : ~Ingesting(g)
  BY <1>1 DEF OInv, ClaimsAreAlone, AbortsAreLeft, Alone, Quick
<1>3. /\ frame'[f].pc = "ingest" /\ frame'[f].proj = frame[f].proj
      /\ frame'[f].aborted = frame[f].aborted /\ Stay(f)
  <2>1. /\ MovedOn(f, "ingest").pc = "ingest" /\ MovedOn(f, "ingest").proj = frame[f].proj
        /\ MovedOn(f, "ingest").aborted = frame[f].aborted
    BY <1>1 DEF MovedOn, FrameState
  <2> QED
    BY <1>1, <2>1, UpdateStays DEF SInv, TypeOK
<1>4. \A g \in Frames : ~Quick(g)' /\ (g # f => ~Ingesting(g)')
  BY <1>2, <1>3 DEF OInv, OneQuick, Quick, Ingesting, Stay
<1>5. OneQuick' /\ ClosedIsQuiet' /\ ClaimsAreAlone'
  BY <1>4 DEF OneQuick, ClosedIsQuiet, ClaimsAreAlone, Alone, Quick
<1>6. IngestsHold'
  BY <1>1, <1>2, <1>3, <1>4 DEF IngestsHold
<1>7. AbortsAreLeft'
  <2> SUFFICES ASSUME NEW g \in Frames, frame'[g].aborted, frame'[g].pc = "ingest"
               PROVE  frame'[g].proj # currentProjectId'
    BY <1>4 DEF AbortsAreLeft, LeftOrLeaving
  <2>1. g # f /\ frame[g].aborted /\ frame[g].pc = "ingest" /\ frame'[g].proj = frame[g].proj
    BY <1>2, <1>3 DEF Stay
  <2>2. \A h \in Frames : frame[h].pc # "pauseSave"
    BY <1>1, <1>2 DEF OInv, OneQuick, Quick
  <2> QED
    BY <1>1, <2>1, <2>2 DEF OInv, AbortsAreLeft, LeftOrLeaving
<1> QED
  BY <1>1, <1>5, <1>6, <1>7 DEF OInv

LEMMA ResultKeepsTurns ==
  ASSUME SInv, OInv, Timing = "paced", NEW f \in Frames, RunnerSucceeds(f) \/ RunnerFails(f)
  PROVE  OInv'
<1>1. /\ frame[f].pc = "ingest" /\ frame[f].proj = currentProjectId /\ currentAbortController' = NoFrame
      /\ processing' = processing /\ currentProjectId' = currentProjectId /\ budget' = budget
      /\ \A g \in Frames : ~Quick(g)
  BY DEF RunnerSucceeds, RunnerFails, Orphaned, Paced, QuickStepsPending, Quick
<1>2. Ingesting(f)
  <2>1. \A h \in Frames : frame[h].pc # "pauseSave"
    BY <1>1 DEF Quick
  <2> QED
    BY <1>1, <2>1 DEF OInv, AbortsAreLeft, LeftOrLeaving, Ingesting
<1>3. \A g \in Frames : Ingesting(g) => g = f
  BY <1>2 DEF OInv, IngestsHold
<1>4. frame'[f].pc = "saveDone" /\ ~frame'[f].aborted /\ Stay(f)
  <2>1. PICK r : /\ frame' = [frame EXCEPT ![f] = r]
                 /\ \/ r = [Call("saveDone", frame[f].proj) EXCEPT !.drops = {frame[f].task}]
                    \/ r = Call("saveDone", frame[f].proj)
    BY DEF RunnerSucceeds, RunnerFails
  <2>2. r.pc = "saveDone" /\ ~r.aborted
    BY <2>1 DEF Call, IdleFrame
  <2> QED
    BY <2>1, <2>2, UpdateStays DEF SInv, TypeOK
<1>5. \A g \in Frames : ~Ingesting(g)' /\ (Quick(g)' => g = f)
  BY <1>1, <1>3, <1>4 DEF Ingesting, Quick, Stay
<1>6. OneQuick' /\ IngestsHold' /\ ClaimsAreAlone'
  BY <1>4, <1>5 DEF OneQuick, IngestsHold, ClaimsAreAlone, Quick
<1>7. ClosedIsQuiet'
  BY <1>1, AbsentAssumption DEF ClosedIsQuiet, SInv, FramesKnow, Knows, RunPcs, HoldPcs
<1>8. AbortsAreLeft'
  <2> SUFFICES ASSUME NEW g \in Frames, frame'[g].aborted
               PROVE  ~Quick(g)' /\ (frame'[g].pc = "ingest" => frame'[g].proj # currentProjectId')
    BY DEF AbortsAreLeft, LeftOrLeaving
  <2>1. g # f /\ frame[g].aborted /\ frame'[g].pc = frame[g].pc /\ frame'[g].proj = frame[g].proj
    BY <1>4 DEF Stay
  <2>2. \A h \in Frames : frame[h].pc # "pauseSave"
    BY <1>1 DEF Quick
  <2> QED
    BY <1>1, <1>5, <2>1, <2>2 DEF OInv, AbortsAreLeft, LeftOrLeaving
<1> QED
  BY <1>1, <1>6, <1>7, <1>8 DEF OInv

\* A call that rested ends.
LEMMA EndKeepsTurns ==
  ASSUME SInv, OInv, NEW f \in Frames, SweepEnds(f) \/ (RunnerBails(f) /\ frame[f].pc = "ingest")
  PROVE  OInv'
<1>1. /\ frame' = [frame EXCEPT ![f] = IdleFrame] /\ ~Quick(f) /\ budget' = budget
      /\ UNCHANGED <<currentProjectId, currentAbortController, processing>>
  BY DEF SweepEnds, RunnerBails, Bail, Resume, Quick, memory
<1>2. IdleFrame.pc = "idle" /\ ~IdleFrame.aborted
  BY DEF IdleFrame
<1>3. frame'[f] = IdleFrame /\ Stay(f)
  BY <1>1, UpdateStays DEF SInv, TypeOK
<1> QED
  BY <1>1, <1>2, <1>3, RestKeepsTurns

LEMMA RunnerKeepsTurns ==
  ASSUME SInv, OInv, Timing = "paced", NEW f \in Frames, RunnerStep(f)
  PROVE  OInv'
BY QuickRunnerKeepsTurns, RunnerIngestsAlone, ResultKeepsTurns, EndKeepsTurns DEF RunnerStep

LEMMA FilesKeepTurns ==
  ASSUME SInv, OInv, NEW i, Land(i) \/ WriteFails(i)
  PROVE  OInv'
<1>1. UNCHANGED <<frame, processing, currentProjectId, currentAbortController>>
  BY DEF Land, WriteFails, WriteEnds, memory
<1>2. budget'.cancels = budget.cancels
  BY OtherSpending DEF Land, WriteFails, SInv
<1> QED
  BY <1>1, <1>2
  DEF OInv, OneQuick, ClosedIsQuiet, IngestsHold, ClaimsAreAlone, AbortsAreLeft, LeftOrLeaving, Quick, Alone, Ingesting

\* Everybody at rest.
LEMMA RestIsTurn ==
  ASSUME budget.cancels = 0, \A f \in Frames : frame[f] = IdleFrame
  PROVE  OInv
<1>1. \A f \in Frames : frame[f].pc = "idle" /\ ~frame[f].aborted
  BY DEF IdleFrame
<1> QED
  BY <1>1 DEF OInv, OneQuick, ClosedIsQuiet, IngestsHold, ClaimsAreAlone, AbortsAreLeft, Quick, Alone, Ingesting

LEMMA CrashKeepsTurns ==
  ASSUME SInv, OInv, Crash
  PROVE  OInv'
<1>1. frame' = [f \in Frames |-> IdleFrame]
  BY DEF Crash
<1>2. budget'.cancels = budget.cancels
  BY OtherSpending DEF Crash, SInv
<1>3. \A f \in Frames : frame'[f].pc = "idle" /\ ~frame'[f].aborted
  BY <1>1 DEF IdleFrame
<1> QED
  BY <1>2, <1>3 DEF OInv, OneQuick, ClosedIsQuiet, IngestsHold, ClaimsAreAlone, AbortsAreLeft, Quick, Alone, Ingesting

LEMMA NextKeepsTurns ==
  ASSUME SInv, OInv, Timing = "paced", ~EarlyReturns, [Next]_vars
  PROVE  OInv'
<1>1. ASSUME UNCHANGED vars PROVE OInv'
  BY <1>1
  DEF vars, memory, OInv, OneQuick, ClosedIsQuiet, IngestsHold, ClaimsAreAlone, AbortsAreLeft, LeftOrLeaving,
      Quick, Alone, Ingesting
<1> QED
  BY <1>1, UserKeepsTurns, AfterOpKeepsTurns, SessionKeepsTurns, RunnerKeepsTurns, EndKeepsTurns, FilesKeepTurns,
     CrashKeepsTurns
  DEF Next

\* One ingest at a time (ingest-queue.ts's "processing" flag and its controller),
\* through any clicks, failures, crashes and switches of the project: an ingest
\* of the project that was left runs on, but it was told to stop.  Three things
\* break it and are assumed away: cancelling the running task, which lets the
\* next one start beside it; two calls that look their project up at once; and a
\* project opened again before the runners of its last visit have ended.
THEOREM IngestsTakeTurns ==
  ASSUME Timing = "paced", MaxCancels = 0, ~EarlyReturns
  PROVE  Spec => []Serial
<1>1. Init => SInv /\ OInv
  <2> SUFFICES ASSUME Init PROVE OInv
    BY InitSInv
  <2>1. budget.cancels = 0 /\ \A f \in Frames : frame[f] = IdleFrame
    BY DEF Init
  <2> QED
    BY <2>1, RestIsTurn
<1>2. SInv /\ OInv /\ [Next]_vars => (SInv /\ OInv)'
  BY NextSInv, NextKeepsTurns
<1>3. OInv => Serial
  BY DEF OInv, IngestsHold, Serial
<1> QED
  BY <1>1, <1>2, <1>3, PTL DEF Spec
=============================================================================

----------------------------- MODULE RunProofs -----------------------------
(***************************************************************************)
(* What is proved of the runs.                                             *)
(*                                                                         *)
(* What the theorems of BackgroundProofs, IngestQueueProofs and            *)
(* WikiProofs, which hold for any values of the parts' constants, say of   *)
(* the runs of MCBackground, MCRetrieval and MCKnowledge.  A behaviour of  *)
(* those is one of one part; while it is a part of theirs, that part's     *)
(* invariant is inductive.  The parts are instances here and there; the    *)
(* lemmas called Same... say that they are the same.                       *)
(***************************************************************************)
EXTENDS MCBackground, MCRetrieval, MCKnowledge, Sequences, FiniteSetTheorems, TLAPS

-----------------------------------------------------------------------------
(***************************************************************************)
(* The run of MCBackground.                                                *)
(***************************************************************************)
Bg == INSTANCE BackgroundProofs
  WITH disk <- x1, selected <- x2, reads <- x3, fileContent <- x4, lastLoaded <- x5, mode <- x6,
       doc <- x7, timer <- x8, edits <- x9, selections <- x10, foreign <- x11, typed <- x12,
       slips <- x13, NoFile <- None,
       open <- x1, current <- x2, files <- x3, pending <- x4, poll <- x5, enqueued <- x6,
       server <- x7, restarts <- x8, clips <- x9, switches <- x10,
       tasks <- x1, project <- x2, resets <- x3, run <- x4, wakes <- x5, saved <- x6,
       home <- x7, mishaps <- x8, unsettled <- x9, strays <- x10,
       now <- x1, stored <- x2, recorder <- x3, inFlight <- x4, patrols <- x5, opened <- x6,
       loading <- x7, daemon <- x8, checks <- x9, reminder <- x10, dismissed <- x11,
       recorded <- x12, failures <- x13, openings <- x14, Recorders <- {1, 2}, EventThreshold <- 2,
       ReminderCooldown <- 1, MinPatrolInterval <- 1, TimeInterval <- 1, AutoPatrol <- TRUE,
       MaxTime <- 1, MaxEvents <- 2, MaxFailures <- 1, MaxOpenings <- 2,
       completion <- x1, listening <- x2, finished <- x3, onAbort <- x4, aborted <- x5, caller <- x6,
       killing <- x7, child <- x8, children <- x9, task <- x10, printed <- x11, drained <- x12,
       events <- x13, MaxLines <- 2,
       log <- x1, lost <- x2, llm <- x3, half <- x4, mixed <- x5, Calls <- {1, 2}, Logs <- {"p"},
       Endpoint <- <<"lan", "public">>, Listed <- {2}, Wide <- {"v", "w"}, Threshold <- 1, MaxChunk <- 2,
       Reply <- <<<<<<"data", "w">>, <<"data">>>>, <<<<"thought", "v">>>>>>,
       conversations <- x1, activeId <- x2, messages <- x3, isStreaming <- x4, messageCounter <- x5,
       sends <- x6, abortRef <- x7, redo <- x8, saving <- x9, chats <- x10, created <- x11,
       launches <- x12, faults <- x13, left <- x14, reloaded <- x15, MaxConvs <- 2, MaxSends <- 3,
       MaxLaunches <- 1, MaxFaults <- 1

-----------------------------------------------------------------------------
LEMMA SameStart ==
  /\ E!Init => Bg!E!Init
  /\ C!Init => Bg!C!Init
  /\ R!Init => Bg!R!Init
  /\ P!Init => Bg!P!Init
  /\ B!Init => Bg!B!Init
  /\ L!Init => Bg!L!Init
  /\ S!Init => Bg!H!Init
<1>1. E!Init => Bg!E!Init
  BY DEF E!Init, E!Empty, Bg!E!Init, Bg!E!Empty
<1>2. C!Init => Bg!C!Init
  BY DEF C!Init, C!NoPoll, Bg!C!Init, Bg!C!NoPoll
<1>3. R!Init => Bg!R!Init
  BY DEF R!Init, Bg!R!Init
<1>4. P!Init => Bg!P!Init
  BY DEF P!Init, P!normalizeMaintenanceState, Bg!P!Init, Bg!P!normalizeMaintenanceState
<1>5. B!Init => Bg!B!Init
  BY DEF B!Init, Bg!B!Init
<1>6. L!Init => Bg!L!Init
  BY DEF L!Init, L!Idle, L!Nothing, Bg!L!Init, Bg!L!Idle, Bg!L!Nothing
<1>7. S!Init => Bg!H!Init
  BY DEF S!Init, S!Convs, Bg!H!Init, Bg!H!Convs
<1> QED
  BY <1>1, <1>2, <1>3, <1>4, <1>5, <1>6, <1>7

LEMMA SameSteps ==
  /\ E!Next => Bg!E!Next
  /\ C!Next => Bg!C!Next
  /\ R!Next => Bg!R!Next
  /\ P!Next => Bg!P!Next
  /\ B!Next => Bg!B!Next
<1>1. E!Next => Bg!E!Next
  BY DEF E!Next, E!Select, E!Deselect, E!ReadDone, E!OpenEditor, E!CloseEditor, E!Type, E!Fire, E!Unmount,
         E!ForeignWrite, E!Loaded, E!Slip, E!Leaving, E!Arm, E!Empty, E!counters,
         Bg!E!Next, Bg!E!Select, Bg!E!Deselect, Bg!E!ReadDone, Bg!E!OpenEditor, Bg!E!CloseEditor, Bg!E!Type,
         Bg!E!Fire, Bg!E!Unmount, Bg!E!ForeignWrite, Bg!E!Loaded, Bg!E!Slip, Bg!E!Leaving, Bg!E!Arm,
         Bg!E!Empty, Bg!E!counters
<1>2. C!Next => Bg!C!Next
  BY DEF C!Next, C!Step, C!handle_clip, C!SwitchProject, C!ServerStops, C!ServerRestarts, C!Fetch, C!Take,
         C!Enqueue, C!NoPoll,
         Bg!C!Next, Bg!C!Step, Bg!C!handle_clip, Bg!C!SwitchProject, Bg!C!ServerStops, Bg!C!ServerRestarts,
         Bg!C!Fetch, Bg!C!Take, Bg!C!Enqueue, Bg!C!NoPoll
<1>3. R!Next => Bg!R!Next
  BY DEF R!Next, R!Step, R!queueResearch, R!processQueue, R!Search, R!Synthesize, R!Save, R!removeTask,
         R!SwitchProject, R!GoesOn, R!onTaskFinished, R!updateTask, R!FirstQueued, R!Queued, R!getRunningCount,
         R!RunningStatus, R!Put, R!Drop, R!Quiet, R!Unsettles, R!Cardinality,
         Bg!R!Next, Bg!R!Step, Bg!R!queueResearch, Bg!R!processQueue, Bg!R!Search, Bg!R!Synthesize, Bg!R!Save,
         Bg!R!removeTask, Bg!R!SwitchProject, Bg!R!GoesOn, Bg!R!onTaskFinished, Bg!R!updateTask,
         Bg!R!FirstQueued, Bg!R!Queued, Bg!R!getRunningCount, Bg!R!RunningStatus, Bg!R!Put, Bg!R!Drop,
         Bg!R!Quiet, Bg!R!Unsettles, Bg!R!Cardinality
<1>4. P!Next => Bg!P!Next
  BY DEF P!Next, P!BeginRecord, P!EndRecord, P!StartManual, P!PatrolDone, P!PatrolFails, P!CheckDone,
         P!PolicyRead, P!OpenProject, P!CloseProject, P!Check, P!Dismiss, P!Tick, P!Since, P!DueReasons,
         P!ReminderDue, P!Counted, P!Reduced, P!Completed, P!normalizeMaintenanceState, P!scheduleAuto,
         P!Without, P!Over, P!ReminderKey, P!projectVars, P!bannerVars, P!budgets,
         Bg!P!Next, Bg!P!BeginRecord, Bg!P!EndRecord, Bg!P!StartManual, Bg!P!PatrolDone, Bg!P!PatrolFails,
         Bg!P!CheckDone, Bg!P!PolicyRead, Bg!P!OpenProject, Bg!P!CloseProject, Bg!P!Check, Bg!P!Dismiss,
         Bg!P!Tick, Bg!P!Since, Bg!P!DueReasons, Bg!P!ReminderDue, Bg!P!Counted, Bg!P!Reduced,
         Bg!P!Completed, Bg!P!normalizeMaintenanceState, Bg!P!scheduleAuto, Bg!P!Without, Bg!P!Over,
         Bg!P!ReminderKey, Bg!P!projectVars, Bg!P!bannerVars, Bg!P!budgets
<1>5. B!Next => Bg!B!Next
  BY DEF B!Next, B!Step, B!CheckPolicy, B!ListenData, B!ListenDone, B!Listen, B!SpawnChild, B!Register,
         B!Return, B!Kill, B!Exit, B!EmitLine, B!EndOfOutput, B!Reap, B!Deliver, B!SpawnFails, B!Abort,
         B!PrintLine, B!finishWith, B!Ends, B!front, B!back,
         Bg!B!Next, Bg!B!Step, Bg!B!CheckPolicy, Bg!B!ListenData, Bg!B!ListenDone, Bg!B!Listen,
         Bg!B!SpawnChild, Bg!B!Register, Bg!B!Return, Bg!B!Kill, Bg!B!Exit, Bg!B!EmitLine, Bg!B!EndOfOutput,
         Bg!B!Reap, Bg!B!Deliver, Bg!B!SpawnFails, Bg!B!Abort, Bg!B!PrintLine, Bg!B!finishWith, Bg!B!Ends,
         Bg!B!front, Bg!B!back
<1> QED
  BY <1>1, <1>2, <1>3, <1>4, <1>5

\* The two steps of a call that read its reply go on or end, whatever they read;
\* the others are the same.
LEMMA CallStepsStay ==
  ASSUME Bg!LInv, L!Next
  PROVE  Bg!LInv'
<1>1. PICK c \in {1, 2} : L!Step(c)
  BY DEF L!Next
<1>2. DOMAIN x3[c] = Bg!Fields
  BY DEF Bg!LInv
<1>3. ASSUME NEW policy \in L!Policies, NEW p \in {"p"} \cup {L!NoProject}, NEW ok \in BOOLEAN,
             L!Begin(c, policy, p, ok)
      PROVE  Bg!LInv'
  <2>1. Bg!L!Begin(c, policy, p, ok)
    BY <1>3
    DEF L!Begin, L!Event, L!Allowed, L!Logged, L!NoProject, L!Unless, L!Ended, L!Idle, L!Nothing, L!Policies,
        Bg!L!Begin, Bg!L!Event, Bg!L!Allowed, Bg!L!Logged, Bg!L!NoProject, Bg!L!Unless, Bg!L!Ended,
        Bg!L!Idle, Bg!L!Nothing, Bg!L!Policies
  <2> QED
    BY <2>1, Bg!BeginKeepsLInv
<1>4. CASE \/ L!Abort(c) \/ L!Fire(c) \/ L!FetchCancelled(c) \/ L!FetchFails(c) \/ L!Refused(c)
           \/ L!Responds(c) \/ L!ReadCancelled(c) \/ L!ReadFails(c)
  <2>1. \/ Bg!L!Abort(c) \/ Bg!L!Fire(c) \/ Bg!L!FetchCancelled(c) \/ Bg!L!FetchFails(c) \/ Bg!L!Refused(c)
        \/ Bg!L!Responds(c) \/ Bg!L!ReadCancelled(c) \/ Bg!L!ReadFails(c)
    BY <1>4
    DEF L!Abort, L!Fire, L!FetchCancelled, L!FetchFails, L!Refused, L!Responds, L!ReadCancelled,
        L!ReadFails, L!Goes, L!Unless, L!Ended, L!Idle, L!Aborted, L!Running, L!Nothing,
        Bg!L!Abort, Bg!L!Fire, Bg!L!FetchCancelled, Bg!L!FetchFails, Bg!L!Refused, Bg!L!Responds,
        Bg!L!ReadCancelled, Bg!L!ReadFails, Bg!L!Goes, Bg!L!Unless, Bg!L!Ended, Bg!L!Idle, Bg!L!Aborted,
        Bg!L!Running, Bg!L!Nothing
  <2>2. Bg!L!Next
    BY <2>1 DEF Bg!L!Next, Bg!L!Step
  <2> QED
    BY <2>2, Bg!NextLInv
<1>5. ASSUME NEW n \in 1 .. 2, L!Chunk(c, n) PROVE Bg!LInv'
  <2> DEFINE d == L!Decode(SubSeq(L!Bytes(c), x3[c].sent + 1, x3[c].sent + n))
             p == L!Parsed(x3[c].line, d.out)
             q == [x3[c] EXCEPT !.sent = x3[c].sent + n]
             r == L!Fed(q, p.lines, p.rest)
  <2>1. x3' = [x3 EXCEPT ![c] = r] /\ UNCHANGED <<x1, x2>> /\ x3[c].at = "reading"
    BY <1>5 DEF L!Chunk
  <2>2. DOMAIN q = Bg!Fields /\ q.event = x3[c].event /\ q.at = "reading"
    BY <1>2, <2>1 DEF Bg!Fields
  <2> HIDE DEF d, p, q
  <2>3. DOMAIN r = Bg!Fields /\ r.event = x3[c].event /\ r.at = "reading"
    BY <2>2 DEF L!Fed, Bg!Fields
  <2> HIDE DEF r
  <2> QED
    BY <2>1, <2>3, Bg!OneCallKeepsLInv, Zenon DEF Bg!WentOut
<1>6. CASE L!Ends(c)
  <2> DEFINE q == L!WithRest(x3[c])
  <2>1. /\ x3[c].at = "reading"
        /\ L!Goes(c, L!Ended(q, "error", "thoughts")) \/ L!Goes(c, L!Ended(q, "done", "whole"))
    BY <1>6 DEF L!Ends
  <2>2. q.event = x3[c].event
    BY <1>2 DEF L!WithRest, L!Fed, Bg!Fields
  <2> HIDE DEF q
  <2>0. \A at, why : DOMAIN L!Ended(q, at, why) = Bg!Fields /\ L!Ended(q, at, why).event = q.event
                    /\ L!Ended(q, at, why).at = at
    BY DEF L!Ended, L!Idle, Bg!Fields
  <2>3. PICK r : /\ L!Goes(c, r) /\ DOMAIN r = Bg!Fields /\ r.event = x3[c].event
                 /\ r.at \in {"done", "error"}
    BY <2>0, <2>1, <2>2
  <2>4. x3' = [x3 EXCEPT ![c] = r] /\ UNCHANGED <<x1, x2>>
    BY <2>3 DEF L!Goes
  <2> QED
    BY <2>1, <2>3, <2>4, Bg!OneCallKeepsLInv, Zenon DEF Bg!WentOut
<1> QED
  BY <1>1, <1>3, <1>4, <1>5, <1>6 DEF L!Step

\* The chat's steps are the same but for a restart, which reads the files in order.
LEMMA ChatStepsStay ==
  ASSUME Bg!ChatInv, S!Next
  PROVE  Bg!ChatInv'
<1>0. Bg!ChatBounds
  BY DEF Bg!ChatBounds
<1>1. CASE S!Restart
  <2>1. /\ x1' = x10.conversations /\ UNCHANGED <<x10, x11>>
        /\ x2' = 0 \/ x2' \in x1'
        /\ x9' = IF x1' = {} THEN {} ELSE Bg!H!Subscribed(x1', x3')
    BY <1>1, Zenon DEF S!Restart, S!Subscribed, Bg!H!Subscribed
  <2> QED
    BY <2>1, Bg!RestartKeepsChatInv
<1>2. S!createConversation => Bg!H!createConversation
  BY DEF S!createConversation, S!Leaves, S!InFlight, S!Subscribed,
         Bg!H!createConversation, Bg!H!Leaves, Bg!H!InFlight, Bg!H!Subscribed
<1>3. S!handleSend => Bg!H!handleSend
  BY DEF S!Begin, S!handleSend, S!Leaves, S!InFlight, S!Subscribed,
         Bg!H!Begin, Bg!H!handleSend, Bg!H!Leaves, Bg!H!InFlight, Bg!H!Subscribed
<1>4. S!handleStop => Bg!H!handleStop
  BY DEF S!handleStop, S!store,
         Bg!H!handleStop, Bg!H!store
<1>5. S!handleRegenerate => Bg!H!handleRegenerate
  BY DEF S!handleRegenerate, S!InFlight, S!Of, S!Roles, S!WithoutLast, S!Last, S!Subscribed,
         Bg!H!handleRegenerate, Bg!H!InFlight, Bg!H!Of, Bg!H!Roles, Bg!H!WithoutLast, Bg!H!Last,
         Bg!H!Subscribed
<1>6. S!SaveFires => Bg!H!SaveFires
  BY Zenon DEF S!SaveFires, S!Of, S!store, S!Convs,
         Bg!H!SaveFires, Bg!H!Of, Bg!H!store, Bg!H!Convs
<1>7. ASSUME NEW n, S!Retrieve(n) PROVE Bg!H!Retrieve(n)
  BY <1>7
  DEF S!Retrieve, S!store,
      Bg!H!Retrieve, Bg!H!store
<1>8. ASSUME NEW n, S!Answer(n) PROVE Bg!H!Answer(n)
  BY <1>8
  DEF S!finalizeStream, S!Answer, S!Subscribed,
      Bg!H!finalizeStream, Bg!H!Answer, Bg!H!Subscribed
<1>9. ASSUME NEW n, S!setActiveConversation(n) PROVE Bg!H!setActiveConversation(n)
  BY <1>9
  DEF S!setActiveConversation, S!Leaves, S!InFlight, S!Subscribed,
      Bg!H!setActiveConversation, Bg!H!Leaves, Bg!H!InFlight, Bg!H!Subscribed
<1>10. ASSUME NEW n, S!deleteConversation(n) PROVE Bg!H!deleteConversation(n)
  BY <1>10
  DEF S!deleteConversation, S!Leaves, S!InFlight, S!Subscribed,
      Bg!H!deleteConversation, Bg!H!Leaves, Bg!H!InFlight, Bg!H!Subscribed
<1>11. ASSUME NEW n, S!Resend(n) PROVE Bg!H!Resend(n)
  BY <1>11
  DEF S!Begin, S!Resend, S!Leaves, S!InFlight, S!Of, S!Roles, S!WithoutLast, S!Last, S!Subscribed,
      Bg!H!Begin, Bg!H!Resend, Bg!H!Leaves, Bg!H!InFlight, Bg!H!Of, Bg!H!Roles, Bg!H!WithoutLast, Bg!H!Last,
      Bg!H!Subscribed
<1>12. CASE ~S!Restart
  <2>1. Bg!H!Next
    BY <1>2, <1>3, <1>4, <1>5, <1>6, <1>7, <1>8, <1>9, <1>10, <1>11, <1>12
    DEF S!Next, S!Step, Bg!H!Next, Bg!H!Step
  <2> QED
    BY <1>0, <2>1, Bg!NextChatInv
<1> QED
  BY <1>1, <1>12

LEMMA SameProperties ==
  /\ Bg!E!TypeOK /\ Bg!E!NoForeignText /\ Bg!E!ChangesSurvive => E!TypeOK /\ E!NoForeignText /\ E!ChangesSurvive
  /\ Bg!C!TypeOK /\ Bg!C!ClipsOnceAndHome /\ Bg!C!ClipsAreKept
       => C!TypeOK /\ C!ClipsOnceAndHome /\ C!ClipsAreKept
  /\ Bg!R!TypeOK /\ Bg!R!SlotsAreBounded /\ Bg!R!NoStrandedResearch /\ Bg!R!PagesGoHome
       => R!TypeOK /\ R!SlotsAreBounded /\ R!NoStrandedResearch /\ R!PagesGoHome
  /\ Bg!P!OneAutoPatrol /\ Bg!P!DaemonFollowsProject => P!OneAutoPatrol /\ P!DaemonFollowsProject
  /\ Bg!B!TypeOK /\ Bg!B!ToldOnce /\ Bg!B!NothingAfterTheEnd => B!TypeOK /\ B!ToldOnce /\ B!NothingAfterTheEnd
  /\ Bg!L!EgressIsTold => L!EgressIsTold
  /\ Bg!H!SavedChatsMatch => S!SavedChatsMatch
<1>1. Bg!E!TypeOK /\ Bg!E!NoForeignText /\ Bg!E!ChangesSurvive => E!TypeOK /\ E!NoForeignText /\ E!ChangesSurvive
  BY DEF E!TypeOK, E!NoForeignText, E!ChangesSurvive, E!Text, E!Changes, E!Cardinality,
         Bg!E!TypeOK, Bg!E!NoForeignText, Bg!E!ChangesSurvive, Bg!E!Text, Bg!E!Changes, Bg!E!Cardinality
<1>2. Bg!C!TypeOK /\ Bg!C!ClipsOnceAndHome /\ Bg!C!ClipsAreKept
        => C!TypeOK /\ C!ClipsOnceAndHome /\ C!ClipsAreKept
  BY DEF C!TypeOK, C!ClipsOnceAndHome, C!ClipsAreKept, C!Clips, C!Cardinality,
         Bg!C!TypeOK, Bg!C!ClipsOnceAndHome, Bg!C!ClipsAreKept, Bg!C!Clips, Bg!C!Cardinality
<1>3. Bg!R!TypeOK /\ Bg!R!SlotsAreBounded /\ Bg!R!NoStrandedResearch /\ Bg!R!PagesGoHome
        => R!TypeOK /\ R!SlotsAreBounded /\ R!NoStrandedResearch /\ R!PagesGoHome
  BY DEF R!TypeOK, R!SlotsAreBounded, R!NoStrandedResearch, R!PagesGoHome, R!Ids, R!Status, R!RunningStatus,
         R!Partial, R!Queued, R!Cardinality,
         Bg!R!TypeOK, Bg!R!SlotsAreBounded, Bg!R!NoStrandedResearch, Bg!R!PagesGoHome, Bg!R!Ids, Bg!R!Status,
         Bg!R!RunningStatus, Bg!R!Partial, Bg!R!Queued, Bg!R!Cardinality
<1>4. Bg!P!OneAutoPatrol /\ Bg!P!DaemonFollowsProject => P!OneAutoPatrol /\ P!DaemonFollowsProject
  BY DEF P!OneAutoPatrol, P!DaemonFollowsProject, P!Cardinality,
         Bg!P!OneAutoPatrol, Bg!P!DaemonFollowsProject, Bg!P!Cardinality
<1>5. Bg!B!TypeOK /\ Bg!B!ToldOnce /\ Bg!B!NothingAfterTheEnd
        => B!TypeOK /\ B!ToldOnce /\ B!NothingAfterTheEnd
  BY DEF B!TypeOK, B!ToldOnce, B!NothingAfterTheEnd, B!Ends, B!Lines, B!Range,
         Bg!B!TypeOK, Bg!B!ToldOnce, Bg!B!NothingAfterTheEnd, Bg!B!Ends, Bg!B!Lines, Bg!B!Range
<1>6. Bg!L!EgressIsTold => L!EgressIsTold
  BY DEF L!EgressIsTold, L!Nothing, L!NoProject, L!Running,
         Bg!L!EgressIsTold, Bg!L!Nothing, Bg!L!NoProject, Bg!L!Running
<1>7. Bg!H!SavedChatsMatch => S!SavedChatsMatch
  BY Zenon DEF S!SavedChatsMatch, S!Of,
         Bg!H!SavedChatsMatch, Bg!H!Of
<1> QED
  BY <1>1, <1>2, <1>3, <1>4, <1>5, <1>6, <1>7

\* Whose turn it is never changes, and nobody moves out of turn.
LEMMA StepsHaveFocus ==
  ASSUME [BackgroundNext]_backgroundVars
  PROVE  /\ focus' = focus
         /\ focus = "PageEditor" => [Bg!E!Next]_(Bg!E!vars)
         /\ focus = "ClipInbox" => [Bg!C!Next]_(Bg!C!vars)
         /\ focus = "ResearchTasks" => [Bg!R!Next]_(Bg!R!vars)
         /\ focus = "PatrolSchedule" => [Bg!P!Next]_(Bg!P!vars)
         /\ focus = "ClaudeBridge" => [Bg!B!Next]_(Bg!B!vars)
         /\ focus = "LlmStream" => L!Next \/ UNCHANGED Bg!L!vars
         /\ focus = "ChatSession" => S!Next \/ UNCHANGED Bg!H!vars
         /\ focus = "IngestQueue" => [Q!Next]_(Q!vars)
<1>1. /\ focus' = focus
      /\ focus = "PageEditor" => E!Next \/ UNCHANGED backgroundVars
      /\ focus = "ClipInbox" => C!Next \/ UNCHANGED backgroundVars
      /\ focus = "ResearchTasks" => R!Next \/ UNCHANGED backgroundVars
      /\ focus = "PatrolSchedule" => P!Next \/ UNCHANGED backgroundVars
      /\ focus = "ClaudeBridge" => B!Next \/ UNCHANGED backgroundVars
      /\ focus = "LlmStream" => L!Next \/ UNCHANGED backgroundVars
      /\ focus = "ChatSession" => S!Next \/ UNCHANGED backgroundVars
      /\ focus = "IngestQueue" => Q!Next \/ UNCHANGED backgroundVars
  BY DEF BackgroundNext, backgroundVars, OnlyR, OnlyE, OnlyC, OnlyP, OnlyK, OnlyV, OnlyL, OnlyQ, OnlyS, OnlyB
<1>2. UNCHANGED backgroundVars =>
        /\ UNCHANGED Bg!E!vars
        /\ UNCHANGED Bg!C!vars
        /\ UNCHANGED Bg!R!vars
        /\ UNCHANGED Bg!P!vars
        /\ UNCHANGED Bg!B!vars
        /\ UNCHANGED Bg!L!vars
        /\ UNCHANGED Bg!H!vars
        /\ UNCHANGED Q!vars
  BY DEF backgroundVars, Bg!E!vars, Bg!E!counters, Bg!C!vars, Bg!R!vars, Bg!R!store, Bg!P!vars, Bg!B!vars,
         Bg!B!front, Bg!B!back, Bg!L!vars, Bg!H!vars, Bg!H!store, Q!vars, Q!memory, Q!history
<1> QED
  BY <1>1, <1>2, SameSteps

\* What IngestQueue asks of its constants: None is neither a project nor a frame.
NoneIsNothing == None \notin {"a", 1, 2}

LEMMA QueueConstants ==
  ASSUME NoneIsNothing
  PROVE  Q!AbsentAssumption /\ Q!FrameAssumption /\ Q!NumberAssumption /\ Q!FlagAssumption
<1>1. Q!AbsentAssumption
  BY DEF NoneIsNothing, Q!AbsentAssumption
<1>2. Q!FrameAssumption
  <2>1. IsFiniteSet({1}) /\ IsFiniteSet({1} \cup {2})
    BY FS_Singleton, FS_AddElement, Zenon
  <2>2. {1} \cup {2} = {1, 2}
    OBVIOUS
  <2>3. \A Z : Q!IsFiniteSet(Z) <=> IsFiniteSet(Z)
    BY DEF Q!IsFiniteSet, IsFiniteSet
  <2> QED
    BY <2>1, <2>2, <2>3 DEF Q!FrameAssumption
<1>3. Q!NumberAssumption
  BY DEF Q!NumberAssumption
<1>4. Q!FlagAssumption
  BY DEF Q!FlagAssumption
<1> QED
  BY <1>1, <1>2, <1>3, <1>4

-----------------------------------------------------------------------------
EditorInv == focus = "PageEditor" => Bg!EInv
ChatInv == focus = "ChatSession" => Bg!ChatInv
ClipInv == focus = "ClipInbox" => Bg!CInv
ResearchInv == focus = "ResearchTasks" => Bg!RInv
PatrolInv == focus = "PatrolSchedule" => Bg!PInv
QueueInv == focus = "IngestQueue" => Q!SInv /\ Q!OInv
BridgeInv == focus = "ClaudeBridge" => Bg!BInv
CallInv == focus = "LlmStream" => Bg!LInv

LEMMA BoundsFit == Bg!ChatBounds /\ Bg!BridgeBounds
BY DEF Bg!ChatBounds, Bg!BridgeBounds

LEMMA ChatStays ==
  /\ BackgroundInit => ChatInv
  /\ ChatInv /\ [BackgroundNext]_backgroundVars => ChatInv'
BY BoundsFit, SameStart, Bg!InitChatInv, StepsHaveFocus, ChatStepsStay, Bg!NextChatInv
DEF BackgroundInit, ChatInv

LEMMA PatrolStays ==
  /\ BackgroundInit => PatrolInv
  /\ PatrolInv /\ [BackgroundNext]_backgroundVars => PatrolInv'
BY SameStart, Bg!InitPInv, StepsHaveFocus, Bg!NextPInv DEF BackgroundInit, PatrolInv

LEMMA BridgeStays ==
  /\ BackgroundInit => BridgeInv
  /\ BridgeInv /\ [BackgroundNext]_backgroundVars => BridgeInv'
BY BoundsFit, SameStart, Bg!InitBInv, StepsHaveFocus, Bg!NextBInv DEF BackgroundInit, BridgeInv

LEMMA CallStays ==
  /\ BackgroundInit => CallInv
  /\ CallInv /\ [BackgroundNext]_backgroundVars => CallInv'
BY SameStart, Bg!InitLInv, StepsHaveFocus, CallStepsStay, Bg!NextLInv DEF BackgroundInit, CallInv

LEMMA QueueStays ==
  ASSUME NoneIsNothing
  PROVE  /\ BackgroundInit => QueueInv
         /\ QueueInv /\ [BackgroundNext]_backgroundVars => QueueInv'
<1>1. ASSUME Q!Init PROVE Q!SInv /\ Q!OInv
  <2>1. x11.cancels = 0 /\ \A f \in {1, 2} : x7[f] = Q!IdleFrame
    BY <1>1 DEF Q!Init
  <2> QED
    BY <1>1, <2>1, QueueConstants, Q!InitSInv, Q!RestIsTurn
<1>2. BackgroundInit => QueueInv
  BY <1>1 DEF BackgroundInit, QueueInv
<1>3. QueueInv /\ [BackgroundNext]_backgroundVars => QueueInv'
  BY QueueConstants, StepsHaveFocus, Q!NextSInv, Q!NextKeepsTurns DEF QueueInv
<1> QED
  BY <1>2, <1>3

\* What the user types into a page is in its file, and stays there
\* (preview-panel.tsx), and the chats are on the disk when no answer is due
\* (auto-save.ts), in the run of all parts.
THEOREM WorkStaysSaved ==
  ASSUME Bg!EditorBounds
  PROVE  BackgroundSpec => []WorkIsSaved
<1>1. /\ BackgroundInit => EditorInv
      /\ EditorInv /\ [BackgroundNext]_backgroundVars => EditorInv'
  BY SameStart, Bg!InitEInv, StepsHaveFocus, Bg!NextEInv DEF BackgroundInit, EditorInv
<1>2. EditorInv /\ ChatInv => WorkIsSaved
  BY SameProperties, Bg!EInvSuffices DEF WorkIsSaved, EditorInv, ChatInv, Bg!ChatInv
<1> QED
  BY <1>1, <1>2, ChatStays, PTL DEF BackgroundSpec

\* A clip is enqueued once, in its own project, or kept (clip-watcher.ts), in
\* the run of all parts.
THEOREM ClipsStaySound ==
  ASSUME Bg!ClipBounds
  PROVE  BackgroundSpec => []ClipsAreSound
<1>1. /\ BackgroundInit => ClipInv
      /\ ClipInv /\ [BackgroundNext]_backgroundVars => ClipInv'
  BY SameStart, Bg!InitCInv, StepsHaveFocus, Bg!NextCInv DEF BackgroundInit, ClipInv
<1>2. ClipInv => ClipsAreSound
  BY Bg!CInvSuffices, SameProperties DEF ClipInv, ClipsAreSound
<1> QED
  BY <1>1, <1>2, PTL DEF BackgroundSpec

\* Research keeps to its slots, strands no task and saves its pages where they
\* were asked for (deep-research.ts), in the run of all parts.
THEOREM ResearchStaysSound ==
  ASSUME Bg!ResearchBounds
  PROVE  BackgroundSpec => []ResearchIsSound
<1>1. /\ BackgroundInit => ResearchInv
      /\ ResearchInv /\ [BackgroundNext]_backgroundVars => ResearchInv'
  BY SameStart, Bg!InitRInv, StepsHaveFocus, Bg!NextRInv DEF BackgroundInit, ResearchInv
<1>2. ResearchInv => ResearchIsSound
  BY Bg!RInvSuffices, SameProperties DEF ResearchInv, ResearchIsSound
<1> QED
  BY <1>1, <1>2, PTL DEF BackgroundSpec

\* One automatic patrol at a time and a daemon for the open project
\* (memory-ops.ts, project-local-maintenance.ts), and one ingest at a time
\* (ingest-queue.ts), in the run of all parts.
THEOREM OneStaysAtATime ==
  ASSUME NoneIsNothing
  PROVE  BackgroundSpec => []OneAtATime
<1>1. PatrolInv /\ QueueInv => OneAtATime
  BY Bg!PInvSuffices, SameProperties DEF OneAtATime, PatrolInv, QueueInv, Q!OInv, Q!IngestsHold, Q!Serial
<1> QED
  BY <1>1, PatrolStays, QueueStays, PTL DEF BackgroundSpec

\* The caller of the Claude Code CLI is told every line, one end, and nothing
\* after it (claude-cli-transport.ts), and no request leaves untold
\* (egress-log.ts), in the run of all parts.
THEOREM CallsStayTold ==
  BackgroundSpec => []CallsAreTold
<1>1. BridgeInv /\ CallInv => CallsAreTold
  BY BoundsFit, Bg!BInvSuffices, SameProperties DEF CallsAreTold, BridgeInv, CallInv, Bg!LInv
<1> QED
  BY <1>1, BridgeStays, CallStays, PTL DEF BackgroundSpec

-----------------------------------------------------------------------------
(***************************************************************************)
(* The runs of MCRetrieval and MCKnowledge.                                *)
(***************************************************************************)
Wp == INSTANCE WikiProofs
  WITH texts <- y1, model <- y2, dimension <- y3, rows <- y4, jobs <- y5, removing <- y6, writes <- y7,
       mishaps <- y8, reindexes <- y9, disturbed <- y10, complete <- y11, Pages <- {"p", "q"},
       Stem <- [p \in {"p", "q"} |-> "i"], ChunkCount <- <<2, 1>>, TextSize <- <<1, 2>>, MaxRetries <- 1,
       MaxWrites <- 2, MaxMishaps <- 1, MaxReindexes <- 1, project <- y1, versions <- y2,
       dataVersion <- y3, cachedGraph <- y4, asker <- y5, switches <- y6, noted <- y7,
       Projects <- {"x", "y"}, Askers <- {"a", "b"}, MaxBumps <- 1, MaxSwitches <- 1, links <- y1,
       edges <- y2, stage <- y3, community <- y4, waved <- y5, highlighted <- y6, hidden <- y7,
       total <- y8, sent <- y9, Nodes <- {"a", "b", "c", "index"}, Structural <- {"index"},
       Types <- {"uses"}, MaxEdges <- 3, MaxHidden <- 1, media <- y1, textCache <- y2,
       captionCache <- y3, document <- y4, run <- y5, passes <- y6, Docs <- DOMAIN Slots,
       Unusable <- {"dot"}, MaxImages <- 2, Concurrency <- 2, Ingests <- {1, 2}, MaxPasses <- 1,
       sources <- y1, textCaches <- y2, extracts <- y3, imports <- y4, importing <- y5, sourceList <- y6,
       armed <- y7, deletes <- y8, queued <- y9, toasts <- y10, asked <- y11,
       Kind <- [n \in {"t", "i", "o"} |-> CASE n = "t" -> "text" [] n = "i" -> "image" [] OTHER -> "opaque"],
       Selections <- {<<File("t", 1)>>, <<File("t", 2), File("i", 1)>>, <<File("o", 1)>>, <<File("o", 2)>>},
       Folders <- {[dir |-> "d", files |-> {File("t", 1), File("i", 1)}]}, Ingested <- {"t"},
       MaxCounter <- 2, MaxImports <- 2, MaxDeletes <- 1, store <- y1, draft <- y2, mem <- y3,
       disk <- y4, env <- y5, chains <- y6, bounds <- y7, Presets <- {"p", "q"}, Values <- {"0", "1"},
       Default <- "0", MaxEdits <- 2, MaxSaves <- 1, MaxCrashes <- 1, state <- y1, stored <- y2,
       flights <- y3, start <- y4, persisted <- y5, checks <- y6, world <- y7, shown <- y8, tries <- y9,
       Releases <- <<<<0, 3, 9>>, <<0, 3, 10>>, <<0, 4, 0>>>>, MaxRestarts <- 1, MaxAsks <- 1,
       MaxChoices <- 2, MaxFailures <- 0, MaxHours <- 1, None <- NoValue, said <- z1, queue <- z2,
       planned <- z3, adds <- z4, updates <- z5, version <- z6, saves <- z7, pages <- z8, indexed <- z9,
       listed <- z10, logged <- z11, held <- z12, updated <- z13, confirmed <- z14, failures <- z15,
       Contents <- DOMAIN Texts, Features <- Texts, Conversations <- {"v"}, MaxAnswers <- 3,
       MaxUpdates <- 1, toReview <- z1, wiki <- z2, index <- z3, acts <- z4, research <- z5, sweep <- z6,
       since <- z7, told <- z8, counts <- z9, Order <- <<"missing", "pair", "suggestion">>,
       ItemKind <- OfItems("missing-page", "duplicate", "suggestion"),
       Labels <- OfItems({"Create Page", "Skip"}, {"Create Page", "open", "delete"}, {"Explore",
         "Create Page"}),
       Affected <- OfItems({}, {Page("b")}, {}), Wanted <- OfItems("x", "u", "t"),
       Title <- OfItems("x", "U", "T"), Slug <- OfItems("x-d", "t-d", "t-d"), Prefixed <- {"pair"},
       Wiki <- [p \in {Page("a"), Page("b")} |-> IF p = Page("a") THEN "a" ELSE "bee"],
       Foreign <- [p \in {Page("x")} |-> "x"], Searchable <- BOOLEAN,
       Headings <- {HeadingOf("plain"), HeadingOf("odd")}, BatchSize <- 1, MaxBatches <- 2,
       MaxEvents <- 2, MaxSweeps <- 1

LEMMA SameStartOfRetrieval ==
  /\ Index!Init => Wp!N!Init
  /\ Cache!Init => Wp!G!Init
  /\ Insights!Init => Wp!V!Init
  /\ Cascade!Init => Wp!I!Init
  /\ Import!Init => Wp!J!Init
  /\ Settings!Init => Wp!S!Init
  /\ Updates!Init => Wp!U!Init
<1>1. Index!Init => Wp!N!Init
  BY DEF Index!Init, Index!Ids, Index!Writers, Index!Idle,
         Wp!N!Init, Wp!N!Ids, Wp!N!Writers, Wp!N!Idle
<1>2. Cache!Init => Wp!G!Init
  BY DEF Cache!Init, Cache!Nothing, Cache!Idle,
         Wp!G!Init, Wp!G!Nothing, Wp!G!Idle
<1>3. Insights!Init => Wp!V!Init
  BY DEF Insights!Init,
         Wp!V!Init
<1>4. Cascade!Init => Wp!I!Init
  BY DEF Cascade!Init, Cascade!Nothing, Cascade!Waiting,
         Wp!I!Init, Wp!I!Nothing, Wp!I!Waiting
<1>5. Import!Init => Wp!J!Init
  BY DEF Import!Init, Import!Nothing,
         Wp!J!Init, Wp!J!Nothing
<1>6. Settings!Init => Wp!S!Init
  BY DEF Settings!Init, Settings!Fresh, Settings!DraftOf, Settings!Unset, Settings!Builtin,
         Settings!NoPreset,
         Wp!S!Init, Wp!S!Fresh, Wp!S!DraftOf, Wp!S!Unset, Wp!S!Builtin, Wp!S!NoPreset
<1>7. Updates!Init => Wp!U!Init
  BY ZenonT(40) DEF Updates!Init, Updates!Fresh, Updates!Nothing,
         Wp!U!Init, Wp!U!Fresh, Wp!U!Nothing
<1> QED
  BY <1>1, <1>2, <1>3, <1>4, <1>5, <1>6, <1>7

LEMMA SameStartOfKnowledge ==
  /\ Digests!Init => Wp!D!Init
  /\ Desk!Init => Wp!W!Init
<1>1. Digests!Init => Wp!D!Init
  BY DEF Digests!Init,
         Wp!D!Init
<1>2. Desk!Init => Wp!W!Init
  BY DEF Desk!Init, Desk!Items, Desk!Nothing, Desk!Range,
         Wp!W!Init, Wp!W!Items, Wp!W!Nothing, Wp!W!Range
<1> QED
  BY <1>1, <1>2

LEMMA SameStepsOfRetrieval ==
  /\ Index!Next => Wp!N!Next
  /\ Cache!Next => Wp!G!Next
  /\ Insights!Next => Wp!V!Next
  /\ Cascade!Next => Wp!I!Next
  /\ Import!Next => Wp!J!Next
  /\ Settings!Next => Wp!S!Next
  /\ Updates!Next => Wp!U!Next
<1>1. Index!Next => Wp!N!Next
  BY ZenonT(40) DEF Index!Next, Index!Ingest, Index!DeletePage, Index!Reindex, Index!ChangeModel, Index!Step,
         Index!Versions, Index!Idle, Index!Busy, Index!Writers, Index!JobDone, Index!Embedded,
         Index!TooLong, Index!ChunkFails, Index!Write, Index!Take, Index!Ids, Index!DeleteRowsOf,
         Index!DeleteRowsOfFails, Index!Onward, Index!Halves, Index!Mishap, Index!CreateTable,
         Index!DeleteRows, Index!DeleteRowsFails, Index!AddRows, Index!AddRowsFails, Index!TodoAfter,
         Index!RowsWithout, Index!RowsOf, Index!Whole, Index!DropRows,
         Wp!N!Next, Wp!N!Ingest, Wp!N!DeletePage, Wp!N!Reindex, Wp!N!ChangeModel, Wp!N!Step, Wp!N!Versions,
         Wp!N!Idle, Wp!N!Busy, Wp!N!Writers, Wp!N!JobDone, Wp!N!Embedded, Wp!N!TooLong, Wp!N!ChunkFails,
         Wp!N!Write, Wp!N!Take, Wp!N!Ids, Wp!N!DeleteRowsOf, Wp!N!DeleteRowsOfFails, Wp!N!Onward,
         Wp!N!Halves, Wp!N!Mishap, Wp!N!CreateTable, Wp!N!DeleteRows, Wp!N!DeleteRowsFails, Wp!N!AddRows,
         Wp!N!AddRowsFails, Wp!N!TodoAfter, Wp!N!RowsWithout, Wp!N!RowsOf, Wp!N!Whole, Wp!N!DropRows
<1>2. Cache!Next => Wp!G!Next
  BY ZenonT(40) DEF Cache!Next, Cache!bumpDataVersion, Cache!Switch, Cache!Write, Cache!Ask, Cache!Build, Cache!Built,
         Cache!Use, Cache!ReadPage, Cache!Nothing, Cache!Sum, Cache!Hit, Cache!VersionOf, Cache!Idle,
         Wp!G!Next, Wp!G!bumpDataVersion, Wp!G!Switch, Wp!G!Write, Wp!G!Ask, Wp!G!Build, Wp!G!Built,
         Wp!G!Use, Wp!G!ReadPage, Wp!G!Nothing, Wp!G!Sum, Wp!G!Hit, Wp!G!VersionOf, Wp!G!Idle
<1>3. Insights!Next => Wp!V!Next
  BY ZenonT(40) DEF Insights!Next, Insights!Link, Insights!Communities, Insights!Show, Insights!Load,
         Insights!resetFilters, Insights!Connections, Insights!Dismiss, Insights!Gaps, Insights!Highlight,
         Insights!Hide, Insights!KeyOf, Insights!First, Insights!Surprising, Insights!InsightKey,
         Insights!Isolated, Insights!Members, Insights!Sparse, Insights!Bridges, Insights!Visible,
         Insights!Hub, Insights!linkCount, Insights!Neighbours, Insights!Most, Insights!Cardinality,
         Insights!Max, Insights!Range,
         Wp!V!Next, Wp!V!Link, Wp!V!Communities, Wp!V!Show, Wp!V!Load, Wp!V!resetFilters, Wp!V!Connections,
         Wp!V!Dismiss, Wp!V!Gaps, Wp!V!Highlight, Wp!V!Hide, Wp!V!KeyOf, Wp!V!First, Wp!V!Surprising,
         Wp!V!InsightKey, Wp!V!Isolated, Wp!V!Members, Wp!V!Sparse, Wp!V!Bridges, Wp!V!Visible, Wp!V!Hub,
         Wp!V!linkCount, Wp!V!Neighbours, Wp!V!Most, Wp!V!Cardinality, Wp!V!Max, Wp!V!Range
<1>4. Cascade!Next => Wp!I!Next
  BY ZenonT(40) DEF Cascade!Next, Cascade!Usable, Cascade!Preview, Cascade!Start, Cascade!Abort, Cascade!PoolEnds,
         Cascade!Extract, Cascade!Caption, Cascade!Take, Cascade!Look, Cascade!AnswerFails, Cascade!Answer,
         Cascade!Inject, Cascade!Nothing, Cascade!ReadAfresh, Cascade!References, Cascade!Waiting,
         Cascade!Becomes, Cascade!Begun, Cascade!Urls, Cascade!Saved, Cascade!ImagesOf, Cascade!NthUrl,
         Cascade!With, Cascade!Asked, Cascade!Failed, Cascade!SectionOf, Cascade!Injected, Cascade!NumberOf,
         Cascade!Reached, Cascade!CaptionOf, Cascade!Cardinality,
         Wp!I!Next, Wp!I!Usable, Wp!I!Preview, Wp!I!Start, Wp!I!Abort, Wp!I!PoolEnds, Wp!I!Extract,
         Wp!I!Caption, Wp!I!Take, Wp!I!Look, Wp!I!AnswerFails, Wp!I!Answer, Wp!I!Inject, Wp!I!Nothing,
         Wp!I!ReadAfresh, Wp!I!References, Wp!I!Waiting, Wp!I!Becomes, Wp!I!Begun, Wp!I!Urls, Wp!I!Saved,
         Wp!I!ImagesOf, Wp!I!NthUrl, Wp!I!With, Wp!I!Asked, Wp!I!Failed, Wp!I!SectionOf, Wp!I!Injected,
         Wp!I!NumberOf, Wp!I!Reached, Wp!I!CaptionOf, Wp!I!Cardinality
<1>5. Import!Next => Wp!J!Next
  BY ZenonT(40) DEF Import!Next, Import!Pick, Import!FindDest, Import!EndImport, Import!Enqueue, Import!Copy,
         Import!PickFolder, Import!Preprocessed, Import!Refresh, Import!Disarm, Import!Rows, Import!Arm,
         Import!Fire, Import!DropCache, Import!EndDelete, Import!Unlink, Import!CanImport, Import!Nothing,
         Import!Becomes, Import!getUniqueDestPath, Import!Mishap, Import!Copied, Import!Late, Import!Stale,
         Import!Path, Import!Put, Import!Row, Import!DeleteBecomes, Import!Without, Import!Reads,
         Import!Extracted, Import!Max, Import!Min,
         Wp!J!Next, Wp!J!Pick, Wp!J!FindDest, Wp!J!EndImport, Wp!J!Enqueue, Wp!J!Copy, Wp!J!PickFolder,
         Wp!J!Preprocessed, Wp!J!Refresh, Wp!J!Disarm, Wp!J!Rows, Wp!J!Arm, Wp!J!Fire, Wp!J!DropCache,
         Wp!J!EndDelete, Wp!J!Unlink, Wp!J!CanImport, Wp!J!Nothing, Wp!J!Becomes, Wp!J!getUniqueDestPath,
         Wp!J!Mishap, Wp!J!Copied, Wp!J!Late, Wp!J!Stale, Wp!J!Path, Wp!J!Put, Wp!J!Row, Wp!J!DeleteBecomes,
         Wp!J!Without, Wp!J!Reads, Wp!J!Extracted, Wp!J!Max, Wp!J!Min
<1>6. Settings!Next => Wp!S!Next
  BY ZenonT(40) DEF Settings!Next, Settings!Drafted, Settings!Edit, Settings!Toggle, Settings!Type, Settings!Save,
         Settings!Persists, Settings!Saves, Settings!AutoSave, Settings!Restart, Settings!Edited,
         Settings!NoPreset, Settings!Persist, Settings!Sets, Settings!Resolved, Settings!Onward,
         Settings!DraftOfClick, Settings!Flushed, Settings!Reresolved, Settings!SeedOf, Settings!DraftOf,
         Settings!Unset, Settings!Builtin, Settings!Seeded,
         Wp!S!Next, Wp!S!Drafted, Wp!S!Edit, Wp!S!Toggle, Wp!S!Type, Wp!S!Save, Wp!S!Persists, Wp!S!Saves,
         Wp!S!AutoSave, Wp!S!Restart, Wp!S!Edited, Wp!S!NoPreset, Wp!S!Persist, Wp!S!Sets, Wp!S!Resolved,
         Wp!S!Onward, Wp!S!DraftOfClick, Wp!S!Flushed, Wp!S!Reresolved, Wp!S!SeedOf, Wp!S!DraftOf,
         Wp!S!Unset, Wp!S!Builtin, Wp!S!Seeded
<1>7. Updates!Next => Wp!U!Next
  BY ZenonT(40) DEF Updates!Next, Updates!ReadBack, Updates!Hydrate, Updates!CheckNow, Updates!Dismiss, Updates!Toggle,
         Updates!SaveLands, Updates!Publish, Updates!HourPasses, Updates!Answered, Updates!AnsweredNow,
         Updates!Restart, Updates!IsDue, Updates!Hydrated, Updates!Begin, Updates!hasAvailableUpdate,
         Updates!Chosen, Updates!Keep, Updates!Early, Updates!Arrives, Updates!Status, Updates!Kept,
         Updates!Fresh, Updates!Nothing, Updates!Answers, Updates!Result, Updates!isNewer,
         Wp!U!Next, Wp!U!ReadBack, Wp!U!Hydrate, Wp!U!CheckNow, Wp!U!Dismiss, Wp!U!Toggle, Wp!U!SaveLands,
         Wp!U!Publish, Wp!U!HourPasses, Wp!U!Answered, Wp!U!AnsweredNow, Wp!U!Restart, Wp!U!IsDue,
         Wp!U!Hydrated, Wp!U!Begin, Wp!U!hasAvailableUpdate, Wp!U!Chosen, Wp!U!Keep, Wp!U!Early,
         Wp!U!Arrives, Wp!U!Status, Wp!U!Kept, Wp!U!Fresh, Wp!U!Nothing, Wp!U!Answers, Wp!U!Result,
         Wp!U!isNewer
<1> QED
  BY <1>1, <1>2, <1>3, <1>4, <1>5, <1>6, <1>7

LEMMA SameStepsOfKnowledge ==
  /\ Digests!Next => Wp!D!Next
  /\ Desk!Next => Wp!W!Next
<1>1. Digests!Next => Wp!D!Next
  BY ZenonT(40) DEF Digests!Next, Digests!Answer, Digests!BeginAdd, Digests!EndAdd, Digests!Statuses,
         Digests!BeginUpdate, Digests!EndUpdate, Digests!Torn, Digests!BeginSave, Digests!WritePage,
         Digests!WriteClaims, Digests!UpdateIndex, Digests!AppendLog, Digests!SaveFails, Digests!Best,
         Digests!Plans, Digests!wiki, Digests!Items, Digests!Added, Digests!Keys, Digests!Updated,
         Digests!Candidate, Digests!SameQueue, Digests!At, Digests!Path, Digests!Go, Digests!Candidates,
         Digests!Score, Digests!Evidence, Digests!PlanType, Digests!Points,
         Wp!D!Next, Wp!D!Answer, Wp!D!BeginAdd, Wp!D!EndAdd, Wp!D!Statuses, Wp!D!BeginUpdate,
         Wp!D!EndUpdate, Wp!D!Torn, Wp!D!BeginSave, Wp!D!WritePage, Wp!D!WriteClaims, Wp!D!UpdateIndex,
         Wp!D!AppendLog, Wp!D!SaveFails, Wp!D!Best, Wp!D!Plans, Wp!D!wiki, Wp!D!Items, Wp!D!Added,
         Wp!D!Keys, Wp!D!Updated, Wp!D!Candidate, Wp!D!SameQueue, Wp!D!At, Wp!D!Path, Wp!D!Go,
         Wp!D!Candidates, Wp!D!Score, Wp!D!Evidence, Wp!D!PlanType, Wp!D!Points
<1>2. Desk!Next => Wp!W!Next
  BY ZenonT(40) DEF Desk!Next, Desk!Items, Desk!Dismiss, Desk!Buttons, Desk!Click, Desk!ClearResolved, Desk!Open,
         Desk!Delete, Desk!Preview, Desk!ListPages, Desk!WritePage, Desk!ReadIndex, Desk!WriteIndex,
         Desk!Finish, Desk!StartSweep, Desk!ReadTitle, Desk!ApplyRules, Desk!Nothing, Desk!Judge,
         Desk!Appears, Desk!Vanishes, Desk!Gone, Desk!Event, Desk!Branch, Desk!Pending, Desk!Resolved,
         Desk!Ends, Desk!Change, Desk!Without, Desk!Duplicate, Desk!Becomes, Desk!Failed, Desk!Ids,
         Desk!Put, Desk!Target, Desk!WithEntry, Desk!Names, Desk!Paths, Desk!DealtWith, Desk!Batch,
         Desk!Other, Desk!LooksLikeResearch, Desk!IsDismissal, Desk!Dir, Desk!CandidateNames, Desk!Before,
         Desk!Cardinality, Desk!Range,
         Wp!W!Next, Wp!W!Items, Wp!W!Dismiss, Wp!W!Buttons, Wp!W!Click, Wp!W!ClearResolved, Wp!W!Open,
         Wp!W!Delete, Wp!W!Preview, Wp!W!ListPages, Wp!W!WritePage, Wp!W!ReadIndex, Wp!W!WriteIndex,
         Wp!W!Finish, Wp!W!StartSweep, Wp!W!ReadTitle, Wp!W!ApplyRules, Wp!W!Nothing, Wp!W!Judge,
         Wp!W!Appears, Wp!W!Vanishes, Wp!W!Gone, Wp!W!Event, Wp!W!Branch, Wp!W!Pending, Wp!W!Resolved,
         Wp!W!Ends, Wp!W!Change, Wp!W!Without, Wp!W!Duplicate, Wp!W!Becomes, Wp!W!Failed, Wp!W!Ids,
         Wp!W!Put, Wp!W!Target, Wp!W!WithEntry, Wp!W!Names, Wp!W!Paths, Wp!W!DealtWith, Wp!W!Batch,
         Wp!W!Other, Wp!W!LooksLikeResearch, Wp!W!IsDismissal, Wp!W!Dir, Wp!W!CandidateNames, Wp!W!Before,
         Wp!W!Cardinality, Wp!W!Range
<1> QED
  BY <1>1, <1>2

LEMMA SamePropertiesOfRetrieval ==
  /\ Wp!N!TypeOK /\ Wp!N!RowsAreOfOnePage => Index!TypeOK /\ Index!RowsAreOfOnePage
  /\ Wp!G!GraphsAreCurrent => Cache!GraphsAreCurrent
  /\ Wp!V!OneEdgePerPair => Insights!OneEdgePerPair
  /\ Wp!I!ImagesAreInPlace /\ Wp!I!ThePoolIsThorough => Cascade!ImagesAreInPlace /\ Cascade!ThePoolIsThorough
  /\ Wp!J!TextsAreCurrent => Import!TextsAreCurrent
  /\ Wp!S!SettingsSettle => Settings!SettingsSettle
  /\ Wp!U!ClosedStaysClosed => Updates!ClosedStaysClosed
  /\ Wp!J!FilesAreKept => Import!FilesAreKept
  /\ Wp!S!SaveKeepsDraft => Settings!SaveKeepsDraft
  /\ Wp!U!OffStaysOff => Updates!OffStaysOff
<1>1. Wp!N!TypeOK /\ Wp!N!RowsAreOfOnePage => Index!TypeOK /\ Index!RowsAreOfOnePage
  BY ZenonT(40) DEF Index!TypeOK, Index!RowsAreOfOnePage, Index!Versions, Index!Ids, Index!Writers, Index!Busy,
         Index!Whole,
         Wp!N!TypeOK, Wp!N!RowsAreOfOnePage, Wp!N!Versions, Wp!N!Ids, Wp!N!Writers, Wp!N!Busy, Wp!N!Whole
<1>2. Wp!G!GraphsAreCurrent => Cache!GraphsAreCurrent
  BY DEF Cache!GraphsAreCurrent,
         Wp!G!GraphsAreCurrent
<1>3. Wp!V!OneEdgePerPair => Insights!OneEdgePerPair
  BY DEF Insights!OneEdgePerPair, Insights!Isolated, Insights!Neighbours, Insights!Connections,
         Insights!linkCount, Insights!Surprising, Insights!InsightKey, Insights!Hub, Insights!Most,
         Insights!Cardinality, Insights!Max, Insights!Range,
         Wp!V!OneEdgePerPair, Wp!V!Isolated, Wp!V!Neighbours, Wp!V!Connections, Wp!V!linkCount,
         Wp!V!Surprising, Wp!V!InsightKey, Wp!V!Hub, Wp!V!Most, Wp!V!Cardinality, Wp!V!Max, Wp!V!Range
<1>4. Wp!I!ImagesAreInPlace /\ Wp!I!ThePoolIsThorough => Cascade!ImagesAreInPlace /\ Cascade!ThePoolIsThorough
  BY DEF Cascade!ImagesAreInPlace, Cascade!ThePoolIsThorough, Cascade!Nothing, Cascade!Holds,
         Cascade!Waiting, Cascade!Urls, Cascade!Cardinality, Cascade!Range,
         Wp!I!ImagesAreInPlace, Wp!I!ThePoolIsThorough, Wp!I!Nothing, Wp!I!Holds, Wp!I!Waiting, Wp!I!Urls,
         Wp!I!Cardinality, Wp!I!Range
<1>5. Wp!J!TextsAreCurrent => Import!TextsAreCurrent
  BY DEF Import!TextsAreCurrent, Import!Extracted, Import!TextOf,
         Wp!J!TextsAreCurrent, Wp!J!Extracted, Wp!J!TextOf
<1>6. Wp!S!SettingsSettle => Settings!SettingsSettle
  BY DEF Settings!SettingsSettle, Settings!NoPreset, Settings!Resolved, Settings!Unset,
         Wp!S!SettingsSettle, Wp!S!NoPreset, Wp!S!Resolved, Wp!S!Unset
<1>7. Wp!U!ClosedStaysClosed => Updates!ClosedStaysClosed
  BY DEF Updates!ClosedStaysClosed, Updates!Calm, Updates!shouldShowUpdateBanner,
         Updates!hasAvailableUpdate, Updates!Nothing,
         Wp!U!ClosedStaysClosed, Wp!U!Calm, Wp!U!shouldShowUpdateBanner, Wp!U!hasAvailableUpdate,
         Wp!U!Nothing
<1>8. Wp!J!FilesAreKept => Import!FilesAreKept
  BY ZenonT(40) DEF Import!FilesAreKept, Import!Confirmed,
         Wp!J!FilesAreKept, Wp!J!Confirmed
<1>9. Wp!S!SaveKeepsDraft => Settings!SaveKeepsDraft
  BY DEF Settings!SaveKeepsDraft, Settings!Drafted,
         Wp!S!SaveKeepsDraft, Wp!S!Drafted
<1>10. Wp!U!OffStaysOff => Updates!OffStaysOff
  BY DEF Updates!OffStaysOff, Updates!Calm,
         Wp!U!OffStaysOff, Wp!U!Calm
<1> QED
  BY <1>1, <1>2, <1>3, <1>4, <1>5, <1>6, <1>7, <1>8, <1>9, <1>10

LEMMA SamePropertiesOfKnowledge ==
  /\ Wp!D!OneItemPerKey /\ Wp!D!ListedPagesExist => Digests!OneItemPerKey /\ Digests!ListedPagesExist
  /\ Wp!W!CreatedPagesAreListed /\ Wp!W!DecidedOnce => Desk!CreatedPagesAreListed /\ Desk!DecidedOnce
  /\ Wp!D!WritesKeepDecisions => Digests!WritesKeepDecisions
  /\ Wp!W!SweepIsJustified /\ Wp!W!DecisionsStand => Desk!SweepIsJustified /\ Desk!DecisionsStand
<1>1. Wp!D!OneItemPerKey /\ Wp!D!ListedPagesExist => Digests!OneItemPerKey /\ Digests!ListedPagesExist
  BY DEF Digests!OneItemPerKey, Digests!ListedPagesExist, Digests!Items,
         Wp!D!OneItemPerKey, Wp!D!ListedPagesExist, Wp!D!Items
<1>2. Wp!W!CreatedPagesAreListed /\ Wp!W!DecidedOnce => Desk!CreatedPagesAreListed /\ Desk!DecidedOnce
  BY DEF Desk!CreatedPagesAreListed, Desk!DecidedOnce, Desk!Target, Desk!Items, Desk!Dir, Desk!Range,
         Wp!W!CreatedPagesAreListed, Wp!W!DecidedOnce, Wp!W!Target, Wp!W!Items, Wp!W!Dir, Wp!W!Range
<1>3. Wp!D!WritesKeepDecisions => Digests!WritesKeepDecisions
  BY DEF Digests!WritesKeepDecisions,
         Wp!D!WritesKeepDecisions
<1>4. Wp!W!SweepIsJustified /\ Wp!W!DecisionsStand => Desk!SweepIsJustified /\ Desk!DecisionsStand
  BY ZenonT(40) DEF Desk!SweepIsJustified, Desk!DecisionsStand, Desk!Items, Desk!CandidateNames, Desk!Nothing,
         Desk!Range,
         Wp!W!SweepIsJustified, Wp!W!DecisionsStand, Wp!W!Items, Wp!W!CandidateNames, Wp!W!Nothing,
         Wp!W!Range
<1> QED
  BY <1>1, <1>2, <1>3, <1>4

LEMMA StepsHaveView ==
  ASSUME [RetrievalNext]_retrievalVars
  PROVE  /\ view' = view
         /\ view = "VectorIndex" => [Wp!N!Next]_(Wp!N!vars)
         /\ view = "GraphCache" => [Wp!G!Next]_(Wp!G!vars)
         /\ view = "GraphInsights" => [Wp!V!Next]_(Wp!V!vars)
         /\ view = "ImageCascade" => [Wp!I!Next]_(Wp!I!vars)
         /\ view = "SourceImport" => [Wp!J!Next]_(Wp!J!vars)
         /\ view = "AppSettings" => [Wp!S!Next]_(Wp!S!vars)
         /\ view = "UpdateCheck" => [Wp!U!Next]_(Wp!U!vars)
<1>1. /\ view' = view
      /\ view = "VectorIndex" => Index!Next \/ UNCHANGED retrievalVars
      /\ view = "GraphCache" => Cache!Next \/ UNCHANGED retrievalVars
      /\ view = "GraphInsights" => Insights!Next \/ UNCHANGED retrievalVars
      /\ view = "ImageCascade" => Cascade!Next \/ UNCHANGED retrievalVars
      /\ view = "SourceImport" => Import!Next \/ UNCHANGED retrievalVars
      /\ view = "AppSettings" => Settings!Next \/ UNCHANGED retrievalVars
      /\ view = "UpdateCheck" => Updates!Next \/ UNCHANGED retrievalVars
  BY DEF RetrievalNext, retrievalVars
<1>2. UNCHANGED retrievalVars =>
        /\ UNCHANGED Wp!N!vars
        /\ UNCHANGED Wp!G!vars
        /\ UNCHANGED Wp!V!vars
        /\ UNCHANGED Wp!I!vars
        /\ UNCHANGED Wp!J!vars
        /\ UNCHANGED Wp!S!vars
        /\ UNCHANGED Wp!U!vars
  BY DEF retrievalVars, Wp!N!vars, Wp!G!vars, Wp!V!vars, Wp!I!vars, Wp!J!vars, Wp!S!vars, Wp!U!vars
<1> QED
  BY <1>1, <1>2, SameStepsOfRetrieval

LEMMA StepsHaveChore ==
  ASSUME [KnowledgeNext]_knowledgeVars
  PROVE  /\ chore' = chore
         /\ chore = "Crystallization" => [Wp!D!Next]_(Wp!D!vars)
         /\ chore = "ReviewDesk" => [Wp!W!Next]_(Wp!W!vars)
<1>1. /\ chore' = chore
      /\ chore = "Crystallization" => Digests!Next \/ UNCHANGED knowledgeVars
      /\ chore = "ReviewDesk" => Desk!Next \/ UNCHANGED knowledgeVars
  BY DEF KnowledgeNext, knowledgeVars
<1>2. UNCHANGED knowledgeVars =>
        /\ UNCHANGED Wp!D!vars
        /\ UNCHANGED Wp!W!vars
  BY DEF knowledgeVars, Wp!D!vars, Wp!W!vars
<1> QED
  BY <1>1, <1>2, SameStepsOfKnowledge

\* The constants of the runs are as the theorems ask.
LEMMA ConstantsFit ==
  /\ Wp!ChunksHaveSizes /\ Wp!DocumentsHaveSlots /\ Wp!ImportBounds
  /\ Wp!NoneIsNoPreset /\ Wp!ReleasesInOrder /\ Wp!HeadingsCover
<1>1. Wp!ChunksHaveSizes
  BY DEF Wp!ChunksHaveSizes
<1>2. Wp!DocumentsHaveSlots
  <2>1. Slots \in [DOMAIN Slots -> Seq({"logo", "dot", "chart"})]
    BY DEF Slots
  <2> QED
    BY <2>1 DEF Wp!DocumentsHaveSlots
<1>3. Wp!ImportBounds
  <2>1. Wp!Picked = {File("t", 1), File("t", 2), File("i", 1), File("o", 1), File("o", 2)}
    BY DEF Wp!Picked
  <2>2. {<<File("t", 1)>>, <<File("t", 2), File("i", 1)>>, <<File("o", 1)>>, <<File("o", 2)>>}
          \subseteq Seq(Wp!Picked)
    BY <2>1
  <2>3. \A file \in Wp!Picked : file.name \in {"t", "i", "o"}
    BY <2>1 DEF File
  <2> QED
    BY <2>2, <2>3 DEF Wp!ImportBounds
<1>4. Wp!NoneIsNoPreset
  BY DEF Wp!NoneIsNoPreset, Wp!S!NoPreset
<1>5. Wp!ReleasesInOrder
  BY DEF Wp!ReleasesInOrder, Wp!U!isNewer
<1>6. Wp!HeadingsCover
  BY DEF Wp!HeadingsCover, Wp!HeadingsOf, HeadingOf
<1> QED
  BY <1>1, <1>2, <1>3, <1>4, <1>5, <1>6

-----------------------------------------------------------------------------
IndexInv == view = "VectorIndex" => Wp!NInv
CacheInv == view = "GraphCache" => Wp!GInv
InsightsInv == view = "GraphInsights" => Wp!VInv
CascadeInv == view = "ImageCascade" => Wp!IInv
ImportInv == view = "SourceImport" => Wp!JInv
SettingsInv == view = "AppSettings" => Wp!SInv
UpdatesInv == view = "UpdateCheck" => Wp!UInv
DigestsInv == chore = "Crystallization" => Wp!DInv
DeskInv == chore = "ReviewDesk" => Wp!WInv

LEMMA IndexStays ==
  /\ RetrievalInit => IndexInv
  /\ IndexInv /\ [RetrievalNext]_retrievalVars => IndexInv'
BY ConstantsFit, SameStartOfRetrieval, Wp!InitNInv, StepsHaveView, Wp!NextNInv
DEF RetrievalInit, IndexInv

LEMMA CacheStays ==
  /\ RetrievalInit => CacheInv
  /\ CacheInv /\ [RetrievalNext]_retrievalVars => CacheInv'
BY SameStartOfRetrieval, Wp!InitGInv, StepsHaveView, Wp!NextGInv
DEF RetrievalInit, CacheInv

LEMMA InsightsStays ==
  /\ RetrievalInit => InsightsInv
  /\ InsightsInv /\ [RetrievalNext]_retrievalVars => InsightsInv'
BY SameStartOfRetrieval, Wp!InitVInv, StepsHaveView, Wp!NextVInv
DEF RetrievalInit, InsightsInv

LEMMA CascadeStays ==
  /\ RetrievalInit => CascadeInv
  /\ CascadeInv /\ [RetrievalNext]_retrievalVars => CascadeInv'
BY ConstantsFit, SameStartOfRetrieval, Wp!InitIInv, StepsHaveView, Wp!NextIInv
DEF RetrievalInit, CascadeInv

LEMMA ImportStays ==
  /\ RetrievalInit => ImportInv
  /\ ImportInv /\ [RetrievalNext]_retrievalVars => ImportInv'
BY ConstantsFit, SameStartOfRetrieval, Wp!InitJInv, StepsHaveView, Wp!NextJInv
DEF RetrievalInit, ImportInv

LEMMA SettingsStays ==
  /\ RetrievalInit => SettingsInv
  /\ SettingsInv /\ [RetrievalNext]_retrievalVars => SettingsInv'
BY ConstantsFit, SameStartOfRetrieval, Wp!InitSInv, StepsHaveView, Wp!NextSInv
DEF RetrievalInit, SettingsInv

LEMMA UpdatesStays ==
  /\ RetrievalInit => UpdatesInv
  /\ UpdatesInv /\ [RetrievalNext]_retrievalVars => UpdatesInv'
BY ConstantsFit, SameStartOfRetrieval, Wp!InitUInv, StepsHaveView, Wp!NextUInv
DEF RetrievalInit, UpdatesInv

LEMMA DigestsStays ==
  /\ KnowledgeInit => DigestsInv
  /\ DigestsInv /\ [KnowledgeNext]_knowledgeVars => DigestsInv'
BY SameStartOfKnowledge, Wp!InitDInv, StepsHaveChore, Wp!NextDInv
DEF KnowledgeInit, DigestsInv

LEMMA DeskStays ==
  /\ KnowledgeInit => DeskInv
  /\ DeskInv /\ [KnowledgeNext]_knowledgeVars => DeskInv'
BY ConstantsFit, SameStartOfKnowledge, Wp!InitWInv, StepsHaveChore, Wp!NextWInv
DEF KnowledgeInit, DeskInv

\* The rows of an id are those of one page at one time (embedding.ts), a graph
\* that is kept is as current as whoever asks needs it (graph-relevance.ts), and
\* the text kept of a source is the file's (commands/fs.rs), in the run of
\* retrieval.
THEOREM CopiesStayCurrent == RetrievalSpec => []CopiesAreCurrent
<1>1. IndexInv /\ CacheInv /\ ImportInv => CopiesAreCurrent
  BY SamePropertiesOfRetrieval, ConstantsFit, Wp!NInvSuffices, Wp!JInvSuffices
  DEF CopiesAreCurrent, IndexInv, CacheInv, ImportInv, Wp!GInv
<1> QED
  BY <1>1, IndexStays, CacheStays, ImportStays, PTL DEF RetrievalSpec

\* A pair of pages has one edge (wiki-graph.ts), and the images of a page are
\* those of its source, in their places, each captioned or counted as failed
\* (image-caption-pipeline.ts), in the run of retrieval.
THEOREM PicturesStaySound == RetrievalSpec => []PicturesAreSound
<1>1. InsightsInv /\ CascadeInv => PicturesAreSound
  BY SamePropertiesOfRetrieval, ConstantsFit, Wp!VInvSuffices, Wp!IInvSuffices
  DEF PicturesAreSound, InsightsInv, CascadeInv
<1> QED
  BY <1>1, InsightsStays, CascadeStays, PTL DEF RetrievalSpec

\* When nothing is on its way the store, the disk, the draft and the environment
\* agree (project-store.ts), and a banner that was closed stays closed
\* (update-banner.tsx), in the run of retrieval.
THEOREM SettingsComeToRest == RetrievalSpec => []SettingsSettle
<1>1. SettingsInv /\ UpdatesInv => SettingsSettle
  BY SamePropertiesOfRetrieval, Wp!SInvSuffices, Wp!UInvSuffices
  DEF SettingsSettle, SettingsInv, UpdatesInv
<1> QED
  BY <1>1, SettingsStays, UpdatesStays, PTL DEF RetrievalSpec

\* A save keeps what the user saw (settings-view.tsx), who switched the check for
\* updates off is not checked for (App.tsx), and an import writes over no file
\* (sources-view.tsx), in the run of retrieval.
THEOREM SavesStayWhole == RetrievalSpec => SaveIsWhole
<1>1. SettingsInv /\ UpdatesInv /\ ImportInv /\ [RetrievalNext]_retrievalVars
      => [/\ view = "AppSettings" => Settings!SaveKeepsDraft
          /\ view = "UpdateCheck" => Updates!OffStaysOff
          /\ view = "SourceImport" => Import!FilesAreKept]_retrievalVars
  BY StepsHaveView, SamePropertiesOfRetrieval, ConstantsFit, Wp!StepKeepsDraft, Wp!StepStaysOff,
     Wp!StepKeepsFiles
  DEF SettingsInv, UpdatesInv, ImportInv
<1> QED
  BY <1>1, SettingsStays, UpdatesStays, ImportStays, PTL DEF RetrievalSpec, SaveIsWhole

\* No digest is queued twice and none is listed without a page
\* (crystallization-digest.ts), and a review item leads to one page, which is
\* listed, or one research task (review-view.tsx), in the run of knowledge.
THEOREM DigestsAndReviewsStaySound == KnowledgeSpec => []DigestsAreSound
<1>1. DigestsInv /\ DeskInv => DigestsAreSound
  BY SamePropertiesOfKnowledge, Wp!DInvSuffices, Wp!WInvSuffices
  DEF DigestsAreSound, DigestsInv, DeskInv
<1> QED
  BY <1>1, DigestsStays, DeskStays, PTL DEF KnowledgeSpec

\* A write of the digest queue keeps what the user decided
\* (consolidation-queue.ts), and the sweep of the review items takes over no
\* decision (sweep-reviews.ts), in the run of knowledge.
THEOREM DecisionsStayMade == KnowledgeSpec => DecisionsAreKept
<1>1. DigestsInv /\ DeskInv /\ [KnowledgeNext]_knowledgeVars
      => [/\ chore = "Crystallization" => Digests!WritesKeepDecisions
          /\ chore = "ReviewDesk" => Desk!SweepIsJustified /\ Desk!DecisionsStand]_knowledgeVars
  BY StepsHaveChore, SamePropertiesOfKnowledge, ConstantsFit, Wp!NextDInv, Wp!NextWInv
  DEF DigestsInv, DeskInv
<1> QED
  BY <1>1, DigestsStays, DeskStays, PTL DEF KnowledgeSpec, DecisionsAreKept
=============================================================================

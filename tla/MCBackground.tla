---------------------------- MODULE MCBackground ----------------------------
(***************************************************************************)
(* What goes on beside the user's work - research, the editor's saves,     *)
(* clips, patrols, the indexing of pages, calls of models, chats, the      *)
(* ingest queue at an easy pace - in one run.  The parts share no state: a *)
(* behaviour is one of one part (its focus), and x1, x2, ... are the       *)
(* variables of that part, in its order; those it has no use for are 0.    *)
(***************************************************************************)
EXTENDS Integers

CONSTANTS
  None,
  Projects, maxConcurrent, MaxTasks, MaxResets, MaxMishaps,  \* of research
  Files, MaxEdits, MaxSelections, MaxForeign,                \* of the editor
  Polls, MaxClips, MaxSwitches, MaxRestarts, Usable          \* of the clips

VARIABLES focus, x1, x2, x3, x4, x5, x6, x7, x8, x9, x10, x11, x12, x13, x14, x15

backgroundVars == <<focus, x1, x2, x3, x4, x5, x6, x7, x8, x9, x10, x11, x12, x13, x14, x15>>

R == INSTANCE ResearchTasks WITH tasks <- x1, project <- x2, switches <- x3, run <- x4,
  wakes <- x5, saved <- x6, home <- x7, mishaps <- x8, unsettled <- x9, strays <- x10,
  MaxSwitches <- MaxResets
E == INSTANCE PageEditor WITH disk <- x1, selected <- x2, reads <- x3, fileContent <- x4,
  lastLoaded <- x5, mode <- x6, doc <- x7, timer <- x8, edits <- x9, selections <- x10,
  foreign <- x11, typed <- x12, slips <- x13, NoFile <- None
C == INSTANCE ClipInbox WITH open <- x1, current <- x2, files <- x3, pending <- x4,
  poll <- x5, enqueued <- x6, server <- x7, restarts <- x8, clips <- x9, switches <- x10
P == INSTANCE PatrolSchedule WITH now <- x1, stored <- x2, recorder <- x3, inFlight <- x4,
  patrols <- x5, open <- x6, loading <- x7, daemon <- x8, checks <- x9, reminder <- x10,
  dismissed <- x11, recorded <- x12, failures <- x13, openings <- x14, Recorders <- {1, 2},
  EventThreshold <- 2, ReminderCooldown <- 1, MinPatrolInterval <- 1, TimeInterval <- 1,
  AutoPatrol <- TRUE, MaxTime <- 1, MaxEvents <- 2, MaxFailures <- 1, MaxOpenings <- 2
K == INSTANCE TextChunker WITH lines <- x1, at <- x2, atoms <- x3, done <- x4, Target <- 2,
  MaxChars <- 3, MinChars <- 2, Overlap <- 1, MaxLines <- 5, MaxPipes <- 0, MaxWide <- 1
V == INSTANCE VectorIndex WITH files <- x1, model <- x2, dimension <- x3, rows <- x4,
  jobs <- x5, removing <- x6, writes <- x7, mishaps <- x8, reindexes <- x9, disturbed <- x10,
  complete <- x11, Pages <- {"p"}, Stem <- [p \in {"p"} |-> "i"], ChunkCount <- <<2, 1>>,
  TextSize <- <<1, 2>>, MaxRetries <- 1, MaxWrites <- 2, MaxMishaps <- 1, MaxReindexes <- 1
L == INSTANCE LlmStream WITH log <- x1, lost <- x2, call <- x3, half <- x4, mixed <- x5,
  Calls <- {1, 2}, Endpoint <- <<"lan", "public">>, Listed <- {2}, Reply <- <<<<<<"data",
  "w">>, <<"data">>>>, <<<<"thought", "v">>>>>>, Wide <- {"v", "w"}, Threshold <- 1,
  Projects <- {"p"}, MaxChunk <- 2
Q == INSTANCE IngestQueueProofs WITH queue <- x1, processing <- x2, currentProjectId <- x3,
  currentAbortController <- x4, processedSinceDrain <- x5, sweepAbortController <- x6,
  frame <- x7, inflight <- x8, disk <- x9, issued <- x10, budget <- x11, owner <- x12,
  acked <- x13, dropped <- x14, closed <- x15, NoProject <- None, NoFrame <- None,
  Projects <- {"a"}, Frames <- {1, 2}, MAX_RETRIES <- 2, MaxTasks <- 2, MaxClicks <- 1,
  MaxCancels <- 0, MaxSwitches <- 0, MaxCrashes <- 0, OrderedWrites <- TRUE,
  AtomicWrites <- TRUE, Timing <- "paced", EarlyReturns <- FALSE, MaxFailures <- 1
S == INSTANCE ChatSession WITH conversations <- x1, activeId <- x2, messages <- x3,
  isStreaming <- x4, messageCounter <- x5, sends <- x6, abortRef <- x7, redo <- x8, timer <- x9,
  disk <- x10, created <- x11, restarts <- x12, mishaps <- x13, left <- x14, reloaded <- x15,
  MaxConvs <- 2, MaxSends <- 3, MaxRestarts <- 1, MaxMishaps <- 1
B == INSTANCE ClaudeBridge WITH call <- x1, listening <- x2, finished <- x3,
  onAbort <- x4, aborted <- x5, caller <- x6, killing <- x7, child <- x8, children <- x9,
  task <- x10, printed <- x11, drained <- x12, events <- x13, MaxLines <- 2

Unused15 == x15 = 0
Unused14 == x14 = 0 /\ Unused15
Unused13 == x13 = 0 /\ Unused14
Unused12 == x12 = 0 /\ Unused13
Unused11 == x11 = 0 /\ Unused12
Unused10 == x10 = 0 /\ Unused11
Unused9 == x9 = 0 /\ Unused10
Unused8 == x8 = 0 /\ Unused9
Unused7 == x7 = 0 /\ Unused8
Unused6 == x6 = 0 /\ Unused7
Unused5 == x5 = 0 /\ Unused6

OnlyR == focus = "ResearchTasks" /\ UNCHANGED <<focus, x11, x12, x13, x14,
  x15>>
OnlyE == focus = "PageEditor" /\ UNCHANGED <<focus, x14, x15>>
OnlyC == focus = "ClipInbox" /\ UNCHANGED <<focus, x11, x12, x13, x14, x15>>
OnlyP == focus = "PatrolSchedule" /\ UNCHANGED <<focus, x15>>
OnlyK == focus = "TextChunker" /\ UNCHANGED <<focus, x5, x6, x7, x8, x9, x10,
  x11, x12, x13, x14, x15>>
OnlyV == focus = "VectorIndex" /\ UNCHANGED <<focus, x12, x13, x14, x15>>
OnlyL == focus = "LlmStream" /\ UNCHANGED <<focus, x6, x7, x8, x9, x10, x11,
  x12, x13, x14, x15>>
OnlyQ == focus = "IngestQueue" /\ UNCHANGED focus
OnlyS == focus = "ChatSession" /\ UNCHANGED focus
OnlyB == focus = "ClaudeBridge" /\ UNCHANGED <<focus, x14, x15>>

\* Which project is open first makes no difference.
First == CHOOSE p \in Projects : TRUE

BackgroundInit ==
  \/ focus = "ResearchTasks" /\ R!Init /\ x2 = First /\ Unused11
  \/ focus = "PageEditor" /\ E!Init /\ Unused14
  \/ focus = "ClipInbox" /\ C!Init /\ x1 = First /\ Unused11
  \/ focus = "PatrolSchedule" /\ P!Init /\ Unused15
  \/ focus = "TextChunker" /\ K!Init /\ Unused5
  \/ focus = "VectorIndex" /\ V!Init /\ Unused12
  \/ focus = "LlmStream" /\ L!Init /\ Unused6
  \/ focus = "IngestQueue" /\ Q!Init
  \/ focus = "ChatSession" /\ S!Init
  \/ focus = "ClaudeBridge" /\ B!Init /\ Unused14

BackgroundNext ==
  \/ OnlyR /\ R!Next
  \/ OnlyE /\ E!Next
  \/ OnlyC /\ C!Next
  \/ OnlyP /\ P!Next
  \/ OnlyK /\ K!Next
  \/ OnlyV /\ V!Next
  \/ OnlyL /\ L!Next
  \/ OnlyQ /\ Q!Next
  \/ OnlyS /\ S!Next
  \/ OnlyB /\ B!Next

\* The weak fairness of each part, one of its actions to a line; as the focus
\* never changes, an action of one part is never in another's way.
Fair1 ==
  \/ OnlyR /\ R!Step
  \/ OnlyC /\ C!Step
  \/ OnlyK /\ K!Next
  \/ OnlyV /\ V!Step
  \/ OnlyL /\ L!Stopping(1)
  \/ OnlyP /\ P!EndRecord(1)
  \/ OnlyQ /\ Q!AfterOp(1)
  \/ OnlyS /\ S!Step
  \/ OnlyB /\ B!Step
Fair2 ==
  \/ OnlyC /\ C!ServerRestarts
  \/ OnlyL /\ L!Stopping(2)
  \/ OnlyP /\ P!EndRecord(2)
  \/ OnlyQ /\ (Q!PauseEnd(1) \/ Q!RestoreRead(1) \/ Q!RestoreLoaded(1) \/ Q!RestoreSaved(1))
Fair3 ==
  \/ OnlyP /\ (\E i \in DOMAIN x5 : P!PatrolDone(i) \/ P!PatrolFails(i))
  \/ OnlyQ /\ Q!RunnerStep(1)
Fair4 ==
  \/ OnlyP /\ (\E i \in DOMAIN x7 : P!PolicyRead(i))
  \/ OnlyQ /\ Q!SweepEnds(1)
Fair5 ==
  \/ OnlyP /\ P!Check
  \/ OnlyQ /\ Q!AfterOp(2)
Fair6 ==
  \/ OnlyP /\ (\E s \in x9 : P!CheckDone(s))
  \/ OnlyQ /\ (Q!PauseEnd(2) \/ Q!RestoreRead(2) \/ Q!RestoreLoaded(2) \/ Q!RestoreSaved(2))
Fair7 == OnlyQ /\ Q!RunnerStep(2)
Fair8 == OnlyQ /\ Q!SweepEnds(2)
Fair9 == OnlyQ /\ (Q!Land(1) \/ Q!WriteFails(1))
Fair10 == OnlyQ /\ (Q!Land(2) \/ Q!WriteFails(2))
Fair11 == OnlyQ /\ (\E f \in {1, 2} : Q!RestoreStart(f, "a"))

BackgroundSpec ==
  /\ BackgroundInit /\ [][BackgroundNext]_backgroundVars
  /\ WF_backgroundVars(Fair1) /\ WF_backgroundVars(Fair2) /\ WF_backgroundVars(Fair3) /\ WF_backgroundVars(Fair4)
  /\ WF_backgroundVars(Fair5) /\ WF_backgroundVars(Fair6) /\ WF_backgroundVars(Fair7) /\ WF_backgroundVars(Fair8)
  /\ WF_backgroundVars(Fair9) /\ WF_backgroundVars(Fair10) /\ WF_backgroundVars(Fair11)

-----------------------------------------------------------------------------
\* Research runs within its slots, leaves no task behind, and its pages are
\* saved where they were asked for (deep-research.ts).
ResearchIsSound ==
  focus = "ResearchTasks" => R!TypeOK /\ R!SlotsAreBounded /\ R!NoStrandedResearch /\ R!PagesGoHome

\* What the user types into a page is on that page, and stays (preview-panel.tsx);
\* and when no answer is due the disk has the chats the store has (chat-store.ts,
\* auto-save.ts, persist.ts).
WorkIsSaved ==
  /\ focus = "PageEditor" => E!TypeOK /\ E!NoForeignText /\ E!ChangesSurvive
  /\ focus = "ChatSession" => S!SavedChatsMatch

\* A clip for the open project is enqueued once, there, or kept (clip-watcher.ts).
ClipsAreSound == focus = "ClipInbox" => C!TypeOK /\ C!ClipsOnceAndHome /\ C!ClipsAreKept

\* A project is patrolled by one automatic patrol at a time, whoever asks for it
\* (memory-ops.ts), and the daemon runs exactly while the project is open, however
\* often it was closed and opened meanwhile (project-local-maintenance.ts); and
\* ingests that nobody hurries run one at a time (ingest-queue.ts).
OneAtATime ==
  /\ focus = "PatrolSchedule" => P!OneAutoPatrol /\ P!DaemonFollowsProject
  /\ focus = "IngestQueue" => Q!Serial

\* Every unit of a text is in a chunk, tables and code in one piece and the rest
\* within the limit (text-chunker.ts); and however the bytes of a reply are cut,
\* its tokens arrive whole and in order (llm-client.ts).
TextsAreWhole ==
  /\ focus = "TextChunker" => K!NothingIsTorn /\ K!ChunksFit
  /\ focus = "LlmStream" => L!LinesArriveWhole

\* The caller of the command line model hears every line, one end, and then
\* nothing (claude_cli.rs, claude-cli-transport.ts); and no request leaves without
\* an event of the egress log that tells of it (egress-log.ts).
CallsAreTold ==
  /\ focus = "ClaudeBridge" => B!TypeOK /\ B!ToldOnce /\ B!NothingAfterTheEnd
  /\ focus = "LlmStream" => L!EgressIsTold

\* In a conversation every answer follows its question (chat-store.ts).
ChatIsSound == focus = "ChatSession" => S!TypeOK /\ S!AnswersFollowQuestions

\* Whatever waits gets its turn and whatever has begun ends: queued research, kept
\* clips, due patrols, the chunking and indexing of a page, a call of a model,
\* an accepted ingest, an answer in the chat.  (Of two of a kind i is one; what is
\* accepted stays so, and what does not wait infinitely often does not wait for
\* ever.)
WaitsNoMore(i) ==
  /\ focus = "ResearchTasks" => R!Queued(x1) = {}
  /\ focus = "ClipInbox" => x8 = 1 \/ (x4 = {} /\ x5[i].rest = {})
  /\ focus = "PatrolSchedule" => ~(x6 /\ x8 /\ P!ReminderDue(x2))
  /\ focus = "TextChunker" => x4
  /\ focus = "VectorIndex" => x5[<<"ingest", "reindex">>[i]].at = "idle"
  /\ focus = "LlmStream" => ~L!Running(i)
  /\ focus = "IngestQueue" /\ i \in x13 => i \in x14 \/ \E t \in x1 : t.id = i /\ t.status = "failed"
  /\ focus = "ChatSession" => ~x4 \/ \E n \in DOMAIN x6 : x6[n] = "thrown"
  /\ focus = "ClaudeBridge" => x3 # "no"
EveryoneGetsATurn == \A i \in {1, 2} : []<>WaitsNoMore(i)
=============================================================================

---------------------------- MODULE ClaudeBridge ----------------------------
(***************************************************************************)
(* One completion by the Claude Code CLI: the transport in the web view    *)
(* (src/lib/claude-cli-transport.ts), the commands that spawn and kill the *)
(* child process and the task that turns its output into events            *)
(* (src-tauri/src/commands/claude_cli.rs).                                 *)
(***************************************************************************)
EXTENDS Naturals, Sequences, FiniteSets, Functions

CONSTANTS MaxLines   \* bound: lines the child prints

VARIABLES
  call,       \* streamClaudeCodeCli: where it awaits, "returned" at the end
  listening,  \* listeners: subset of {"data", "done"}
  finished,   \* how finishWith was first used: "no", "onDone", "onError"
  onAbort,    \* the abort listener is attached
  aborted,    \* history: the caller aborted: "no", "early" (before both
              \* listeners were up), "late"
  caller,     \* history: what the caller was told, in order
  killing,    \* calls of claude_cli_kill on their way
  child,      \* the process: "none", "runs", "killed", "exited"
  children,   \* ClaudeCliState has the child
  task,       \* the draining task: "none", "draining", "reaping", "over"
  printed, drained,   \* lines printed, lines emitted as events
  events      \* events emitted and not yet delivered

front == <<call, listening, finished, onAbort, aborted, caller>>
back == <<child, children, task, printed, drained>>
vars == <<front, killing, back, events>>

Ends == {"onDone", "onError"}
Lines == {<<"line", i>> : i \in 1..MaxLines}

TypeOK ==
  /\ call \in {"policy", "listenData", "listenDone", "spawning", "failed", "spawned", "returned"}
  /\ listening \subseteq {"data", "done"} /\ finished \in {"no"} \cup Ends
  /\ onAbort \in BOOLEAN /\ aborted \in {"no", "early", "late"}
  /\ Range(caller) \subseteq Lines \cup {<<e, 0>> : e \in Ends}
  /\ killing \in 0..1 /\ children \in BOOLEAN
  /\ child \in {"none", "runs", "killed", "exited"}
  /\ task \in {"none", "draining", "reaping", "over"}
  /\ drained <= printed /\ printed \in 0..MaxLines
  /\ Range(events) \subseteq Lines \cup {<<e, 0>> : e \in Ends}

Init ==
  /\ call = "policy" /\ listening = {} /\ finished = "no"
  /\ onAbort = FALSE /\ aborted = "no" /\ caller = <<>>
  /\ killing = 0 /\ child = "none" /\ children = FALSE /\ task = "none"
  /\ printed = 0 /\ drained = 0 /\ events = <<>>

-----------------------------------------------------------------------------
\* Plausible bugs that the properties must catch stand next to the definition
\* they are variants of; no specification uses them.
FinishAgain(how) ==
  /\ finished' = how /\ caller' = Append(caller, <<how, 0>>)
  /\ listening' = {}

FinishDeaf(how) ==
  /\ IF finished # "no" THEN UNCHANGED <<finished, caller>>
     ELSE finished' = how /\ caller' = Append(caller, <<how, 0>>)
  /\ UNCHANGED listening

\* The first end counts; the listeners there are are taken down with it.
finishWith(how) ==
  IF finished # "no" THEN UNCHANGED <<finished, caller, listening>>
  ELSE finished' = how /\ caller' = Append(caller, <<how, 0>>) /\ listening' = {}

\* The network policy forbids the call, or it begins.
CheckPolicy ==
  /\ call = "policy"
  /\ \/ call' = "returned" /\ finishWith("onError") /\ UNCHANGED onAbort
     \/ call' = "listenData" /\ onAbort' = TRUE /\ UNCHANGED <<finished, caller, listening>>
  /\ UNCHANGED <<aborted, killing, back, events>>

\* A listener is up, whether or not the call has been aborted meanwhile.
Listen(what, next) ==
  /\ call' = next /\ listening' = listening \cup {what}
  /\ UNCHANGED <<finished, onAbort, aborted, caller, killing, back, events>>

ListenData == call = "listenData" /\ Listen("data", "listenDone")
ListenDone == call = "listenDone" /\ Listen("done", "spawning")

\* claude_cli_spawn: the child is started, has its input, is put into the map
\* and a task drains it; then the command answers.
SpawnChild ==
  /\ call = "spawning" /\ child = "none" /\ child' = "runs"
  /\ UNCHANGED <<front, killing, children, task, printed, drained, events>>

Register ==
  /\ call = "spawning" /\ child # "none" /\ ~children
  /\ children' = TRUE /\ task' = "draining" /\ call' = "spawned"
  /\ UNCHANGED <<listening, finished, onAbort, aborted, caller, killing, child, printed, drained, events>>

\* The program is missing, or does not take its input: it dies with its handle.
SpawnFails ==
  /\ call = "spawning"
  /\ child' = IF child = "none" THEN "none" ELSE "killed"
  /\ call' = "failed"
  /\ UNCHANGED <<listening, finished, onAbort, aborted, caller, killing, children, task, printed, drained, events>>

ReturnSilently ==
  /\ call \in {"spawned", "failed"}
  /\ call' = "returned" /\ onAbort' = FALSE
  /\ UNCHANGED <<listening, finished, caller, aborted, killing, back, events>>

\* The answer of the command reaches the web view, and the function is over
\* although the child has just begun; the abort listener goes with it.
Return ==
  /\ call \in {"spawned", "failed"}
  /\ IF call = "failed" THEN finishWith("onError") ELSE UNCHANGED <<finished, caller, listening>>
  /\ call' = "returned" /\ onAbort' = FALSE
  /\ UNCHANGED <<aborted, killing, back, events>>

\* The caller's signal.
Abort ==
  /\ aborted = "no" /\ call # "policy" /\ finished = "no"
  /\ aborted' = IF listening = {"data", "done"} THEN "late" ELSE "early"
  /\ IF onAbort THEN finishWith("onDone") /\ killing' = 1
     ELSE UNCHANGED <<finished, caller, listening, killing>>
  /\ UNCHANGED <<call, onAbort, back, events>>

\* claude_cli_kill: nothing is done about a child that is not in the map.
Kill ==
  /\ killing = 1 /\ killing' = 0
  /\ children' = FALSE
  /\ child' = IF children /\ child = "runs" THEN "killed" ELSE child
  /\ UNCHANGED <<front, task, printed, drained, events>>

PrintLine ==
  /\ child = "runs" /\ printed < MaxLines /\ printed' = printed + 1
  /\ UNCHANGED <<front, killing, child, children, task, drained, events>>
Exit ==
  /\ child = "runs" /\ child' = "exited"
  /\ UNCHANGED <<front, killing, children, task, printed, drained, events>>

EmitLine ==
  /\ task = "draining" /\ drained < printed
  /\ drained' = drained + 1 /\ events' = Append(events, <<"line", drained'>>)
  /\ UNCHANGED <<front, killing, child, children, task, printed>>

\* The output is closed: the child is taken out of the map.  A kill that came
\* first took it, and then the exit code is not known.
EndOfOutput ==
  /\ task = "draining" /\ drained = printed /\ child # "runs"
  /\ task' = "reaping"
  /\ UNCHANGED <<front, killing, child, children, printed, drained, events>>

\* The last event: an unknown exit code counts as success.
Reap ==
  /\ task = "reaping" /\ task' = "over" /\ children' = FALSE
  /\ \E how \in IF children THEN Ends ELSE {"onDone"} : events' = Append(events, <<how, 0>>)
  /\ UNCHANGED <<front, killing, child, printed, drained>>

\* Events arrive in order, at the listeners that are up.
Deliver ==
  /\ events # <<>> /\ events' = Tail(events)
  /\ LET e == Head(events) IN
       IF e[1] \in Ends
       THEN IF "done" \in listening THEN finishWith(e[1]) ELSE UNCHANGED <<finished, caller, listening>>
       ELSE /\ caller' = IF "data" \in listening THEN Append(caller, e) ELSE caller
            /\ UNCHANGED <<finished, listening>>
  /\ UNCHANGED <<call, onAbort, aborted, killing, back>>

Step ==
  \/ CheckPolicy \/ ListenData \/ ListenDone \/ SpawnChild \/ Register \/ Return
  \/ Kill \/ Exit \/ EmitLine \/ EndOfOutput \/ Reap \/ Deliver
Next == Step \/ SpawnFails \/ Abort \/ PrintLine
Spec == Init /\ [][Next]_vars /\ WF_vars(Step)

-----------------------------------------------------------------------------
\* The caller hears of one end.  Tokens come in the order they were printed and
\* none is missing up to the last; when the child came to a good end, uncut,
\* they are all there.
ToldOnce ==
  /\ \A i, j \in DOMAIN caller : caller[i][1] \in Ends /\ caller[j][1] \in Ends => i = j
  /\ aborted # "early" => \A i \in DOMAIN caller : caller[i] = <<"line", i>> \/ caller[i][1] \in Ends
  /\ finished = "onDone" /\ aborted = "no" => Len(caller) = printed + 1

\* After the end nothing comes any more, unless the call was aborted before its
\* listeners were up: they are put up all the same, and the child started.
NothingAfterTheEnd ==
  \A i \in DOMAIN caller : caller[i][1] \in Ends => i = Len(caller) \/ aborted = "early"

\* Every call ends, provided the child does.
EveryCallEnds == <>(finished # "no")

\* streamClaudeCodeCli "obeys the same StreamCallbacks contract": streamChat
\* resolves when the answer is complete, and its callers read it then.  Refuted:
\* it resolves as soon as the child has been started.
ReturnsWhenOver == call = "returned" => finished # "no"

\* An abort ends the call, and the child is killed "on AbortSignal in the
\* frontend".  Refuted: nobody listens any more once the child has been started.
AbortEnds == aborted # "no" => finished # "no"
=============================================================================

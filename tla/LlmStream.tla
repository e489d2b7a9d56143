------------------------------- MODULE LlmStream -------------------------------
(***************************************************************************)
(* Streaming a reply of a model (llm-client.ts): a request goes out if the   *)
(* network policy lets it (network-policy.ts, tauri-fetch.ts), an event of   *)
(* the egress log tells of it (egress-log.ts), and the bytes that come back  *)
(* are decoded, cut into lines and handed on as tokens.  Several calls run   *)
(* at a time; one decoder serves them all.                                   *)
(***************************************************************************)
EXTENDS Integers, FiniteSets, SequencesExt

CONSTANTS
  Calls,
  Endpoint,     \* per call the kind of host: "loopback", "lan", "public", "invalid"
  Listed,       \* calls whose host is on the allow list
  Reply,        \* per call the lines of its reply, sequences of characters
  Wide,         \* characters of two bytes
  Threshold,    \* REASONING_DIAGNOSTIC_THRESHOLD, in characters
  Projects,
  MaxChunk      \* bound: bytes of a chunk

VARIABLES
  log,          \* the events in the egress.jsonl of their projects
  lost,         \* history: events the disk refused
  call,
  half,         \* what DECODER holds back: the first byte of a wide character
  mixed         \* history: a byte held back met a chunk of another call

vars == <<log, lost, call, half, mixed>>

Nothing == [nothing |-> TRUE]
NoProject == "none"
Newline == "newline"
Broken == "broken"   \* U+FFFD

\* networkPolicyConfig, which may change at any time; its hosts are Listed.
Policies == [mode : {"local-only", "allowlist", "any"}, lan : BOOLEAN]
Idle == [at |-> "idle", aborted |-> FALSE, timer |-> "none", cancel |-> FALSE, sent |-> 0,
         line |-> <<>>, tokens |-> <<>>, thoughts |-> 0, event |-> Nothing, why |-> "none"]

Init ==
  /\ log = {} /\ lost = {}
  /\ call = [c \in Calls |-> Idle] /\ half = Nothing /\ mixed = FALSE

-----------------------------------------------------------------------------
\* classifyNetworkUrl and evaluateNetworkPolicy.
Allowed(c, policy) ==
  LET kind == Endpoint[c] IN
  /\ kind # "invalid"
  /\ \/ policy.mode = "any" \/ kind = "loopback"
     \/ kind = "lan" /\ policy.lan
     \/ policy.mode = "allowlist" /\ c \in Listed

Bytes(c) ==
  LET encode(ch) == IF ch \in Wide THEN <<[ch |-> ch, part |-> 1], [ch |-> ch, part |-> 2]>> ELSE <<[ch |-> ch, part |-> 0]>>
      text == FoldLeft(LAMBDA t, l : IF t = Nothing THEN [of |-> l] ELSE [of |-> t.of \o <<Newline>> \o l], Nothing, Reply[c])
  IN FlattenSeq([i \in DOMAIN text.of |-> encode(text.of[i])])

\* TextDecoder.decode with stream: TRUE; what is held back stays in DECODER.
Decode(bytes) ==
  LET step(d, b) ==
        LET spoilt == IF d.half = Nothing THEN <<>> ELSE <<Broken>> IN
        CASE b.part = 0 -> [half |-> Nothing, out |-> d.out \o spoilt \o <<b.ch>>]
          [] b.part = 1 -> [half |-> b, out |-> d.out \o spoilt]
          [] OTHER -> [half |-> Nothing, out |-> Append(d.out, IF d.half # Nothing /\ d.half.ch = b.ch THEN b.ch ELSE Broken)]
  IN FoldLeft(step, [half |-> half, out |-> <<>>], bytes)

\* parseLines: the lines that are complete, and the rest.  A mutant: the rest
\* of the chunk before is dropped.
ParsedAfresh(buffer, chars) == FoldLeft(LAMBDA a, ch : IF ch = Newline THEN [lines |-> Append(a.lines, a.rest), rest |-> <<>>] ELSE [a EXCEPT !.rest = Append(@, ch)], [lines |-> <<>>, rest |-> <<>>], chars)
Parsed(buffer, chars) ==
  LET step(a, ch) == IF ch = Newline THEN [lines |-> Append(a.lines, a.rest), rest |-> <<>>]
                     ELSE [a EXCEPT !.rest = Append(@, ch)]
  IN FoldLeft(step, [lines |-> <<>>, rest |-> buffer], chars)

\* parseStream and countReasoningCharsInLine: a line tells what it is by its
\* first character; others are not for the user.
TokensIn(lines) == SelectSeq(lines, LAMBDA l : l # <<>> /\ l[1] = "data")
ThoughtsIn(lines) == FoldLeft(LAMBDA n, l : n + IF l # <<>> /\ l[1] = "thought" THEN Len(l) - 1 ELSE 0, 0, lines)
Fed(r, lines, rest) ==
  [r EXCEPT !.tokens = @ \o TokensIn(lines), !.thoughts = @ + ThoughtsIn(lines), !.line = rest]

-----------------------------------------------------------------------------
Ended(r, at, why) == [Idle EXCEPT !.at = at, !.why = why, !.aborted = r.aborted, !.tokens = r.tokens, !.event = r.event]
Unless(r, why) == IF r.aborted THEN Ended(r, "done", "cancelled") ELSE Ended(r, "error", why)

\* appendEgressEvent: told before the decision is acted on, to the project that
\* is open.  The append is not waited for and may fail; nothing reads it in
\* between.
Event(c, policy, project) == [call |-> c, project |-> project, allowed |-> Allowed(c, policy)]
\* A mutant: only what the policy allows is told.
LoggedIfAllowed(e) == IF e.project = NoProject \/ ~e.allowed THEN {} ELSE {e}
Logged(e) == IF e.project = NoProject THEN {} ELSE {e}

\* streamChat up to the request.  A signal that was aborted before is not seen:
\* only the event is listened to.
Begin(c, policy, project, ok) ==
  /\ call[c].at = "idle"
  /\ LET e == Event(c, policy, project)
         r == [call[c] EXCEPT !.timer = "running", !.event = e] IN
     /\ call' = [call EXCEPT ![c] = IF e.allowed THEN [r EXCEPT !.at = "fetching"] ELSE Unless(r, "blocked")]
     /\ log' = IF ok THEN log \cup Logged(e) ELSE log
     /\ lost' = IF ok THEN lost ELSE lost \cup {e}
  /\ UNCHANGED <<half, mixed>>

\* The caller aborts: the timer is cleared, the request cancelled.  A mutant:
\* only the timer is cleared.
ClearedOnly(r) == [r EXCEPT !.aborted = TRUE, !.timer = "cleared"]
Aborted(r) == [r EXCEPT !.aborted = TRUE, !.timer = "cleared", !.cancel = TRUE]
Running(c) == call[c].at \in {"fetching", "reading"}
Abort(c) ==
  /\ call[c].at = "idle" \/ Running(c)
  /\ ~call[c].aborted
  /\ call' = [call EXCEPT ![c] = IF Running(c) THEN Aborted(@) ELSE [@ EXCEPT !.aborted = TRUE]]
  /\ UNCHANGED <<log, lost, half, mixed>>

\* The backstop of 30 minutes; nobody clears it when the call has ended, and
\* then it does nothing.
Fire(c) ==
  /\ Running(c) /\ call[c].timer = "running"
  /\ call' = [call EXCEPT ![c].timer = "fired", ![c].cancel = TRUE]
  /\ UNCHANGED <<log, lost, half, mixed>>

Goes(c, r) == call' = [call EXCEPT ![c] = r] /\ UNCHANGED <<log, lost, half, mixed>>

\* The request is cancelled, fails, is refused by the server, or answered.
FetchCancelled(c) == call[c].at = "fetching" /\ call[c].cancel /\ Goes(c, Unless(call[c], "timeout"))
FetchFails(c) == call[c].at = "fetching" /\ Goes(c, Unless(call[c], IF call[c].timer = "fired" THEN "timeout" ELSE "network"))
Refused(c) == call[c].at = "fetching" /\ Goes(c, Ended(call[c], "error", "http"))
Responds(c) == call[c].at = "fetching" /\ Goes(c, [call[c] EXCEPT !.at = "reading"])

\* reader.read gives a chunk.
Chunk(c, n) ==
  /\ call[c].at = "reading" /\ call[c].sent + n <= Len(Bytes(c))
  /\ LET d == Decode(SubSeq(Bytes(c), call[c].sent + 1, call[c].sent + n))
         p == Parsed(call[c].line, d.out) IN
     /\ call' = [call EXCEPT ![c] = Fed([call[c] EXCEPT !.sent = @ + n], p.lines, p.rest)]
     /\ half' = d.half
     /\ mixed' = (mixed \/ (half # Nothing /\ (call[c].sent = 0 \/ Bytes(c)[call[c].sent] # half)))
  /\ UNCHANGED <<log, lost>>

\* The stream ends: what is left is a line too, and thoughts without an answer
\* are an error.  A mutant: what is left is dropped.
WithoutRest(r) == [r EXCEPT !.line = <<>>]
WithRest(r) == Fed(r, <<r.line>>, <<>>)
Ends(c) ==
  /\ call[c].at = "reading" /\ call[c].sent = Len(Bytes(c))
  /\ LET r == WithRest(call[c]) IN
     Goes(c, IF r.tokens = <<>> /\ r.thoughts >= Threshold THEN Ended(r, "error", "thoughts") ELSE Ended(r, "done", "whole"))

\* Cancelled while reading, by the caller or by the timer; or the connection
\* is lost.
ReadCancelled(c) == call[c].at = "reading" /\ call[c].cancel /\ Goes(c, Ended(call[c], "done", "cancelled"))
ReadFails(c) == call[c].at = "reading" /\ Goes(c, Unless(call[c], "network"))

-----------------------------------------------------------------------------
Step(c) ==
  \/ \E policy \in Policies, project \in Projects \cup {NoProject}, ok \in BOOLEAN : Begin(c, policy, project, ok)
  \/ Abort(c) \/ Fire(c)
  \/ FetchCancelled(c) \/ FetchFails(c) \/ Refused(c) \/ Responds(c)
  \/ \E n \in 1..MaxChunk : Chunk(c, n)
  \/ Ends(c) \/ ReadCancelled(c) \/ ReadFails(c)

Next == \E c \in Calls : Step(c)

\* The timer fires, and a request that is cancelled is rejected.  The server
\* owes nothing.
Stopping(c) == Fire(c) \/ FetchCancelled(c) \/ ReadCancelled(c)
Spec == Init /\ [][Next]_vars /\ \A c \in Calls : WF_vars(Stopping(c))

-----------------------------------------------------------------------------
(***************************************************************************)
(* However the bytes are cut, and whatever ends the call, the caller gets    *)
(* the tokens of the reply, whole and in order, up to some point, and all of *)
(* them when the call is done; as long as no other call's half a character   *)
(* is in the way (llm-client.ts:32).                                         *)
(***************************************************************************)
LinesArriveWhole ==
  ~mixed => \A c \in Calls :
    /\ IsPrefix(call[c].tokens, TokensIn(Reply[c]))
    /\ call[c].why = "whole" => call[c].tokens = TokensIn(Reply[c]) /\ (call[c].tokens = <<>> => ThoughtsIn(Reply[c]) < Threshold)

(***************************************************************************)
(* Every request is told of in the log of the project it was made in, the    *)
(* ones that were blocked included, unless the disk refused; and a request   *)
(* that went out is one of which the log says it was allowed                 *)
(* (tauri-fetch.ts:127, egress-log.ts:90).                                   *)
(***************************************************************************)
EgressIsTold ==
  \A c \in Calls : call[c].event # Nothing =>
    /\ call[c].event.project # NoProject => call[c].event \in lost \cup log
    /\ Running(c) \/ call[c].tokens # <<>> \/ call[c].why = "whole" => call[c].event.allowed

(***************************************************************************)
(* A call ends, cancelled or not, whatever the server does                   *)
(* (llm-client.ts:66).                                                       *)
(***************************************************************************)
CallsEnd == \A c \in Calls : Running(c) ~> ~Running(c)

\* Refuted: a call that is done without being whole was cancelled by its
\* caller (llm-client.ts:66, "We track whether the backstop actually fired so
\* we can tell the two apart in the error").
OnlyCallersCancel == \A c \in Calls : call[c].at = "done" /\ call[c].why = "cancelled" => call[c].aborted

\* Refuted: the tokens of a call are those of its own reply, whatever other
\* calls run.
StreamsDoNotMix == \A c \in Calls : IsPrefix(call[c].tokens, TokensIn(Reply[c]))
=============================================================================

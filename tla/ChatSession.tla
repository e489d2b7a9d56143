----------------------------- MODULE ChatSession -----------------------------
(***************************************************************************)
(* Chat: the store of conversations and messages (stores/chat-store.ts),   *)
(* sending, stopping and regenerating (components/chat/chat-panel.tsx),    *)
(* the debounced save (lib/auto-save.ts, lib/persist.ts) and the load at a *)
(* restart (App.tsx).                                                      *)
(*                                                                         *)
(* The store knows nothing of the sends in flight: it has one isStreaming, *)
(* and an answer is filed under the conversation active when it ends.      *)
(***************************************************************************)
EXTENDS Naturals, Sequences, SequencesExt

CONSTANTS MaxConvs, MaxSends, MaxRestarts, MaxMishaps   \* bounds

VARIABLES
  conversations, activeId,   \* 0: none is active
  messages, isStreaming,     \* message: [id, role, of, conv], "of" its send
  messageCounter,
  sends,      \* handleSend calls: send -> "retrieving", "streaming", "over", "thrown"
  abortRef,   \* {} or the send whose controller is at hand
  redo,       \* {} or the send handleRegenerate is about to repeat
  timer,      \* {} or the state that will be saved
  disk,       \* conversations.json and chats/<id>.json: conv -> messages
  created, restarts, mishaps,
  left, reloaded   \* history: the user left a conversation, or sent, while an
                   \* answer was due in it; regenerated a loaded answer

store == <<conversations, activeId, messages, isStreaming, messageCounter>>
vars == <<store, sends, abortRef, redo, timer, disk, created, restarts, mishaps, left, reloaded>>

Convs == 1..MaxConvs
Sends == 1..MaxSends
Message == [id : 1..(2 * MaxSends), role : {"user", "assistant"}, of : Sends, conv : Convs]

TypeOK ==
  /\ conversations \subseteq Convs /\ activeId \in conversations \cup {0}
  /\ ToSet(messages) \subseteq Message /\ isStreaming \in BOOLEAN
  /\ DOMAIN sends \subseteq Sends
  /\ abortRef \subseteq DOMAIN sends /\ redo \subseteq Sends
  /\ disk.conversations \subseteq Convs
  /\ \A c \in Convs : ToSet(disk.chats[c]) \subseteq Message

Init ==
  /\ conversations = {} /\ activeId = 0 /\ messages = <<>> /\ isStreaming = FALSE
  /\ messageCounter = 0
  /\ sends = <<>> /\ abortRef = {} /\ redo = {} /\ timer = {}
  /\ disk = [conversations |-> {}, chats |-> [c \in Convs |-> <<>>]]
  /\ created = 0 /\ restarts = 0 /\ mishaps = MaxMishaps
  /\ left = FALSE /\ reloaded = FALSE

-----------------------------------------------------------------------------
InFlight == {n \in DOMAIN sends : sends[n] \in {"retrieving", "streaming"}}
Leaves == left' = (left \/ InFlight # {} \/ redo # {}) /\ UNCHANGED reloaded
Of(c, ms) == SelectSeq(ms, LAMBDA m : m.conv = c)
Roles(role, ms) == SelectSeq(ms, LAMBDA m : m.role = role)

\* Plausible bugs that the properties must catch stand next to the definition
\* they are variants of; no specification uses them.
SubscribedOnce(convs, ms) == IF timer # {} THEN timer ELSE {[convs |-> convs, ms |-> ms]}

\* setupAutoSave: a change of the store, unless it is streaming, puts the save
\* off; what will be saved is the state after that change.
Subscribed(convs, ms) == {[convs |-> convs, ms |-> ms]}

createConversation ==
  /\ created < MaxConvs
  /\ created' = created + 1
  /\ conversations' = conversations \cup {created'} /\ activeId' = created'
  /\ timer' = IF isStreaming THEN timer ELSE Subscribed(conversations', messages)
  /\ Leaves
  /\ UNCHANGED <<messages, isStreaming, messageCounter, sends, abortRef, redo, disk, restarts, mishaps>>

setActiveConversation(c) ==
  /\ c \in conversations \ {activeId}
  /\ activeId' = c
  /\ timer' = IF isStreaming THEN timer ELSE Subscribed(conversations, messages)
  /\ Leaves
  /\ UNCHANGED <<conversations, messages, isStreaming, messageCounter, sends, abortRef, redo, disk, created, restarts, mishaps>>

DeleteKeepsActive(c) ==
  /\ c \in conversations
  /\ conversations' = conversations \ {c}
  /\ messages' = SelectSeq(messages, LAMBDA m : m.conv # c)
  /\ timer' = IF isStreaming THEN timer ELSE Subscribed(conversations', messages')
  /\ disk' = [disk EXCEPT !.chats[c] = <<>>]
  /\ Leaves
  /\ UNCHANGED <<activeId, isStreaming, messageCounter, sends, abortRef, redo, created, restarts, mishaps>>

\* The newest of the others becomes active; the file is deleted at once.
deleteConversation(c) ==
  /\ c \in conversations
  /\ conversations' = conversations \ {c}
  /\ messages' = SelectSeq(messages, LAMBDA m : m.conv # c)
  /\ activeId' = IF activeId # c THEN activeId
                 ELSE IF conversations' = {} THEN 0 ELSE CHOOSE d \in conversations' : \A e \in conversations' : e <= d
  /\ timer' = IF isStreaming THEN timer ELSE Subscribed(conversations', messages')
  /\ disk' = [disk EXCEPT !.chats[c] = <<>>]
  /\ Leaves
  /\ UNCHANGED <<isStreaming, messageCounter, sends, abortRef, redo, created, restarts, mishaps>>

\* The first part of handleSend: conversation, question, isStreaming.
Begin(ms) ==
  /\ Len(sends) < MaxSends
  /\ activeId = 0 => created < MaxConvs
  /\ LET c == IF activeId = 0 THEN created + 1 ELSE activeId IN
       /\ created' = IF activeId = 0 THEN c ELSE created
       /\ conversations' = conversations \cup {c} /\ activeId' = c
       /\ messages' = Append(ms, [id |-> messageCounter + 1, role |-> "user", of |-> Len(sends) + 1, conv |-> c])
  /\ messageCounter' = messageCounter + 1 /\ isStreaming' = TRUE
  /\ sends' = Append(sends, "retrieving")
  /\ timer' = IF isStreaming THEN timer ELSE Subscribed(conversations', messages')

handleSend ==
  /\ ~isStreaming
  /\ Begin(messages)
  /\ Leaves
  /\ UNCHANGED <<abortRef, redo, disk, restarts, mishaps>>

\* The wiki is searched for pages.  An error here leaves handleSend, and
\* isStreaming as it is: nothing is saved any more, nothing can be sent.
Retrieve(n) ==
  /\ sends[n] = "retrieving"
  /\ \/ /\ sends' = [sends EXCEPT ![n] = "streaming"] /\ abortRef' = {n} /\ UNCHANGED mishaps
     \/ /\ mishaps > 0 /\ mishaps' = mishaps - 1
        /\ sends' = [sends EXCEPT ![n] = "thrown"] /\ UNCHANGED abortRef
  /\ UNCHANGED <<store, redo, timer, disk, created, restarts, left, reloaded>>

FinalizeUnderFirst(n) ==
  IF activeId = 0 THEN messages
  ELSE Append(messages, [id |-> messageCounter + 1, role |-> "assistant", of |-> n,
                         conv |-> CHOOSE c \in conversations : \A d \in conversations : c <= d])

finalizeStream(n) ==
  IF activeId = 0 THEN messages
  ELSE Append(messages, [id |-> messageCounter + 1, role |-> "assistant", of |-> n, conv |-> activeId])

AnswerIfActive(n) ==
  /\ sends[n] = "streaming" /\ sends' = [sends EXCEPT ![n] = "over"]
  /\ abortRef' = {}
  /\ messages' = finalizeStream(n) /\ isStreaming' = (activeId = 0 /\ isStreaming)
  /\ messageCounter' = IF activeId = 0 THEN messageCounter ELSE messageCounter + 1
  /\ timer' = IF isStreaming' THEN timer ELSE Subscribed(conversations, messages')
  /\ UNCHANGED <<conversations, activeId, redo, disk, created, restarts, mishaps, left, reloaded>>

\* onDone and onError: the stream ends by itself, by an error, or aborted.
Answer(n) ==
  /\ sends[n] = "streaming" /\ sends' = [sends EXCEPT ![n] = "over"]
  /\ abortRef' = {}
  /\ messages' = finalizeStream(n) /\ isStreaming' = FALSE
  /\ messageCounter' = IF activeId = 0 THEN messageCounter ELSE messageCounter + 1
  /\ timer' = Subscribed(conversations, messages')
  /\ UNCHANGED <<conversations, activeId, redo, disk, created, restarts, mishaps, left, reloaded>>

\* The stream is made to end, with what has come so far; before streamChat is
\* called there is no controller and this does nothing.
handleStop ==
  /\ abortRef # {} /\ abortRef' = {}
  /\ UNCHANGED <<store, sends, redo, timer, disk, created, restarts, mishaps, left, reloaded>>

\* Every message with the id of the last one of a role in the conversation.
WithoutLast(role, ms) ==
  LET mine == Roles(role, Of(activeId, ms)) IN
  IF mine = <<>> THEN ms ELSE SelectSeq(ms, LAMBDA m : m.id # Last(mine).id)

\* Offered on the last answer of the conversation.
handleRegenerate ==
  /\ ~isStreaming /\ redo = {}
  /\ reloaded' = (reloaded \/ restarts > 0) /\ left' = (left \/ InFlight # {})
  /\ Len(sends) < MaxSends
  /\ Roles("assistant", Of(activeId, messages)) # <<>> /\ Roles("user", Of(activeId, messages)) # <<>>
  /\ redo' = {Last(Roles("user", Of(activeId, messages))).of}
  /\ messages' = WithoutLast("assistant", messages)
  /\ timer' = Subscribed(conversations, messages')
  /\ UNCHANGED <<conversations, activeId, isStreaming, messageCounter, sends, abortRef, disk, created, restarts, mishaps>>

\* 50 ms later the question goes as well, and is sent again.
Resend(n) ==
  /\ n \in redo /\ redo' = {}
  /\ Begin(WithoutLast("user", messages))
  /\ UNCHANGED <<abortRef, disk, restarts, mishaps, left, reloaded>>

\* saveChatHistory: the list, and a file for every conversation with messages.
SaveFires ==
  /\ timer' = {}
  /\ \E t \in timer : disk' =
       [conversations |-> t.convs,
        chats |-> [c \in Convs |-> IF Of(c, t.ms) = <<>> THEN disk.chats[c] ELSE Of(c, t.ms)]]
  /\ UNCHANGED <<store, sends, abortRef, redo, created, restarts, mishaps, left, reloaded>>

\* The application is closed and opened: loadChatHistory, and the conversation
\* updated last is active.
Restart ==
  /\ restarts < MaxRestarts /\ restarts' = restarts + 1
  /\ conversations' = disk.conversations
  /\ messages' = FoldLeft(LAMBDA ms, c : IF c \in disk.conversations THEN ms \o disk.chats[c] ELSE ms,
                          <<>>, [c \in Convs |-> c])
  /\ IF conversations' = {} THEN activeId' = 0 ELSE activeId' \in conversations'
  /\ isStreaming' = FALSE /\ messageCounter' = 0
  /\ sends' = [n \in DOMAIN sends |-> "over"]
  /\ abortRef' = {} /\ redo' = {}
  /\ timer' = IF conversations' = {} THEN {} ELSE Subscribed(conversations', messages')
  /\ UNCHANGED <<disk, created, mishaps, left, reloaded>>

Step == SaveFires \/ \E n \in DOMAIN sends : Retrieve(n) \/ Answer(n)
Next ==
  \/ Step \/ createConversation \/ handleSend \/ handleStop \/ handleRegenerate \/ Restart
  \/ \E c \in conversations : setActiveConversation(c) \/ deleteConversation(c)
  \/ \E n \in redo : Resend(n)
Spec == Init /\ [][Next]_vars /\ WF_vars(Step)

-----------------------------------------------------------------------------
\* Within a conversation every answer comes directly after its own question.
\* Not so once the user has left while an answer was due, which is
\* then filed elsewhere, or regenerated a loaded answer, which removes other
\* messages that bear the same id.
AnswersFollowQuestions ==
  ~left /\ ~reloaded => \A c \in Convs : LET ms == Of(c, messages) IN
    \A i \in DOMAIN ms : ms[i].role = "assistant" =>
      i > 1 /\ ms[i - 1].role = "user" /\ ms[i - 1].of = ms[i].of

\* When nothing is streaming and no save is due, the disk has what the store
\* has: the next session shows the same conversations.
SavedChatsMatch ==
  timer = {} /\ ~isStreaming =>
    /\ disk.conversations = conversations
    /\ \A c \in conversations : Of(c, messages) # <<>> => disk.chats[c] = Of(c, messages)

\* The input is not locked for ever, unless reading or searching the wiki threw.
StreamingEnds == isStreaming ~> ~isStreaming \/ \E n \in DOMAIN sends : sends[n] = "thrown"
=============================================================================

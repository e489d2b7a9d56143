------------------------------ MODULE LlmRequests ------------------------------
(***************************************************************************)
(* The requests the application makes of language models: the address the    *)
(* user typed, cleaned when the field is left (endpoint-normalizer.ts), made *)
(* into the one a request goes to, and the body in the words of each wire    *)
(* (llm-providers.ts).  The address is the segments of its path.             *)
(***************************************************************************)
EXTENDS Integers, FiniteSets, SequencesExt

CONSTANTS
  Bases,       \* paths an endpoint may have, without a request's own
  Budgets,     \* thinking budgets and max_tokens that are typed or asked for
  MaxEdits     \* bound: changes between two requests

VARIABLES
  field,       \* the address in the field
  clean,       \* the field was left since it or the mode was changed
  mode,        \* apiMode
  sent,        \* the request made last, since the address was changed
  edits

vars == <<field, clean, mode, sent, edits>>

Nothing == [nothing |-> TRUE]
Models == {"plain", "openai", "deepseek", "qwen", "anthropic", "google"}
Modes == {"chat_completions", "anthropic_messages"}
Levels == {"auto", "off", "low", "medium", "high", "max", "custom"}
ChatPath == <<"chat", "completions">>
Tails == {<<>>, ChatPath, <<"embeddings">>, <<"v1", "messages">>, <<"v1">>}
\* What users paste: a base, perhaps with the path of a request; one version.
Occurs(word, url) == Cardinality({i \in DOMAIN url : url[i] = word})
Pasted == {url \in {b \o t : b \in Bases, t \in Tails} : Occurs("v1", url) <= 1}
Reasonings == [mode : Levels \ {"custom"}, budget : {0}] \cup [mode : {"custom"}, budget : Budgets]

Init ==
  /\ field \in Bases /\ clean = TRUE /\ mode = "chat_completions"
  /\ sent = Nothing /\ edits = 0

-----------------------------------------------------------------------------
Without(s, tail) == IF IsSuffix(tail, s) THEN SubSeq(s, 1, Len(s) - Len(tail)) ELSE s
Versioned(s) == s # <<>> /\ Last(s) = "v1"

\* normalizeEndpoint.  A mutant: the path of messages is left in either mode.
normalizeTails(url, m) ==
  IF IsSuffix(ChatPath, url) THEN Without(url, ChatPath) ELSE Without(url, <<"embeddings">>)
normalizeEndpoint(url, m) ==
  IF IsSuffix(ChatPath, url) THEN Without(url, ChatPath)
  ELSE IF IsSuffix(<<"embeddings">>, url) THEN Without(url, <<"embeddings">>)
  ELSE IF m = "chat_completions" THEN Without(url, <<"messages">>) ELSE url

buildAnthropicUrl(base) ==
  IF IsSuffix(<<"v1", "messages">>, base) THEN base
  ELSE IF Versioned(base) THEN Append(base, "messages") ELSE base \o <<"v1", "messages">>

\* getProviderConfig: OpenAI, Anthropic and Google have an address and a wire
\* of their own; the others go where the user says, and how the mode says.
Fixed == {"openai", "anthropic", "google"}
RequestUrl(model) ==
  CASE model = "openai" -> <<"v1">> \o ChatPath
    [] model = "anthropic" -> buildAnthropicUrl(<<>>)
    [] model = "google" -> <<"v1beta", "models", "stream">>
    [] mode = "anthropic_messages" -> buildAnthropicUrl(field)
    [] OTHER -> Without(field, ChatPath) \o ChatPath
Wire(model) ==
  CASE model \in {"anthropic", "google"} -> model
    [] model # "openai" /\ mode = "anthropic_messages" -> "anthropic"
    [] OTHER -> "openai"

-----------------------------------------------------------------------------
\* RequestOverrides: knobs for sampling, a limit, another way to reason; Off
\* is what the structured tasks ask for.
Overrides == [knobs : {{}, {"temperature", "top_p", "top_k"}}, limit : Budgets \cup {0}, reasoning : Reasonings \cup {Nothing}]
effectiveReasoning(o, configured) == IF o.reasoning = Nothing THEN configured ELSE o.reasoning
BudgetOf(r) ==
  CASE r.mode = "custom" -> r.budget
    [] r.mode = "low" -> 1024
    [] r.mode = "medium" -> 4096
    [] OTHER -> 8192
Largest(a, b) == IF a >= b THEN a ELSE b

\* buildAnthropicBodyWithReasoning: max_tokens makes room for thinking, and
\* then there is no sampling.  A mutant: a limit as large as the budget is
\* left.
LeftIfEqual(limit, budget) == IF limit < budget THEN budget + 1 ELSE limit
Room(limit, budget) == IF limit <= budget THEN budget + 1 ELSE limit
AnthropicBody(o, r) ==
  LET limit == IF o.limit = 0 THEN 4096 ELSE o.limit
      budget == Largest(1024, BudgetOf(r)) IN
  IF r.mode \in {"auto", "off"} THEN [keys |-> o.knobs, limit |-> limit, thinking |-> "none", budget |-> 0, effort |-> "none"]
  ELSE [keys |-> {}, limit |-> Room(limit, budget), thinking |-> "enabled", budget |-> budget, effort |-> "none"]

\* buildOpenAiCompatibleBody: DeepSeek, Qwen 3 and OpenAI each have their own
\* way to say how much to think.
OpenAiBody(o, r, model) ==
  LET thinking == CASE model = "deepseek" /\ r.mode = "off" -> "disabled"
                    [] model = "deepseek" /\ r.mode # "auto" -> "enabled"
                    [] model = "qwen" /\ r.mode = "off" -> "disabled"
                    [] OTHER -> "none"
      effort == IF \/ model = "deepseek" /\ r.mode \in {"high", "max"}
                   \/ model = "openai" /\ r.mode \in {"low", "medium", "high"} THEN r.mode ELSE "none"
  IN [keys |-> o.knobs, limit |-> o.limit, thinking |-> thinking, budget |-> 0, effort |-> effort]

\* buildGoogleBody: nothing but generationConfig has knobs.
GoogleBody(o, r) ==
  [keys |-> {"generationConfig"}, limit |-> 0, effort |-> "none",
   thinking |-> IF r.mode = "auto" THEN "none" ELSE IF r.mode = "off" THEN "disabled" ELSE "enabled",
   budget |-> IF r.mode \in {"auto", "off"} THEN 0 ELSE BudgetOf(r)]

Body(o, r, model) ==
  CASE Wire(model) = "google" -> GoogleBody(o, r)
    [] Wire(model) = "anthropic" -> AnthropicBody(o, r)
    [] OTHER -> OpenAiBody(o, r, model)

-----------------------------------------------------------------------------
Edited == edits < MaxEdits /\ edits' = edits + 1 /\ sent' = Nothing

\* The address is typed, or the mode chosen; leaving the field cleans it.
Type(url) == Edited /\ url # field /\ field' = url /\ clean' = FALSE /\ UNCHANGED mode
Flip == Edited /\ mode' \in Modes \ {mode} /\ clean' = FALSE /\ UNCHANGED field
Blur ==
  /\ ~clean /\ clean' = TRUE
  /\ field' = normalizeEndpoint(field, mode)
  /\ sent' = Nothing /\ UNCHANGED <<mode, edits>>

\* A request with the configuration and the overrides there are.
Send(o, configured, model) ==
  LET r == effectiveReasoning(o, configured) IN
  /\ sent = Nothing
  /\ sent' = [url |-> RequestUrl(model), wire |-> Wire(model), typed |-> model \notin Fixed,
              body |-> Body(o, r, model), off |-> r.mode = "off"]
  /\ UNCHANGED <<field, clean, mode, edits>>

Next ==
  \/ \E url \in Pasted : Type(url)
  \/ Flip \/ Blur
  \/ \E o \in Overrides, configured \in Reasonings, model \in Models : Send(o, configured, model)

Spec == Init /\ [][Next]_vars

-----------------------------------------------------------------------------
(***************************************************************************)
(* A server takes what is sent: the path of a request stands in its address  *)
(* once, at the end, whatever was pasted and in whichever mode, once the     *)
(* field was left; thinking leaves room for an answer and comes without      *)
(* sampling on Anthropic's wire; Gemini has no knob at the top; and who asks *)
(* for no thinking gets none (llm-providers.ts:428, :371, endpoint-normalizer.ts:33). *)
(***************************************************************************)
RequestsAreSound ==
  sent # Nothing =>
    LET path == IF mode = "anthropic_messages" THEN <<"v1", "messages">> ELSE ChatPath IN
    /\ clean /\ sent.typed =>
         /\ IsSuffix(path, sent.url)
         /\ \A word \in {"completions", "messages", "embeddings", "v1"} : Occurs(word, sent.url) <= 1
         /\ ("messages" \in Range(sent.url)) = (sent.wire = "anthropic")
    /\ sent.wire = "anthropic" /\ sent.body.thinking = "enabled" =>
         sent.body.budget >= 1024 /\ sent.body.limit > sent.body.budget /\ sent.body.keys = {}
    /\ sent.wire = "google" => sent.body.keys \cap {"temperature", "top_p", "top_k"} = {}
    /\ sent.off => sent.body.thinking # "enabled" /\ sent.body.effort = "none"
=============================================================================

-------------------------------- MODULE Requests --------------------------------
(***************************************************************************)
(* What the handlers of src/src/server.rs read in a request, beside what its *)
(* routing needs, and pass to dispatch_*: whether it may be answered from the *)
(* semantic cache and under which scope, its sticky key, whether it streams.  *)
(*                                                                         *)
(* A chat request has turns, a Responses request an input.  A content is a    *)
(* prompt, "blank" for white space or "parts" for an array or an object.      *)
(***************************************************************************)
EXTENDS Configuration, FiniteSetsExt

Generating == {"chat", "responses"}

UserTurns(q) == {i \in DOMAIN q.turns : q.turns[i].role = "user"}
Current(q) == Max(UserTurns(q))
TextOf(content) == IF content \in {"blank", "parts"} THEN Absent ELSE content

\* OpenAiChatRequest::semantic_cache_prompt, OpenAiResponsesRequest::semantic_cache_prompt
ChatPrompt(q) == IF UserTurns(q) = {} THEN Absent ELSE TextOf(q.turns[Current(q)].content)
ResponsesPrompt(q) == TextOf(q.input)
Prompt(q) == IF q.endpoint = "chat" THEN ChatPrompt(q) ELSE ResponsesPrompt(q)

\* The top-level keys of the request beside model, messages or input, and stream.
Options(q) ==
  q.options \cup (IF "user" \in DOMAIN q.ids THEN {"user"} ELSE {})
            \cup (IF DOMAIN q.ids \ {"user"} # {} THEN {"metadata"} ELSE {})

\* Mutant: the scope is what the request says beside its messages.
ChatScope_NoHistory(q) == [turns |-> <<>>, options |-> Options(q)]

\* semantic_cache_identity_for_chat: everything but the model, stream and the
\* text of the current prompt.
ChatScope(q) ==
  [turns |-> [q.turns EXCEPT ![Current(q)].content = "query"], options |-> Options(q)]

\* semantic_cache_identity_for_responses
ResponsesScope(q) == [turns |-> <<>>, options |-> Options(q)]
Scope(q) == IF q.endpoint = "chat" THEN ChatScope(q) ELSE ResponsesScope(q)

\* semantic_cache_safe_for_request
SafeToCache(c, q) == c.auth.tokens = {} /\ Options(q) = {}

\* semantic_cache_plan_for_route plans a lookup; q.label is its cacheability.
Cacheable(c, q) ==
  /\ c.cache.enabled
  /\ ~q.stream
  /\ SafeToCache(c, q)
  /\ Prompt(q) # Absent
  /\ q.label \in {"medium", "high"}

\* sticky_key_from_extra: the first identity that is there and not white space.
\* The key does not say which of them it was.
Affinity == <<"user", "session_id", "conversation_id", "thread_id">>
StickyKey(q) ==
  LET given == {i \in DOMAIN Affinity : Affinity[i] \in DOMAIN q.ids /\ q.ids[Affinity[i]] # "blank"}
  IN IF given = {} THEN Absent ELSE q.ids[Affinity[Min(given)]]

\* What each of the dispatch functions is given of a request, or never looks at;
\* what they all do with it is module Dispatch.
CacheKind(c, q) ==
  IF ~Cacheable(c, q) THEN "none"
  ELSE IF Trimmed[c.cache.embedding_model] = LocalHash THEN "local" ELSE "provider"
Plain == [cache |-> "none", key |-> Absent, streaming |-> FALSE]
Explicitly(q) == [Plain EXCEPT !.streaming = q.stream]
Automatically(c, q) == [cache |-> CacheKind(c, q), key |-> StickyKey(q), streaming |-> q.stream]

DispatchChat(c, q) == IF q.automatic THEN Automatically(c, q) ELSE Explicitly(q)
DispatchResponses(c, q) == IF q.automatic THEN Automatically(c, q) ELSE Explicitly(q)
DispatchEmbeddings == Plain
DispatchImages == Plain
DispatchSpeech == Plain
DispatchAudioMultipart == Plain
DispatchOf(c, q) ==
  CASE q.endpoint = "chat" -> DispatchChat(c, q)
    [] q.endpoint = "responses" -> DispatchResponses(c, q)
    [] q.endpoint = "embeddings" -> DispatchEmbeddings
    [] q.endpoint = "images" -> DispatchImages
    [] q.endpoint = "speech" -> DispatchSpeech
    [] OTHER -> DispatchAudioMultipart
=============================================================================

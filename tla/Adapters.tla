------------------------------- MODULE Adapters -------------------------------
(***************************************************************************)
(* How the adapters of src/src/provider.rs turn a chat request into the body *)
(* of an upstream request, and a native answer into an OpenAI one.  No state. *)
(*                                                                         *)
(* The OpenAI-compatible adapter, under its six names, forwards a request as  *)
(* it is; the native adapters of Ollama and llama.cpp rewrite it, and refuse  *)
(* what they cannot express.  Texts are left out: a message is a plain string *)
(* or not, a setting is a value or Absent, Bad stands for one of a wrong type. *)
(***************************************************************************)
EXTENDS Naturals

CONSTANTS Absent, Bad

Kinds == {"openai", "ollama_native", "llama_cpp_native"}
Native == {"ollama_native", "llama_cpp_native"}

Copied == {"temperature", "top_p", "seed", "stop"}
Limits == {"max_tokens", "max_completion_tokens"}
Known == Copied \cup Limits \cup {"response_format", "stream"}

\* ProviderKind::chat_adapter_contract; options is a field of its own below.
Contract(kind) ==
  [strict |-> kind \in Native,
   streaming |-> kind \notin Native,
   options |-> kind = "ollama_native",
   fields |-> Known \ (IF kind = "llama_cpp_native" THEN {"response_format"} ELSE {})]

\* A chat request: the fields beside model and messages, with the native options
\* of Ollama, and whether each message is a string without keys of its own.
Given(q) == {f \in DOMAIN q.extra : q.extra[f] # Absent}
Streams(q) == q.extra["stream"] = "true"

\* ollama_format, of a response_format [type, nested, beside, rest]: type Bad when it
\* is no string, nested the schema under json_schema, beside the schema next to the
\* type, each Absent or, when no object, Bad; rest all else: name, strict, description.
Schema(f) == IF f.nested # Absent THEN f.nested ELSE f.beside
FormatFails(f) ==
  \/ f.type \notin {"json_object", "json_schema"}
  \/ f.type = "json_schema" /\ Schema(f) \in {Absent, Bad}
\* Mutant: only the schema beside the type is looked for.
OllamaFormat_Beside(f) == IF f.type = "json_object" THEN "json" ELSE f.beside
OllamaFormat(f) == IF f.type = "json_object" THEN "json" ELSE Schema(f)

\* chat_adapter_exclusions finds one.
Excluded(kind, q) ==
  LET c == Contract(kind) IN
  /\ c.strict
  /\ \/ Streams(q) /\ ~c.streaming
     \/ Limits \subseteq Given(q)
     \/ q.extra["stream"] = Bad
     \/ ~q.plain
     \/ ~(Given(q) \subseteq c.fields)
     \/ q.options # Absent /\ ~c.options
     \/ q.options = Bad
     \/ c.options /\ "response_format" \in Given(q) /\ FormatFails(q.extra["response_format"])

\* Mutant: only max_tokens is looked for.
OutputLimit_MaxTokens(q) == q.extra["max_tokens"]

\* What becomes num_predict or n_predict.
OutputLimit(q) ==
  IF q.extra["max_tokens"] # Absent THEN q.extra["max_tokens"]
                                    ELSE q.extra["max_completion_tokens"]

StreamField(q) == IF q.extra["stream"] = Absent THEN "false" ELSE q.extra["stream"]

\* The top-level settings that are written over a native option, and their values.
OverOption(q, o) ==
  CASE o \in Copied -> q.extra[o]
    [] o = "num_predict" -> OutputLimit(q)
    [] OTHER -> Absent

OptionNames == Copied \cup {"num_predict", "num_ctx"}
NoOptions == [o \in OptionNames |-> Absent]

\* ollama_chat_body: native options first, then what the request says itself.
OllamaBody(q) ==
  LET given == IF q.options = Absent THEN NoOptions ELSE q.options IN
  [options |-> [o \in OptionNames |->
                  IF OverOption(q, o) # Absent THEN OverOption(q, o) ELSE given[o]],
   format |-> IF q.extra["response_format"] = Absent THEN Absent
              ELSE OllamaFormat(q.extra["response_format"]),
   stream |-> StreamField(q)]

\* llama_cpp_completion_body: the messages become one prompt.
LlamaBody(q) ==
  [n_predict |-> OutputLimit(q),
   copied |-> [f \in Copied |-> q.extra[f]],
   stream |-> StreamField(q)]

\* ProviderConfig::supports_endpoint: what a provider is configured for, by the
\* paths that it has.
Endpoints == {"chat", "responses", "embeddings", "images", "speech",
              "audio_transcriptions", "audio_translations"}
ProviderSupports(p, e) ==
  e \in Endpoints /\ p.paths[e] # Absent /\ (p.kind \in Native => e = "chat")

\* ModelCapabilities::supports_endpoint
ModelSupports(m, e) == IF m.endpoints = Absent THEN e = "chat" ELSE e \in m.endpoints

\* What the adapter of a provider can send, whoever asks it to: the native ones
\* refuse all but chat, the others ask for the path of the endpoint.
NativeSends(p, e) == e = "chat"
CompatibleSends(p, e) == e = "chat" \/ p.paths[e] # Absent
Sends(p, e) == IF p.kind \in Native THEN NativeSends(p, e) ELSE CompatibleSends(p, e)

\* ProviderKind::adapter_supports_capability
AdapterSupports(kind, capability) ==
  kind \in Native => capability \in {"code", "web_apps", "long_context"}
                     \/ (capability = "json" /\ kind = "ollama_native")

\* OpenAiChatRequest::into_upstream replaces the model and nothing else.
OpenAiBody(q) == q

Body(kind, q) ==
  CASE kind = "ollama_native" -> OllamaBody(q)
    [] kind = "llama_cpp_native" -> LlamaBody(q)
    [] OTHER -> OpenAiBody(q)

\* The first count that a native answer has, or 0.
Count(first, second) ==
  IF first # Absent THEN first ELSE IF second # Absent THEN second ELSE 0

\* ollama_chat_response, llama_cpp_completion_response: the usage of the answer
\* they make; evaluated and predicted are the native names, prompt_tokens and
\* completion_tokens those llama.cpp may use instead.
ConvertedUsage(kind, a) ==
  IF kind = "ollama_native"
  THEN Count(a.evaluated, Absent) + Count(a.predicted, Absent)
  ELSE Count(a.evaluated, a.prompt_tokens) + Count(a.predicted, a.completion_tokens)
=============================================================================

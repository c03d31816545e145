------------------------------ MODULE MCExchange ------------------------------
(* Requests with every field that an adapter treats in its own way, buffered    *)
(* answers that count in each of the native and OpenAI forms, and streams with  *)
(* carriage returns, several data lines for an event, a usage that is repeated,  *)
(* null or in the last, unterminated event, and a character of two bytes.       *)
EXTENDS Exchange, TLC

MCPlain == [extra |-> [f \in Known \cup {"tools"} |-> Absent], options |-> Absent, plain |-> TRUE]
MCStream == [MCPlain EXCEPT !.extra["stream"] = "true"]
MCClient ==
  {MCPlain, MCStream, [MCPlain EXCEPT !.plain = FALSE],
   [MCPlain EXCEPT !.extra["tools"] = 1], [MCPlain EXCEPT !.extra["stream"] = Bad],
   [MCPlain EXCEPT !.extra["stream"] = "false", !.extra["temperature"] = 0, !.extra["seed"] = 3],
   [MCPlain EXCEPT !.extra["max_tokens"] = 5], [MCPlain EXCEPT !.extra["max_completion_tokens"] = 6],
   [MCPlain EXCEPT !.extra["max_tokens"] = 5, !.extra["max_completion_tokens"] = 6],
   [MCPlain EXCEPT !.options = Bad],
   [MCPlain EXCEPT !.options = [NoOptions EXCEPT !["num_ctx"] = 8, !["temperature"] = 1]],
   [MCPlain EXCEPT !.extra["temperature"] = 0, !.extra["max_tokens"] = 5,
                   !.options = [NoOptions EXCEPT !["temperature"] = 1, !["seed"] = 3, !["num_predict"] = 9]]}
\* Formats: both types, with a schema in either place, or both, that is an object or not.
MCFormat == [type |-> "json_schema", nested |-> Absent, beside |-> Absent, rest |-> Absent]
MCFormats ==
  {[MCFormat EXCEPT !.type = "text"], [MCFormat EXCEPT !.type = Bad],
   [MCFormat EXCEPT !.type = "json_object"], [MCFormat EXCEPT !.type = "json_object", !.beside = "s2"],
   MCFormat, [MCFormat EXCEPT !.nested = "s1", !.rest = "strict"], [MCFormat EXCEPT !.beside = "s2"],
   [MCFormat EXCEPT !.nested = "s1", !.beside = "s2"], [MCFormat EXCEPT !.nested = Bad, !.beside = "s2"]}
MCFormatted == {[MCPlain EXCEPT !.extra["response_format"] = f] : f \in MCFormats}
MCClassify == {[MCPlain EXCEPT !.extra["temperature"] = 0, !.extra["max_tokens"] = 180]}
MCRequestsOf ==
  "client" :> MCClient \cup MCFormatted @@ "classifier" :> MCClassify @@ "shadow" :> {MCPlain} @@ "judge" :> {MCPlain}

MCNoCounts ==
  [evaluated |-> Absent, predicted |-> Absent, prompt_tokens |-> Absent,
   completion_tokens |-> Absent, total |-> Absent]
MCAnswers ==
  {Bad, MCNoCounts, [MCNoCounts EXCEPT !.evaluated = 2, !.predicted = 3],
   [MCNoCounts EXCEPT !.prompt_tokens = 2, !.completion_tokens = 3],
   [MCNoCounts EXCEPT !.prompt_tokens = 2, !.total = 7]}

MCUsageAtom == "null" :> 0 @@ "u1" :> 1 @@ "u2" :> 2
MCEvent(x) == <<"da", "ta:", "{">> \o x \o <<"}">>
MCStreamed ==
  {MCEvent(<<"null">>) \o <<"nl", "nl">> \o MCEvent(<<"u1">>) \o <<"nl", "nl", "da", "ta:", "done", "nl", "nl">>,
   MCEvent(<<"lo", "hi", "u1">>) \o <<"cr", "nl", "cr", "nl">> \o MCEvent(<<"lo", "hi">>) \o <<"cr", "nl">>,
   MCEvent(<<"u2">>) \o <<"nl", "nl", "da", "ta:", "{", "nl", "id", "nl", "da", "ta:", "u1", "}">>,
   MCEvent(<<"u2">>) \o <<"nl">> \o MCEvent(<<"u1">>) \o <<"nl", "nl">> \o MCEvent(<<>>),
   <<"{", "u1", "}">>}

\* Not so docs/usage.md:144, by which unsupported fields are never silently discarded:
\* a request for strict output of its schema is sent to Ollama like one without strict.
ASSUME StrictIsDiscarded ==
  LET asks(rest) == [MCPlain EXCEPT !.extra["response_format"] = [MCFormat EXCEPT !.nested = "s1", !.rest = rest]] IN
  /\ \A rest \in {"strict", Absent} : ~Excluded("ollama_native", asks(rest))
  /\ OllamaBody(asks("strict")) = OllamaBody(asks(Absent))

\* What CommentArrives takes for granted of the parser: whatever it holds between two
\* lines, a comment line leaves it as it was.
ASSUME CommentIsNoData ==
       \A e \in {<<>>, <<"{", "u1">>} : \A u \in {Absent, 2} :
         LET p == [line |-> <<>>, event |-> e, usage |-> u] IN Push(p, <<":", "nl">>) = p
=============================================================================

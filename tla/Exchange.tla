------------------------------- MODULE Exchange -------------------------------
(***************************************************************************)
(* One chat exchange with a provider: the request as its adapter converts it, *)
(* the answer as it arrives, and the usage that is found in it.  Attempts and *)
(* permits are in module Dispatch; here is what goes over the wire.           *)
(*                                                                         *)
(* Four callers make exchanges: a handler for its client, SmartClassifier     *)
(* (src/src/classifier.rs) to classify a prompt, and a background evaluation  *)
(* for its shadow model and for its judge (src/src/server.rs).  They differ in *)
(* what they do with an answer and in the deadline they set.                  *)
(*                                                                         *)
(* A streamed answer is a sequence of atoms: the two halves of "data:", line  *)
(* ends, pieces of JSON, the two bytes of one character.  It arrives in chunks *)
(* cut anywhere.                                                            *)
(***************************************************************************)
EXTENDS Adapters, Sequences, SequencesExt, FiniteSets, FiniteSetsExt

CONSTANTS
  Callers,         \* a subset of {"client", "classifier", "shadow", "judge"}
  RequestsOf,      \* RequestsOf[caller]: the requests it makes
  Answers,         \* buffered answers: counts, or Bad for one that does not parse
  Streamed,        \* streamed answers
  UsageAtom,       \* the usage that a piece of JSON carries
  MaxBuffer,       \* MAX_BUFFER_BYTES
  MaxChunk         \* bound on the atoms of a chunk

\* A request is an object: it has each known field, or the field is Absent.  Only
\* clients ask for streams: the classifier and the judge make requests without, and an
\* evaluation follows an answer that was none (server.rs:4370).
ASSUME ExchangeAssumption ==
  /\ MaxBuffer \in Nat /\ MaxChunk \in Nat \ {0} /\ Streamed \subseteq Seq(STRING)
  /\ \A c \in Callers : \A q \in RequestsOf[c] :
       /\ Known \subseteq DOMAIN q.extra /\ (Streams(q) => c = "client")
       /\ q.options \notin {Absent, Bad} => DOMAIN q.options = OptionNames

VARIABLES
  pc, caller, kind, req,
  body,            \* what was sent
  success,         \* of the status
  answer,          \* the answer: buffered or streamed
  at,              \* atoms of a stream forwarded to the client
  polled,          \* its body is polled by the connection of the client
  waited,          \* the idle timer runs: time has passed since the last chunk
  parser,          \* StreamingUsageParser
  recorded,        \* what record_usage was given, Absent if nothing
  outcome,
  cleared          \* history: the parser gave up a buffer

exchangeVars == <<pc, caller, kind, req, body, success, answer, at, polled, waited,
                  parser, recorded, outcome, cleared>>
exchange == <<caller, kind, req>>
timer == <<polled, waited>>

Fresh == [line |-> <<>>, event |-> <<>>, usage |-> Absent]

ExchangeInit ==
  /\ pc = "new" /\ caller \in Callers /\ kind \in Kinds /\ req \in RequestsOf[caller]
  /\ body = Absent /\ success = FALSE /\ answer = Absent
  /\ at = 0 /\ polled = TRUE /\ waited = FALSE /\ parser = Fresh /\ cleared = FALSE
  /\ recorded = Absent /\ outcome = "none"
-----------------------------------------------------------------------------
\* What a caller makes of an exchange that failed: Dispatch goes on to the next
\* model, the classifier falls back to its heuristics, the evaluation is written
\* without a shadow body, or judged by scores.
Failed == IF caller = "classifier" THEN "heuristic" ELSE "failed"

Conclude(o) == pc' = "done" /\ outcome' = o

\* send_chat: excluded, or converted and sent.
Convert ==
  /\ pc = "new"
  /\ IF Excluded(kind, req)
     THEN Conclude(Failed) /\ UNCHANGED body
     ELSE pc' = "sent" /\ body' = Body(kind, req) /\ UNCHANGED outcome
  /\ UNCHANGED <<exchange, success, answer, at, timer, parser, recorded, cleared>>

\* The head of the answer.  The classifier does not read the body of an error;
\* a stream is forwarded whatever its status.
HeadArrives ==
  /\ pc = "sent"
  /\ success' \in BOOLEAN
  /\ IF caller = "client" /\ Streams(req)
     THEN pc' = "streaming" /\ answer' \in Streamed /\ UNCHANGED outcome
     ELSE IF caller = "classifier" /\ kind \notin Native /\ ~success'
     THEN Conclude(Failed) /\ UNCHANGED answer
     ELSE pc' = "reading" /\ answer' \in Answers /\ UNCHANGED outcome
  /\ UNCHANGED <<exchange, body, at, timer, parser, recorded, cleared>>

\* No connection, or no head within timeout_ms, at the last attempt.
HeadFails ==
  /\ pc = "sent" /\ Conclude(Failed)
  /\ UNCHANGED <<exchange, body, success, answer, at, timer, parser, recorded, cleared>>

\* The classifier and the judge give send_chat timeout_ms.  A native adapter reads
\* the body in it, the others do not.
InDeadline ==
  /\ caller \in {"classifier", "judge"}
  /\ pc = "sent" \/ (pc = "reading" /\ kind \in Native)
SendTimesOut ==
  /\ InDeadline /\ Conclude(Failed)
  /\ UNCHANGED <<exchange, body, success, answer, at, timer, parser, recorded, cleared>>

BodyFails ==
  /\ pc = "reading" /\ Conclude(Failed)
  /\ UNCHANGED <<exchange, body, success, answer, at, timer, parser, recorded, cleared>>

\* usage_from_value
UsageFromValue(a) ==
  IF a.total # Absent THEN a.total ELSE Count(a.prompt_tokens, Absent) + Count(a.completion_tokens, Absent)

\* The usage in a buffered answer that parses: a native one was converted.
UsageIn(a) == IF kind \in Native THEN ConvertedUsage(kind, a) ELSE UsageFromValue(a)

\* The whole body is there.  A native answer that does not parse is an error of
\* send_chat; an OpenAI one is given to the client unread, and only the classifier
\* and the judge must understand it.
AnswerRead ==
  /\ pc = "reading"
  /\ \/ /\ answer = Bad
        /\ caller \in {"classifier", "judge"} \/ (kind \in Native /\ success)
        /\ Conclude(Failed) /\ UNCHANGED recorded
     \/ /\ answer = Bad /\ caller \in {"client", "shadow"} /\ ~(kind \in Native /\ success)
        /\ Conclude("answered") /\ UNCHANGED recorded
     \/ /\ answer # Bad
        /\ Conclude(IF caller \in {"classifier", "judge"} /\ ~success THEN Failed ELSE "answered")
        /\ recorded' = IF caller = "client" /\ success THEN UsageIn(answer) ELSE recorded
  /\ UNCHANGED <<exchange, body, success, answer, at, timer, parser, cleared>>
-----------------------------------------------------------------------------
\* std::str::from_utf8
IsText(line) ==
  \A i \in DOMAIN line :
    /\ line[i] = "lo" => i < Len(line) /\ line[i + 1] = "hi"
    /\ line[i] = "hi" => i > 1 /\ line[i - 1] = "lo"
IsData(line) == IsText(line) /\ IsPrefix(<<"da", "ta:">>, line)
Payload(line) == SubSeq(line, 3, Len(line))

\* serde_json::from_str and usage_from_value: what the atoms of s at positions P
\* carry, if they make a JSON object.
UsageAt(s, P) ==
  LET found == {i \in P : s[i] \in DOMAIN UsageAtom}
  IN IF P # {} /\ s[Min(P)] = "{" /\ s[Max(P)] = "}" /\ found # {}
     THEN UsageAtom[s[Max(found)]] ELSE Absent

\* A line end in the data of an event is white space.
UsageOf(data) == UsageAt(data, {i \in DOMAIN data : data[i] # "nl"})

\* finish_event
FinishEvent(p) ==
  [p EXCEPT !.event = <<>>,
            !.usage = IF UsageOf(p.event) # Absent THEN UsageOf(p.event) ELSE @]

\* process_line, for the line that is buffered
ProcessLine(p, line) ==
  CASE line = <<>> -> FinishEvent([p EXCEPT !.line = <<>>])
    [] line # <<>> /\ IsData(line) ->
         [p EXCEPT !.line = <<>>,
                   !.event = IF @ = <<>> THEN Payload(line) ELSE @ \o <<"nl">> \o Payload(line)]
    [] OTHER -> [p EXCEPT !.line = <<>>]

WithoutCr(line) == IF line # <<>> /\ Last(line) = "cr" THEN Front(line) ELSE line

\* One atom of the buffer.
Take(p, a) ==
  IF a = "nl" THEN ProcessLine(p, WithoutCr(p.line)) ELSE [p EXCEPT !.line = Append(@, a)]

\* Mutant: each chunk is split into lines on its own.
Push_PerChunk(p, chunk) ==
  FoldLeft(Take, [p EXCEPT !.line = <<>>], chunk)

Overfull(p, chunk) == Len(p.line) + Len(chunk) > MaxBuffer

\* StreamingUsageParser::push
Push(p, chunk) ==
  IF Overfull(p, chunk) THEN [p EXCEPT !.line = <<>>, !.event = <<>>] ELSE FoldLeft(Take, p, chunk)

\* StreamingUsageParser::finish
Found(p) ==
  FinishEvent(IF p.line = <<>> THEN p ELSE ProcessLine(p, p.line)).usage

\* The idle timer of upstream_response is made with the poll for the next chunk, so
\* it starts anew at each.  A connection whose client reads nothing polls no more.
Polls == pc = "streaming" /\ polled

\* on_chunk: the next chunk goes to the client and to the parser.
Chunk ==
  /\ Polls
  /\ \E k \in 1 .. MaxChunk :
       /\ at + k <= Len(answer) /\ at' = at + k
       /\ LET chunk == SubSeq(answer, at + 1, at + k) IN
          /\ parser' = Push(parser, chunk)
          /\ cleared' = (cleared \/ Overfull(parser, chunk))
  /\ waited' = FALSE
  /\ UNCHANGED <<pc, exchange, body, success, answer, polled, recorded, outcome>>

\* on_chunk of a comment line, which a provider may send between two lines, for ever,
\* to keep the connection.  It is not data: the parser is as it was.
CommentArrives ==
  /\ Polls /\ (at > 0 => answer[at] = "nl") /\ waited' = FALSE
  /\ UNCHANGED <<pc, exchange, body, success, answer, at, polled, parser, recorded, outcome, cleared>>

TimePasses ==
  /\ Polls /\ waited' = TRUE
  /\ UNCHANGED <<pc, exchange, body, success, answer, at, polled, parser, recorded, outcome, cleared>>

\* The client stops reading without leaving, or reads again.
ClientStalls ==
  /\ pc = "streaming" /\ polled' = ~polled
  /\ UNCHANGED <<pc, exchange, body, success, answer, at, waited, parser, recorded, outcome, cleared>>

\* on_end and on_error record the usage that was found.
Observe(o) ==
  /\ recorded' = Found(parser) /\ Conclude(o)
  /\ UNCHANGED <<exchange, body, success, answer, at, timer, parser, cleared>>

StreamEnds == Polls /\ at = Len(answer) /\ Observe("answered")
StreamBreaks == Polls /\ Observe("broken")

\* Mutant: the time to the first chunk is not limited.
IdleTimesOut_OnceBegun == Polls /\ waited /\ at > 0 /\ Observe("broken")

\* No chunk for stream_idle_timeout_ms.
IdleTimesOut == Polls /\ waited /\ Observe("broken")

\* The client of a handler goes away: the future, or the observer, is dropped.
ClientLeaves ==
  /\ caller = "client" /\ pc # "done" /\ Conclude("gone")
  /\ UNCHANGED <<exchange, body, success, answer, at, timer, parser, recorded, cleared>>

ExchangeNext ==
  \/ Convert \/ HeadArrives \/ HeadFails \/ SendTimesOut
  \/ AnswerRead \/ BodyFails
  \/ Chunk \/ CommentArrives \/ TimePasses \/ ClientStalls
  \/ StreamEnds \/ StreamBreaks \/ IdleTimesOut \/ ClientLeaves

ExchangeSpec == ExchangeInit /\ [][ExchangeNext]_exchangeVars

\* The code's own steps are taken, time passes, and a timer that runs out fires when
\* neither a chunk nor the client keeps it from it; a provider may be silent, and
\* nobody has to read.
FairSpec ==
  /\ ExchangeSpec
  /\ WF_exchangeVars(Convert) /\ WF_exchangeVars(HeadFails)
  /\ WF_exchangeVars(SendTimesOut)
  /\ WF_exchangeVars(TimePasses) /\ WF_exchangeVars(IdleTimesOut)
-----------------------------------------------------------------------------
\* The types of the variables.
ExchangeTypeOK ==
  /\ pc \in {"new", "sent", "reading", "streaming", "done"}
  /\ caller \in Callers /\ kind \in Kinds /\ req \in RequestsOf[caller]
  /\ {success, cleared, polled, waited} \subseteq BOOLEAN /\ at \in Nat
  /\ outcome \in {"none", "answered", "failed", "heuristic", "broken", "gone"}

\* What a whole stream says, read by the positions of its lines and events: a line
\* ends at "nl" or at the end of the stream, an event at an empty line or there, and
\* the last event with a usage counts.
Breaks(s) == {i \in DOMAIN s : s[i] = "nl"}
Starts(s) == {1} \cup {i + 1 : i \in Breaks(s)}
LineAt(s, i) ==
  LET later == {j \in Breaks(s) : j >= i} IN
  IF later = {} THEN SubSeq(s, i, Len(s)) ELSE WithoutCr(SubSeq(s, i, Min(later) - 1))
\* The positions of the data of the event that ends at k: of each data line before k
\* without an empty line between.
DataOf(s, k) ==
  LET lines == {j \in Starts(s) : /\ j < k /\ IsData(LineAt(s, j))
                                  /\ \A i \in Starts(s) : j < i /\ i < k => LineAt(s, i) # <<>>}
  IN UNION {j + 2 .. j + Len(LineAt(s, j)) - 1 : j \in lines}
\* The usage of the last of the events that end at one of these positions.
LastUsage(s, ends) ==
  LET with == {k \in ends : UsageAt(s, DataOf(s, k)) # Absent}
  IN IF with = {} THEN Absent ELSE UsageAt(s, DataOf(s, Max(with)))
EmptyLines(s) == {k \in Starts(s) : LineAt(s, k) = <<>>}
UsageOfStream(s) == LastUsage(s, EmptyLines(s) \cup {Len(s) + 1})

\* The usage recorded of a stream that ended or broke is that of all that was
\* forwarded of it, wherever its chunks were cut (lines, events and characters
\* included), as long as the parser's buffer was never overfull.
UsageOfWhole ==
  pc = "done" /\ outcome \in {"answered", "broken"} /\ Streams(req) /\ ~cleared =>
    recorded = UsageOfStream(SubSeq(answer, 1, at))

\* What a body asks of a native server, in the words of the request: a setting,
\* the limit under either of its names.
Asks(f) ==
  CASE f \in Copied /\ kind = "ollama_native" -> body.options[f]
    [] f \in Copied /\ kind = "llama_cpp_native" -> body.copied[f]
    [] f \in Limits /\ kind = "ollama_native" -> body.options["num_predict"]
    [] f \in Limits /\ kind = "llama_cpp_native" -> body.n_predict
    [] f = "stream" -> body.stream

\* The fields that an adapter carries one by one; a format is taken apart.
Preserved(f) == f \in Given(req) \ {"response_format"} => Asks(f) = req.extra[f]
Format == req.extra["response_format"]

\* What a native adapter loses of a request that it sends is no more than this: of a
\* format, all but the object of its schema, or but "json" where JSON is asked for
\* without one (ollama_format); a native option that the request says again, as a field.
\* docs/usage.md:144 wants not even that lost: fields that an adapter cannot preserve
\* are rejected.  (See StrictIsDiscarded of MCExchange for one that is not.)
NothingElseLost ==
  body # Absent /\ kind \in Native =>
    /\ Given(req) \subseteq Known /\ \A f \in Known : Preserved(f)
    /\ Format # Absent =>
         \/ Format.type = "json_object" /\ body.format = "json"
         \/ /\ Format.type = "json_schema" /\ body.format \notin {Absent, Bad}
            /\ body.format = Format.nested \/ (Format.nested = Absent /\ body.format = Format.beside)
    /\ req.options # Absent =>
         \A o \in OptionNames : req.options[o] # Absent =>
           \/ body.options[o] = req.options[o]
           \/ o = "num_predict" /\ Limits \cap Given(req) # {}
           \/ o \in Given(req)

\* An exchange comes to an end under the timeouts of the code, with three exceptions,
\* which nothing there limits: a buffered body read outside of the deadline of its
\* caller; a stream whose chunks keep coming, for no deadline is that of a whole stream
\* (docs/usage.md:140); and a client that stops reading, time and again or for good.
Settles ==
  \/ <>[](pc = "done" \/ (pc = "reading" /\ ~InDeadline))
  \/ []<><<CommentArrives>>_exchangeVars
  \/ []<>~polled
=============================================================================

------------------------------ MODULE Classification ------------------------------
(***************************************************************************)
(* src/src/classifier.rs: what the classifier makes of a prompt.  A prompt    *)
(* is the numbers PromptFeatures and count_terms find in its text, a field    *)
(* for its words, its question marks and each list of terms.                 *)
(*                                                                         *)
(* Scores and confidences are f32 in the code and integers here, in 1/Unit:   *)
(* a word is Unit/180 or Unit/220 of a score, a term so many hundredths.      *)
(***************************************************************************)
EXTENDS Integers, FiniteSets

Unit == 9900
Cent == Unit \div 100
Clamp(x, low, high) == IF x < low THEN low ELSE IF x > high THEN high ELSE x
AtLeast(x, low) == IF x < low THEN low ELSE x
AtMost(x, high) == IF x > high THEN high ELSE x
Clamped(x) == Clamp(x, 0, Unit)
Label(label, confidence) == [label |-> label, confidence |-> confidence]

Terms ==
  {"words", "questions", "code", "vision", "audio", "tools", "json",
   "hard", "easy", "vague", "precise", "coding", "design", "data", "summary",
   "unsafe", "sensitive", "stable", "volatile", "fast", "patient", "reasoning"}
NoTerms == [term \in Terms |-> 0]

\* Where a score becomes the second and the third of three labels.
Graded(score, second, third, labels, low, medium, high) ==
  IF score < second THEN Label(labels[1], low)
  ELSE IF score < third THEN Label(labels[2], medium)
  ELSE Label(labels[3], high)

\* classify_difficulty
Difficulty(p, easy, hard) ==
  LET score == Clamped(((p.words * Unit) \div 180) + 18 * Cent * p.hard + 10 * Cent * p.code
                         - 16 * Cent * p.easy)
  IN IF p.words < 3 THEN Label("needs_info", 80 * Cent)
     ELSE Graded(score, easy, hard, <<"easy", "medium", "hard">>,
                 84 * Cent - ((3 * score) \div 10), 70 * Cent, AtLeast(score, 72 * Cent))

\* classify_ambiguity
Ambiguity(p) ==
  LET score == Clamped(22 * Cent * p.vague + 6 * Cent * p.questions - 8 * Cent * p.precise
                         + (IF p.words < 8 THEN 25 * Cent ELSE 0))
  IN Graded(score, 25 * Cent, 58 * Cent, <<"low", "med", "high">>, 86 * Cent, 72 * Cent, 78 * Cent)

\* classify_domain: the most hits, and the last of equals.
Domains == <<"coding", "design", "data", "summary">>
Hits(p) == <<p.coding + p.code, p.design, p.data, p.summary>>
Domain(p) ==
  LET hits == Hits(p)
      best == CHOOSE i \in 1 .. 4 : \A j \in 1 .. 4 : hits[j] < hits[i] \/ (hits[j] = hits[i] /\ j <= i)
  IN IF hits[best] = 0 THEN Label("general", 69 * Cent)
                       ELSE Label(Domains[best], AtMost(68 * Cent + 7 * Cent * hits[best], 95 * Cent))

\* classify_modality
Modality(p) ==
  LET modes == {m \in {"vision", "audio", "tool_use"} :
                  0 < CASE m = "vision" -> p.vision [] m = "audio" -> p.audio [] OTHER -> p.tools}
  IN IF Cardinality(modes) > 1 THEN Label("multimodal", 86 * Cent)
     ELSE IF modes = {} THEN Label("text", 88 * Cent)
     ELSE Label(CHOOSE m \in modes : TRUE, IF modes = {"tool_use"} THEN 80 * Cent ELSE 84 * Cent)

\* classify_safety: sensitive counts an e-mail address as one more term.
Safety(p) ==
  IF p.unsafe > 0 THEN Label("unsafe", AtMost(78 * Cent + 5 * Cent * p.unsafe, 95 * Cent))
  ELSE IF p.sensitive > 0 THEN Label("sensitive", AtMost(72 * Cent + 5 * Cent * p.sensitive, 92 * Cent))
  ELSE Label("safe", 82 * Cent)

\* classify_cacheability
Cacheability(p) ==
  LET score == Clamped(45 * Cent + 13 * Cent * (p.stable + p.json) - 18 * Cent * p.volatile
                         - (IF p.code > 0 THEN 10 * Cent ELSE 0))
  IN Graded(score, 35 * Cent, 68 * Cent, <<"low", "medium", "high">>,
            78 * Cent, 72 * Cent, AtLeast(score, 78 * Cent))

\* classify_latency_sensitivity
LatencySensitivity(p) ==
  LET score == Clamped(42 * Cent + 22 * Cent * p.fast - 10 * Cent * p.patient
                         - (IF p.words > 140 THEN 12 * Cent ELSE 0))
  IN Graded(score, 30 * Cent, 65 * Cent, <<"low", "medium", "high">>,
            76 * Cent, 72 * Cent, AtLeast(score, 78 * Cent))

\* classify_reasoning_depth, which looks at two of the heads before it.
ReasoningDepth(p, difficulty, ambiguity) ==
  LET score == Clamped(((p.words * Unit) \div 220) + 16 * Cent * p.reasoning
                         + (IF difficulty.label = "hard" THEN 28 * Cent ELSE 0)
                         + (IF ambiguity.label = "high" THEN 12 * Cent ELSE 0))
  IN Graded(score, 28 * Cent, 65 * Cent, <<"shallow", "moderate", "deep">>,
            82 * Cent, 74 * Cent, AtLeast(score, 80 * Cent))

\* HeuristicClassifier::classify; s has its thresholds.
Heuristic(p, s) ==
  LET difficulty == Difficulty(p, s.easy, s.hard)
      ambiguity == Ambiguity(p)
  IN [difficulty |-> difficulty, ambiguity |-> ambiguity, domain |-> Domain(p),
      modality |-> Modality(p), safety |-> Safety(p), cacheability |-> Cacheability(p),
      latency_sensitivity |-> LatencySensitivity(p),
      reasoning_depth |-> ReasoningDepth(p, difficulty, ambiguity)]
-----------------------------------------------------------------------------
(* The judge.  Its output has a head for each label it gives; a head that is  *)
(* not there, or has no confidence of its own, has the default.  Three heads    *)
(* are required, and a judge that leaves out "safety" calls the prompt safe.    *)

Required == {"difficulty", "ambiguity", "domain"}
Optional == [modality |-> Label("text", 72 * Cent), safety |-> Label("safe", 72 * Cent),
             cacheability |-> Label("medium", 68 * Cent),
             latency_sensitivity |-> Label("medium", 68 * Cent),
             reasoning_depth |-> Label("moderate", 68 * Cent)]
Heads == Required \cup DOMAIN Optional

\* JudgeOutput::validate, and serde's fields that must be there.
ValidOutput(output) ==
  /\ Required \subseteq DOMAIN output
  /\ \A h \in DOMAIN output : output[h].confidence \in 0 .. Unit

\* parse_judge_content, of a content that has one JSON object.
Parsed(output) == [h \in Heads |-> IF h \in DOMAIN output THEN output[h] ELSE Optional[h]]

\* SmartClassifier::classify: answers are the outputs the judge may give, none for
\* the heuristic backend.  Whatever fails, from the lookup of its model to its
\* confidences, the heuristics answer.
Classify(p, answers, s) ==
  {Heuristic(p, s)} \cup {Parsed(output) : output \in {a \in answers : ValidOutput(a)}}

\* MultimodelResponse has a head only if its confidence is sufficient: at the
\* configured threshold for the heuristics, at one half for a judge.
MeetsThreshold(head, threshold) == head.confidence >= threshold

\* classify_safety_deterministically: the preflight never asks the judge.
SafetyLabelOf(p) == Safety(p).label
===================================================================================

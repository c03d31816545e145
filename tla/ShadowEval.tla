------------------------------ MODULE ShadowEval ------------------------------
(***************************************************************************)
(* src/src/shadow_eval.rs: which of two answers to one request was better, as *)
(* the record of a shadow evaluation says.  No state; the writer of the        *)
(* records is module Journal, the tasks are module Shutdown.                  *)
(*                                                                         *)
(* An answer has a status, the length of its text and its latency; a shadow    *)
(* that failed has none, and is Absent.  Scores are ten-thousandths.           *)
(***************************************************************************)
EXTENDS Integers

CONSTANT Absent

Smaller(x, y) == IF x < y THEN x ELSE y

\* ShadowEvalLogger::enabled, should_sample; hash and rate are hundredths.
Sampled(c, hash) ==
  c.enabled /\ c.output_path # Absent /\ c.sample_rate > 0 /\ (c.sample_rate < 100 => hash < c.sample_rate)

IsSuccess(status) == status \in 200 .. 299

\* response_score, with content_quality_score and latency_quality_score in hundredths.
StatusScore(status) ==
  IF IsSuccess(status) THEN 100 ELSE IF status < 500 THEN 35 ELSE 15
ContentScore(chars) == Smaller(100, chars \div 2)
LatencyScore(ms) == 100000 \div (ms + 1000)
Score(a) ==
  IF a = Absent THEN 0
  ELSE 70 * StatusScore(a.status) + 22 * ContentScore(a.chars) + 8 * LatencyScore(a.latency)

\* judge_shadow_eval
Close == 500
Winner(selected, shadow) ==
  LET delta == Score(selected) - Score(shadow) IN
  IF shadow = Absent \/ (IsSuccess(selected.status) /\ ~IsSuccess(shadow.status)) THEN "selected"
  ELSE IF IsSuccess(shadow.status) /\ ~IsSuccess(selected.status) THEN "shadow"
  ELSE IF delta \in -Close .. Close THEN "tie"
  ELSE IF delta > 0 THEN "selected" ELSE "shadow"

\* parse_llm_shadow_eval_judgement, validate_llm_score: a winner that is one, and
\* scores that are in the unit interval, or not given.
Parses(j) ==
  /\ j # Absent
  /\ j.winner \in {"selected", "shadow", "tie"}
  /\ \A s \in {j.selected_score, j.shadow_score} : s = Absent \/ s \in 0 .. 100

\* ShadowEvalLogger::record: the judgement of a model where there is one, or the
\* heuristic where judging is enabled.
RecordedWinner(c, judgement, selected, shadow) ==
  IF Parses(judgement) THEN judgement.winner
  ELSE IF c.judge_enabled THEN Winner(selected, shadow) ELSE Absent
=============================================================================

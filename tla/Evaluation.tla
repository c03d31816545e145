------------------------------ MODULE Evaluation ------------------------------
(***************************************************************************)
(* src/src/eval.rs: how well a configuration routes a labelled dataset, the  *)
(* gates on that, and the search for better thresholds and weights.  No state. *)
(*                                                                         *)
(* A dataset is a sequence of examples; what is expected of one is Absent if  *)
(* its line does not say.  A routing gives for each example what the engine   *)
(* chose: a model and a domain.  A hash stands for an example or its input.    *)
(* Rates are hundredths, and compared without the rounding of f32.            *)
(***************************************************************************)
EXTENDS Naturals, Sequences, FiniteSets, SequencesExt, FiniteSetsExt

CONSTANT Absent

Expectations == {"tier", "domain", "model", "provider"}
Expecting(examples, over, what) == {i \in over : examples[i][what] # Absent}

\* tier_for_capability
Tier(capability) ==
  IF capability < 45 THEN "cheap" ELSE IF capability < 82 THEN "balanced" ELSE "strong"

\* model_matches_expected
Answers(m, name) == m.id = name \/ name \in m.aliases

Met(example, choice, what) ==
  CASE what = "tier" -> Tier(choice.model.capability) = example.tier
    [] what = "domain" -> choice.domain = example.domain
    [] what = "model" -> Answers(choice.model, example.model)
    [] what = "provider" -> choice.model.provider = example.provider

\* evaluate, of the examples in over.
Evaluate(examples, routed, over) ==
  [examples |-> [w \in Expectations |-> Cardinality(Expecting(examples, over, w))],
   matches |-> [w \in Expectations |->
                  Cardinality({i \in Expecting(examples, over, w) :
                                 Met(examples[i], routed[i], w)})],
   cost |-> MapThenSumSet(LAMBDA i : routed[i].model.cost, over)]

\* A rate of nothing is 0.
AtLeast(matches, examples, rate) == 100 * matches >= rate * Max({1, examples})

\* What finish_eval_gate lists as failures.
Failures(report, demand) ==
  LET low == {w \in Expectations : ~AtLeast(report.matches[w], report.examples[w], demand.rate[w])}
      few == {w \in Expectations : report.examples[w] < demand.coverage[w]}
  IN {"rate"} \X low \cup {"coverage"} \X few

\* finish_eval_gate; the coverage of "tier" is the least size of the dataset.
FinishEvalGate(report, demand) ==
  IF \E w \in Expectations : demand.rate[w] \notin 0 .. 100 THEN "error"
  ELSE IF Failures(report, demand) = {} THEN "pass" ELSE "fail"

\* eval_gate_with_coverage: with the heuristic, all of the dataset.
EvalGate(examples, routed, demand) ==
  FinishEvalGate(Evaluate(examples, routed, DOMAIN examples), demand)

\* configured_eval_gate: the classifier that is configured was asked for each
\* example, and seldom had to be replaced.
ConfiguredEvalGate(examples, routed, over, demand, execution) ==
  LET gate == FinishEvalGate(Evaluate(examples, routed, over), demand) IN
  IF demand.fallback \notin 0 .. 100 THEN "error"
  ELSE IF gate = "pass"
          /\ 100 * execution.fallbacks <= demand.fallback * Max({1, execution.requests})
          /\ execution.backend # "heuristic" => execution.requests = Cardinality(over)
       THEN "pass"
  ELSE IF gate = "error" THEN "error" ELSE "fail"
-----------------------------------------------------------------------------
(* Which examples: the first in the order of their hashes, then of the file.  *)

Before(hash, i) == {j \in DOMAIN hash : hash[j] < hash[i] \/ (hash[j] = hash[i] /\ j < i)}
Lowest(hash, n) == {i \in DOMAIN hash : Cardinality(Before(hash, i)) < n}

\* seeded_holdout, hash[i] of the seed and the i-th example.
HoldoutSize(n, ratio) == IF n = 0 THEN 0 ELSE Min({n, Max({1, (n * ratio + 99) \div 100})})
SeededHoldout(hash, ratio) == Lowest(hash, HoldoutSize(Len(hash), ratio))

\* train_holdout_split, hash[i] of the input of the i-th example.
Split(hash) ==
  LET all == DOMAIN hash
      holdout == Lowest(hash, Max({1, Len(hash) \div 5}))
  IN IF Len(hash) < 5 THEN [train |-> all, holdout |-> all]
                      ELSE [train |-> all \ holdout, holdout |-> holdout]
-----------------------------------------------------------------------------
(* The searches; grid is the sequence of configurations they try, reports are  *)
(* of the same examples.                                                    *)

\* better_report
Better(x, y) ==
  \/ x.matches["tier"] > y.matches["tier"]
  \/ /\ x.matches["tier"] = y.matches["tier"]
     /\ \/ x.matches["domain"] > y.matches["domain"]
        \/ (x.matches["domain"] = y.matches["domain"] /\ x.cost < y.cost)

\* calibrate_thresholds; base is returned unless something is right, untried.
Calibrate(base, grid, report) ==
  FoldLeft(LAMBDA best, c : IF report[c].matches["tier"] > best.matches
                              THEN [config |-> c, matches |-> report[c].matches["tier"]]
                              ELSE best,
           [config |-> base, matches |-> 0], grid).config

\* optimize_config
Optimize(base, grid, report) ==
  FoldLeft(LAMBDA best, c : IF Better(report[c], report[best]) THEN c ELSE best, base, grid)

\* optimize_with_artifact; routed[c] is the routing under c.
OptimizeWithArtifact(base, grid, examples, hash, routed) ==
  LET split == Split(hash)
      Report(over) == [c \in DOMAIN routed |-> Evaluate(examples, routed[c], over)]
      best == Optimize(base, grid, Report(split.train))
      held == Report(split.holdout)
  IN [config |-> best,
      holdout_pass |-> \A w \in {"tier", "domain"} : held[best].matches[w] >= held[base].matches[w]]

\* The optimize command writes what was found, whatever the holdout says.
Written(base, grid, examples, hash, routed) ==
  OptimizeWithArtifact(base, grid, examples, hash, routed).config
=============================================================================

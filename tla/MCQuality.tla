------------------------------ MODULE MCQuality ------------------------------
(***************************************************************************)
(* What the offline tools promise, evaluated over all small inputs: datasets *)
(* of up to six examples, grids of three configurations, bundles of two        *)
(* writers, pairs of answers.  Each is an assumption that TLC evaluates before *)
(* it explores the specification of the module that extends this one.          *)
(***************************************************************************)
EXTENDS Naturals, Sequences, FiniteSets

CONSTANTS absent, torn

LOCAL Eval == INSTANCE Evaluation WITH Absent <- absent
LOCAL Shown == INSTANCE Evidence WITH Torn <- torn
LOCAL Shadow == INSTANCE ShadowEval WITH Absent <- absent
-----------------------------------------------------------------------------
\* train_holdout_split and seeded_holdout: whatever the hashes, and with equal
\* ones, nothing is lost, and from five examples on nothing is on both sides.
ASSUME SplitsAreSound ==
  \A n \in 0 .. 6 : \A hash \in [1 .. n -> 0 .. 2] :
    LET s == Eval!Split(hash) IN
    /\ s.train \cup s.holdout = 1 .. n
    /\ n >= 5 => s.train # {} /\ s.holdout # {} /\ s.train \cap s.holdout = {}
    /\ \A ratio \in {1, 20, 50, 100} :
         LET size == Cardinality(Eval!SeededHoldout(hash, ratio)) IN
         100 * size >= ratio * n /\ 100 * (size - 1) < ratio * Eval!Max({1, n})

\* A hundred percent of nothing: a gate that asks for a rate does not pass on a
\* dataset in which nothing is expected, nor on one that is empty.
Choices == [model : {[id |-> i, aliases |-> {"alias"}, capability |-> 60, provider |-> "p", cost |-> 1] :
                       i \in {"m", "n"}}, domain : {"d", absent}]
Labelled == [tier : {"cheap", "balanced"}, domain : {"d", absent}, model : {"m", "alias", absent},
             provider : {absent}]
Demanding(rate) == [rate |-> rate, coverage |-> [w \in Eval!Expectations |-> 0], fallback |-> 0]
ASSUME GatesAreNotVacuous ==
  \A n \in 0 .. 2 : \A examples \in [1 .. n -> Labelled], what \in Eval!Expectations :
    \A routed \in [1 .. n -> {c \in Choices : c.domain = "d"}] :
      Eval!EvalGate(examples, routed,
                    Demanding([w \in Eval!Expectations |-> IF w = what THEN 100 ELSE 0])) = "pass" =>
        /\ Eval!Expecting(examples, 1 .. n, what) # {}
        /\ \A i \in Eval!Expecting(examples, 1 .. n, what) : Eval!Met(examples[i], routed[i], what)

\* Reports of the same examples, of a base b and a grid of three.
Grid == <<"x", "y", "z">>
Reports == [{"b", "x", "y", "z"} -> [matches : [{"tier", "domain"} -> 0 .. 1], cost : 0 .. 1]]

\* optimize_config: nothing in the grid, nor what it started from, is better than
\* what it finds, and it keeps what it started from unless something is better.
ASSUME OptimumIsBest ==
  \A report \in Reports :
    LET found == Eval!Optimize("b", Grid, report) IN
    /\ \A c \in DOMAIN report : ~Eval!Better(report[c], report[found])
    /\ found # "b" => Eval!Better(report[found], report["b"])

\* calibrate_thresholds promises less: the first of the best of its grid, which may be worse
\* than the thresholds that are configured, for those it does not evaluate.
ASSUME CalibrationMayBeWorse ==
  /\ \A report \in Reports :
       LET found == Eval!Calibrate("b", Grid, report) IN
       LET right(c) == report[c].matches["tier"] IN
       IF found = "b" THEN \A i \in 1 .. 3 : right(Grid[i]) = 0
       ELSE \E i \in 1 .. 3 : /\ found = Grid[i]
                              /\ \A j \in 1 .. 3 : right(Grid[j]) < right(found) \/ (j >= i /\ right(Grid[j]) = right(found))
  /\ \E report \in [{"b", "x", "y", "z"} -> [matches : [{"tier"} -> 0 .. 2]]] :
       report[Eval!Calibrate("b", Grid, report)].matches["tier"] < report["b"].matches["tier"]
-----------------------------------------------------------------------------
\* At least p of a hundred latencies are no longer than the percentile.
ASSUME PercentilesBound ==
  \A n \in 1 .. 6 : \A s \in [1 .. n -> 0 .. 2] : \A p \in {50, 90, 95, 99} :
    (\A i, j \in 1 .. n : i < j => s[i] <= s[j]) =>
      100 * Cardinality({i \in 1 .. n : s[i] <= Shown!Percentile(s, p)}) >= p * n

\* Two writers to one directory, or one that stops between two files: a bundle is
\* accepted only if all of it is of one writer, and that one passed.
Load == [requests |-> 2, concurrency |-> 1, p95 |-> 2, error_rate |-> 50]
Ran(latency, success) ==
  Shown!SuiteReport(Load, <<[i \in 1 .. 2 |-> [latency |-> latency, success |-> success \/ i = 1]]>>)
Matrix(config, pass) == [config |-> config, schema |-> 2, reports |-> <<config>>, pass |-> pass]
Written ==
  {Shown!Bundle([revision |-> r, runs |-> 2, load |-> Load], Matrix(c, TRUE), <<Ran(1, TRUE), Ran(l, s)>>) :
     r \in {"old", "new"}, c \in {"c1", "c2"}, l \in {2, 3}, s \in BOOLEAN}
Found == [benchmark : {b.benchmark : b \in Written} \cup {torn},
          conformance : {b.conformance : b \in Written} \cup {torn},
          manifest : {b.manifest : b \in Written} \cup {torn}]
ASSUME BundlesAreWhole ==
  /\ \A dir \in Found, expected \in {"old", "new", torn} :
       Shown!Validates(dir, expected) =>
         /\ dir \in Written /\ dir.manifest.pass
         /\ expected # torn => dir.benchmark.revision = expected
  /\ \A b \in Written : b.manifest.pass => Shown!Validates(b, b.manifest.revision)
  /\ \E b \in Written : b.manifest.pass
  /\ \E b \in Written : ~b.manifest.pass
-----------------------------------------------------------------------------
Given == [status : {200, 404, 503}, chars : {0, 100, 400}, latency : {0, 1000, 9000}]
Judging == [judge_enabled |-> TRUE]

\* judge_shadow_eval: length and speed never make up for failing, and the same
\* answer twice is a tie.  A model that judges is believed whatever it says.
ASSUME FailuresNeverWin ==
  \A selected \in Given, shadow \in Given \cup {absent} :
    LET winner == Shadow!RecordedWinner(Judging, absent, selected, shadow) IN
    /\ winner = "shadow" /\ Shadow!IsSuccess(selected.status) => Shadow!IsSuccess(shadow.status)
    /\ winner = "selected" /\ shadow # absent /\ Shadow!IsSuccess(shadow.status) =>
         Shadow!IsSuccess(selected.status)
    /\ selected = shadow => winner = "tie"
=============================================================================

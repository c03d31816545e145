------------------------------- MODULE Evidence -------------------------------
(***************************************************************************)
(* src/src/load.rs and src/src/evidence.rs: a load test of a router, and the  *)
(* bundle of evidence about a revision that is made of repeated ones.  No      *)
(* state: a bundle is three files, written one after the other and in place,   *)
(* so that what a reader finds may be any mixture of what was written.         *)
(*                                                                         *)
(* A fingerprint is the content it is of.  Torn is a file that does not parse,  *)
(* or that is not there.  Rates are hundredths.                              *)
(***************************************************************************)
EXTENDS Naturals, Sequences, FiniteSets, SequencesExt, FiniteSetsExt

CONSTANT Torn

\* percentile, of sorted latencies.
Percentile(sorted, p) ==
  IF sorted = <<>> THEN 0
  ELSE sorted[1 + Min({((Len(sorted) - 1) * p + 99) \div 100, Len(sorted) - 1})]

\* validate_load_config
ValidLoad(load) == load.requests > 0 /\ load.concurrency > 0 /\ load.error_rate \in 0 .. 100

\* report_from_samples, latency_report: what was not answered with a success is
\* a failure, a sample that is missing included.
LoadReport(load, samples) ==
  LET latency == SortSeq([i \in DOMAIN samples |-> samples[i].latency], <)
      failures == load.requests - Cardinality({i \in DOMAIN samples : samples[i].success})
  IN [p95 |-> Percentile(latency, 95), failures |-> failures,
      pass |-> Percentile(latency, 95) <= load.p95 /\ 100 * failures <= load.error_rate * load.requests]

\* run_load_test: the workers take the requests from one counter, which stops
\* them at the last; in which order they are answered makes no difference.
LoadTest(load, answers) == LoadReport(load, [i \in 1 .. load.requests |-> answers[i]])

\* run_load_suite: one test after the other for each scenario.
SuiteReport(load, answers) ==
  LET reports == [s \in DOMAIN answers |-> LoadTest(load, answers[s])]
  IN [reports |-> reports, pass |-> \A s \in DOMAIN reports : reports[s].pass]

\* aggregate_runs: the worst of the runs, for each scenario.
Aggregates(load, runs) ==
  [s \in DOMAIN runs[1].reports |->
     LET of == {runs[i].reports[s] : i \in DOMAIN runs} IN
     [runs |-> Len(runs),
      pass |-> /\ Max({r.p95 : r \in of}) <= load.p95
               /\ 100 * Max({r.failures : r \in of}) <= load.error_rate * load.requests]]

\* validate_controlled_config; an empty revision is Torn.
ValidEvidence(c) == c.revision # Torn /\ c.runs >= 2 /\ ValidLoad(c.load)

\* write_controlled_evidence: what it writes, having measured c.runs runs after a
\* matrix and a warm-up that passed; conformance has a config, schema 2, and reports.
Bundle(c, conformance, runs) ==
  LET aggregates == Aggregates(c.load, runs)
      benchmark ==
        [revision |-> c.revision, config |-> conformance.config, measured |-> c.runs,
         runs |-> runs, aggregates |-> aggregates,
         pass |-> /\ \A s \in DOMAIN aggregates : aggregates[s].pass
                  /\ \A i \in DOMAIN runs : runs[i].pass]
  IN [benchmark |-> benchmark, conformance |-> conformance,
      manifest |-> [revision |-> c.revision, config |-> conformance.config,
                    benchmark |-> benchmark, conformance |-> conformance,
                    pass |-> benchmark.pass /\ conformance.pass]]

\* validate_evidence_bundle: of the files that are there; expected is a revision,
\* or Torn for any.
Validates(dir, expected) ==
  LET bench == dir.benchmark
      c == dir.conformance
      m == dir.manifest
  IN /\ Torn \notin {bench, c, m}
     /\ m.pass /\ bench.pass
     /\ Len(bench.runs) >= 2 /\ bench.measured = Len(bench.runs)
     /\ \A s \in DOMAIN bench.aggregates : bench.aggregates[s].pass /\ bench.aggregates[s].runs = Len(bench.runs)
     /\ c.schema = 2 /\ c.pass /\ c.reports # <<>>
     /\ m.benchmark = bench /\ m.conformance = c
     /\ m.revision = bench.revision
     /\ m.config = bench.config /\ m.config = c.config
     /\ expected # Torn => m.revision = expected
=============================================================================

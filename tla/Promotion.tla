------------------------------- MODULE Promotion -------------------------------
(***************************************************************************)
(* From live evidence to a running router: provider-conformance-matrix      *)
(* probes the configured pairs one after the other and writes its artifact, *)
(* provider-promotion-gate (src/src/promotion.rs) judges the artifact        *)
(* against the configuration of the moment, and a router that starts with it *)
(* (src/src/config.rs) loads what it verifies.                              *)
(*                                                                         *)
(* Each of the three is a process that reads the configuration file anew;   *)
(* the file is edited, providers change and time passes between any two of   *)
(* their steps, and the artifact may be an older one, cut or pasted together. *)
(***************************************************************************)
EXTENDS Conformance

CONSTANTS
  MaxAge,          \* --max-age-seconds
  Runs,            \* bound on the matrices that are run
  Edits,           \* bound on the edits of configuration and artifact
  MaxTime          \* bound on the clock

ASSUME PromotionAssumption == MaxAge \in Nat \ {0} /\ Runs \in Nat /\ Edits \in Nat /\ MaxTime \in Nat

None == [schema |-> 2, at |-> 0, print |-> <<>>, reports |-> <<>>]

VARIABLES
  now, config, runs, edits,
  run,        \* the matrix under way: config as read, artifact so far
  artifact,   \* the artifact file, None before the first
  verdict,    \* of the last gate, or the last router that started: by which,
              \* what it read, and whether it passed
  shown       \* history: <<config, pair, probe, flaws, time>> of good live probes

promotionVars == <<now, config, runs, edits, run, artifact, verdict, shown>>

Any == CHOOSE c \in Configs : TRUE
Idle == [busy |-> FALSE, config |-> Any, todo |-> {}, file |-> None]
NoVerdict ==
  [by |-> "none", pass |-> FALSE, config |-> Any, print |-> <<>>, at |-> 0, versions |-> FALSE,
   artifact |-> None]

PromotionInit ==
  /\ now = 0 /\ config \in Configs /\ runs = 0 /\ edits = 0
  /\ run = Idle /\ artifact = None /\ verdict = NoVerdict
  /\ shown = {}
-----------------------------------------------------------------------------
\* run_provider_conformance_matrix reads the configuration and the clock first.
BeginMatrix ==
  /\ ~run.busy /\ runs < Runs /\ runs' = runs + 1
  /\ \E order \in Order[config] :
       run' = [busy |-> TRUE, config |-> config, todo |-> config.models,
               file |-> [schema |-> 2, at |-> now, print |-> Fingerprint(config, order),
                        reports |-> <<>>]]
  /\ UNCHANGED <<now, config, edits, artifact, verdict, shown>>

\* The flaws are those of the chat answer.
Had(g, flaws) == IF g = "chat" THEN flaws ELSE {}

\* The next pair: what its provider answers now.
ProbePair ==
  /\ run.busy /\ run.todo # {}
  /\ LET m == CHOOSE n \in run.todo : TRUE IN
     \E good \in SUBSET Probes(run.config, m), versions \in BOOLEAN, flaws \in SUBSET Flaws :
       /\ flaws # {} => "chat" \in good
       /\ run' = [run EXCEPT
                    !.todo = @ \ {m},
                    !.file.reports = Append(@, PairReport(run.config, m, good, flaws, versions))]
       /\ shown' = shown \cup {<<run.config, m, g, Had(g, flaws), now>> : g \in good}
  /\ UNCHANGED <<now, config, runs, edits, artifact, verdict>>

\* The artifact is written whole when the last pair is done.
EndMatrix ==
  /\ run.busy /\ run.todo = {}
  /\ artifact' = run.file /\ run' = Idle
  /\ UNCHANGED <<now, config, runs, edits, verdict, shown>>

\* Mutant: the configuration of the artifact is not looked at.
FreshEvidence_AnyConfig(file, print, t) == t >= file.at /\ t - file.at <= MaxAge

\* Mutant: evidence is stale as soon as it has the maximum age.
FreshEvidence_Strict(file, print, t) == t >= file.at /\ t - file.at < MaxAge /\ file.print = print

\* evaluate_provider_promotion_gate, before it looks at pairs; an artifact from
\* the future is infinitely old.
FreshEvidence(file, print, t) ==
  /\ t >= file.at /\ t - file.at <= MaxAge
  /\ file.print = print

\* chat_check, endpoint_check
EndpointChecks(c, m, r) == \A e \in Configured(c, m) : e \in r.configured /\ e \in r.valid

\* The features that the pair advertises to the gate.
Advertised(c, m) ==
  {f \in c.supports[m] \cap ChatFeatures : "chat" \in Configured(c, m)}
    \cup {f \in {"streaming"} \cap c.adapter[m] : "chat" \in Configured(c, m)}
    \cup {f \in {"audio"} \cap c.supports[m] : Configured(c, m) \cap AudioEndpoints # {}}

\* feature_check
FeatureChecks(c, m, r) ==
  Advertised(c, m) \subseteq r.declared \cap r.attempted \cap r.passing

\* evaluate_provider_promotion_gate, for a pair.
PairPasses(c, m, r, versions) ==
  /\ r.pass
  /\ versions => r.versions
  /\ EndpointChecks(c, m, r) /\ FeatureChecks(c, m, r)

\* evaluate_provider_promotion_gate: no failure.
Passes(c, print, file, t, versions) ==
  /\ file.schema = 2
  /\ FreshEvidence(file, print, t)
  /\ ~Duplicated(file.reports)
  /\ Pairs(file.reports) = c.models
  /\ \A m \in c.models : PairPasses(c, m, ReportOf(file.reports, m), versions)

\* provider-promotion-gate, with and without --allow-unreported-versions.
Gate ==
  /\ artifact # None
  /\ \E order \in Order[config], versions \in BOOLEAN :
       verdict' = [by |-> "gate", config |-> config, print |-> Fingerprint(config, order),
                   at |-> now, versions |-> versions,
                   pass |-> Passes(config, Fingerprint(config, order), artifact, now, versions),
                   artifact |-> artifact]
  /\ UNCHANGED <<now, config, runs, edits, run, artifact, shown>>

\* serve with runtime.provider_conformance_artifact.
Start ==
  /\ artifact # None
  /\ verdict' = [by |-> "start", config |-> config, print |-> <<>>, at |-> now, versions |-> FALSE,
                 pass |-> Loads(config, artifact.schema, artifact.reports),
                 artifact |-> artifact]
  /\ UNCHANGED <<now, config, runs, edits, run, artifact, shown>>

\* Somebody edits the configuration, or puts another artifact: with a report
\* less, with one twice, or of the older schema.
Edit ==
  /\ edits < Edits /\ edits' = edits + 1
  /\ \/ \E c \in Configs \ {config} : config' = c /\ UNCHANGED artifact
     \/ /\ artifact.reports # <<>>
        /\ \/ artifact' = [artifact EXCEPT !.reports = Tail(@)]
           \/ artifact' = [artifact EXCEPT !.reports = Append(@, Head(@))]
           \/ artifact' = [artifact EXCEPT !.schema = 1]
        /\ UNCHANGED config
  /\ UNCHANGED <<now, runs, run, verdict, shown>>

TimePasses ==
  /\ now < MaxTime /\ now' = now + 1
  /\ UNCHANGED <<config, runs, edits, run, artifact, verdict, shown>>

PromotionNext ==
  \/ BeginMatrix \/ ProbePair \/ EndMatrix
  \/ Gate \/ Start \/ Edit \/ TimePasses

PromotionSpec == PromotionInit /\ [][PromotionNext]_promotionVars
-----------------------------------------------------------------------------
\* The types of the variables, as far as they are not data of a report.
PromotionTypeOK ==
  /\ now \in 0 .. MaxTime /\ runs \in 0 .. Runs /\ edits \in 0 .. Edits
  /\ config \in Configs /\ run.config \in Configs /\ verdict.config \in Configs
  /\ run.todo \subseteq run.config.models
  /\ \A i \in DOMAIN artifact.reports : artifact.reports[i] \in Report

\* What a pair promises: its endpoints, and its features but audio, which its
\* audio endpoints show.
Promises(c, m) == Configured(c, m) \cup (Advertised(c, m) \ {"audio"})

\* docs/live-evidence.md:7-14.  A gate that passes vouches for the present
\* configuration: each thing a pair advertises was asked of its provider live,
\* under that configuration and not longer ago than MaxAge, and the answer was
\* good and without a flaw.  Nothing skipped, stale, pasted together or from
\* before an edit counts.
PromotedIsLive ==
  verdict.by = "gate" /\ verdict.pass =>
    \A m \in verdict.config.models : \A p \in Promises(verdict.config, m) :
      \E t \in 0 .. verdict.at :
        <<verdict.config, m, p, {}, t>> \in shown /\ verdict.at - t <= MaxAge

\* Some probe showed the endpoint good, with no flaws but these.
ShownBut(m, e, flaws) ==
  \E old \in Configs, t \in 0 .. now, had \in SUBSET flaws : <<old, m, e, had, t>> \in shown

\* The flaws that the loader overlooks.
Overlooked(schema) == IF schema = 1 THEN Flaws ELSE {"type"}

\* A router that started with an artifact declares no endpoint that a live probe
\* did not show: the provider answered it, live, and as it should; only the
\* content type of chat may have been wrong, and in an artifact of schema 1 its
\* usage missing.  (That the matrix passed the entry, as docs/usage.md:382 has it, is
\* more: see FailedEntryLoads of MCPromotion.)
StartedIsShown ==
  verdict.by = "start" /\ verdict.pass =>
    \A m \in verdict.config.models : \A e \in verdict.config.declares[m] :
      ShownBut(m, e, Overlooked(verdict.artifact.schema))

\* The evidence of a gate has none of the faults that docs/live-evidence.md names,
\* but for its fingerprint.
Faultless(v) ==
  LET reports == v.artifact.reports IN
  /\ v.by = "gate" /\ v.artifact # None /\ v.artifact.schema = 2
  /\ v.at - v.artifact.at <= MaxAge
  /\ ~Duplicated(reports) /\ Pairs(reports) = v.config.models
  /\ \A i \in DOMAIN reports : reports[i].pass /\ (v.versions => reports[i].versions)

\* And a gate refuses nothing else: evidence with the fingerprint that the gate
\* computes, fresh, complete and passing, is promoted.  What the matrix passed
\* under a configuration has all that the gate asks of it under that one.
SamePrintIsPromoted ==
  Faultless(verdict) /\ verdict.artifact.print = verdict.print => verdict.pass

\* docs/live-evidence.md:18, "Provider failures therefore block promotion until
\* the config removes that eligibility or a fresh run passes": a fresh run of the
\* very configuration, complete and passing, is promoted.  The code refuses it
\* when the maps of the configuration iterate in another order than for the matrix.
FaultlessIsPromoted ==
  Faultless(verdict) /\ verdict.artifact.print[1] = verdict.config => verdict.pass
=============================================================================

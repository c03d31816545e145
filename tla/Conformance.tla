------------------------------ MODULE Conformance ------------------------------
(***************************************************************************)
(* src/src/conformance.rs: what a live matrix of a configuration probes and *)
(* reports, and what src/src/config.rs makes of such an artifact when a      *)
(* router starts.  No state.                                                *)
(*                                                                         *)
(* An answer of a provider is good or not, drawn anew at each probe: its      *)
(* status, shape and content are one Boolean.  A good chat answer may still    *)
(* have flaws, which the readers of a report do not all look for.  That a      *)
(* validator rejects its malformed fixture depends on the code alone.        *)
(***************************************************************************)
EXTENDS Naturals, Sequences, FiniteSets

CONSTANTS
  Models,          \* configured pairs: a model and its provider
  Configs,         \* configurations, see Config
  Order            \* Order[c]: the orders in which its maps may be written

Endpoints == {"chat", "responses", "embeddings", "images", "speech",
              "audio_transcriptions", "audio_translations"}
AudioEndpoints == {"speech", "audio_transcriptions", "audio_translations"}
ChatFeatures == {"streaming", "tools", "json", "vision"}
Features == ChatFeatures \cup {"audio"}

\* What a chat answer may have against it that is else in order: its content
\* type is not JSON; it does not account for its usage.
Flaws == {"type", "usage"}

\* models; the endpoints their providers have paths for and those they declare;
\* the features the models declare and those their adapters support.
Config ==
  [models : SUBSET Models,
   paths : [Models -> SUBSET Endpoints], declares : [Models -> SUBSET Endpoints],
   supports : [Models -> SUBSET (Features \ {"streaming"})],
   adapter : [Models -> SUBSET Features]]

\* validate_core (config.rs:1021-1031): no model declares what its adapter cannot
\* preserve.
ASSUME ConformanceAssumption ==
  /\ IsFiniteSet(Models) /\ Configs \subseteq Config
  /\ \A c \in Configs : Order[c] # {}
  /\ \A c \in Configs : \A m \in c.models : c.supports[m] \subseteq c.adapter[m]

\* endpoint_configured
Configured(c, m) == c.paths[m] \cap c.declares[m]

\* config_fingerprint: the maps of the configuration (HashMap in config.rs and
\* types.rs) are written in the order in which they happen to iterate.
Fingerprint(c, order) == <<c, order>>

\* run_feature_conformance, run_declared_chat_feature: what is declared, and
\* what of it is attempted.
DeclaredFeatures(c, m) ==
  (c.supports[m] \cap ChatFeatures) \cup ({"streaming"} \cap c.adapter[m])
    \cup {f \in {"audio"} : "audio" \in c.supports[m] \/ Configured(c, m) \cap AudioEndpoints # {}}
AttemptedFeatures(c, m) ==
  {f \in ChatFeatures \cap DeclaredFeatures(c, m) : "chat" \in Configured(c, m) /\ f \in c.adapter[m]}
    \cup {f \in {"audio"} : Configured(c, m) \cap AudioEndpoints # {}}

\* The probes of a pair; the audio feature is what its endpoints showed.
Probes(c, m) == Configured(c, m) \cup (AttemptedFeatures(c, m) \ {"audio"})

\* shaped and valid: the endpoints whose answers were what readers of schema 1
\* and of schema 2 ask for.
Report ==
  [model : Models, configured : SUBSET Endpoints,
   shaped : SUBSET Endpoints, valid : SUBSET Endpoints,
   declared : SUBSET Features, attempted : SUBSET Features, passing : SUBSET Features,
   versions : BOOLEAN, pass : BOOLEAN]

\* endpoint_result: one that is not configured passes, and is not valid.
EndpointPasses(e, configured, good) == e \in configured => e \in good

\* ChatConformance::pass: the matrix passes a chat answer only without a flaw.
ChatPasses(configured, good, flaws) ==
  "chat" \in configured => "chat" \in good /\ flaws = {}

\* run_feature_conformance: one that is not attempted passes.
PassingFeatures(c, m, good) ==
  {f \in Features :
     f \in AttemptedFeatures(c, m) =>
       IF f = "audio" THEN \A e \in AudioEndpoints : EndpointPasses(e, Configured(c, m), good)
                      ELSE f \in good}

\* run_provider_conformance_for_model: good probes, flaws of the chat answer,
\* versions in it.
PairReport(c, m, good, flaws, versions) ==
  [model |-> m,
   configured |-> Configured(c, m),
   shaped |-> Configured(c, m) \cap good,
   valid |-> (Configured(c, m) \cap good) \ {e \in {"chat"} : "usage" \in flaws},
   declared |-> DeclaredFeatures(c, m), attempted |-> AttemptedFeatures(c, m),
   passing |-> PassingFeatures(c, m, good),
   versions |-> versions /\ "chat" \in Configured(c, m),
   pass |-> /\ ChatPasses(Configured(c, m), good, flaws)
            /\ \A e \in Endpoints : EndpointPasses(e, Configured(c, m), good)
            /\ AttemptedFeatures(c, m) \subseteq PassingFeatures(c, m, good)]

Pairs(reports) == {reports[i].model : i \in DOMAIN reports}
Duplicated(reports) == Cardinality(Pairs(reports)) # Len(reports)
\* HashMap::insert: the last report of a pair stands.
ReportOf(reports, m) ==
  reports[CHOOSE i \in DOMAIN reports :
            /\ reports[i].model = m
            /\ \A j \in DOMAIN reports : reports[j].model = m => j <= i]

\* Mutant: an endpoint that was skipped counts as verified, because it passes.
Verified_PassOnly(schema, report) ==
  {e \in Endpoints : EndpointPasses(e, report.configured, report.valid)}

\* load_verified_endpoint_catalog: the endpoints that count as verified.  It
\* looks neither at the content type of chat nor at the pass of the report, and
\* in schema 1 not at the usage of chat.
Verified(schema, report) ==
  report.configured \cap (IF schema = 1 THEN report.shaped ELSE report.valid)

\* validate_conformance_artifact: the artifact must have verified every endpoint
\* that a model declares.
Loads(c, schema, reports) ==
  /\ ~Duplicated(reports)
  /\ c.models \subseteq Pairs(reports)
  /\ \A m \in c.models : c.declares[m] \subseteq Verified(schema, ReportOf(reports, m))
=============================================================================

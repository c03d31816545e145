----------------------------- MODULE MCPromotion -----------------------------
(* Two pairs, of which b speaks only to audio endpoints; and four edits of the *)
(* configuration c1: a declares one more endpoint, b is no longer there, the    *)
(* provider of b has lost a path, and a has a kind of provider that streams and *)
(* supports tools.                                                             *)
EXTENDS Promotion, MCQuality

CONSTANTS a, b

Small(m, x, y) == [n \in Models |-> IF n = m THEN x ELSE y]
c1 == [models |-> {a, b},
       paths |-> Small(a, {"chat", "embeddings"}, {"speech", "embeddings"}),
       declares |-> Small(a, {"chat"}, {"speech"}),
       supports |-> Small(a, {}, {"audio"}),
       adapter |-> Small(a, {}, {"audio"})]
MCConfigs ==
  {c1, [c1 EXCEPT !.declares[a] = @ \cup {"embeddings"}], [c1 EXCEPT !.models = {a}],
   [c1 EXCEPT !.paths[b] = {}],
   [c1 EXCEPT !.supports[a] = {"tools"}, !.adapter[a] = {"streaming", "tools"}]}

\* Two processes may write the maps of c1 in different orders; those of the others
\* have one entry each, or happen to come in the same order.
TwoOrders == [c \in MCConfigs |-> IF c = c1 THEN {1, 2} ELSE {1}]

\* Not so docs/usage.md:382, by which every declared endpoint must have a passing
\* matrix entry: the loader takes a chat answer whose content type is not JSON, for
\* which the matrix fails the entry, whatever the schema of the artifact.
ASSUME FailedEntryLoads ==
  LET only == [c1 EXCEPT !.models = {a}]
      report == PairReport(only, a, {"chat"}, {"type"}, TRUE)
  IN  ~report.pass /\ \A schema \in {1, 2} : Loads(only, schema, <<report>>)
=============================================================================

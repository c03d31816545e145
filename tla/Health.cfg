SPECIFICATION FairSpec
CONSTANTS
  Providers = {p, q}
  Checkers = {sampler, s1}
  Sampler = sampler
  Routed = {p, q}
  Unprobed = {q}
  Threshold = 1
  OpenSecs = 2
  Ttl = 2
  ProbeSecs = 1
  MaxChecks = 1
INVARIANTS SoleProbe PenaltyMatchesCircuit
PROPERTIES Recovers HalfOpenResolves

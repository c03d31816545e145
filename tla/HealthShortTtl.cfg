SPECIFICATION FairSpec
CONSTANTS
  Providers = {p}
  Checkers = {sampler}
  Sampler = sampler
  Routed = {}
  Unprobed = {}
  Threshold = 1
  OpenSecs = 3
  Ttl = 1
  ProbeSecs = 1
  MaxChecks = 1
PROPERTIES Recovers

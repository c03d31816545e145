SPECIFICATION Spec
CONSTANTS
  Local = Local
  Large = Large
  Mini = Mini
  LocalAlias = LocalAlias
  Gone = Gone
  Native = Native
  Remote = Remote
  NoModel = NoModel
  Models <- MCModels
  Providers <- MCProviders
  Handles <- MCHandles
  Find <- MCFind
  Rank <- MCRank
  ProviderOf <- MCProviderOf
  Capabilities <- MCCapabilities
  Caps <- MCCaps
  AdapterCaps <- MCAdapterCaps
  Window <- MCWindow
  MaxTokens = 7
  Inputs <- MCInputs
  ModelEndpoints <- MCModelEndpoints
  ProviderEndpoints <- MCProviderEndpoints
  Features <- MCFeatures
  Accepts <- MCAccepts
  Action <- MCAction
  ForceModel = LocalAlias
  DefaultModel = Large
  Prompts <- MCPrompts
  Redacted <- MCRedacted
  SafetyLabel <- MCSafetyLabel
  Opinions <- MCOpinions
  Penalties <- MCPenalties
  ExclusionPenalty <- Exclusion
INVARIANTS PlanServes NoneForgotten BestFirst AsAsked

CONSTANTS
  agent = agent
  helper = helper
  pA = pA
  pB = pB
  a1 = a1
  a2 = a2
  b1 = b1
  r1 = r1
  r2 = r2
  Agents = {agent, helper}
  Providers = {pA, pB}
  Profiles = {a1, a2, b1}
  ProviderOf <- MCProviderOf
  ChainOf <- MCChainOf
  Runs = {r1, r2}
  AgentOf <- MCSame
  KindOf <- MCTaskKinds
  Streaming = {}
  CloseErrors = {"retryable"}
  MaxReloads = 1
SPECIFICATION Spec
CHECK_DEADLOCK FALSE
INVARIANTS
  DiagnosticsMatchMetrics
PROPERTIES
  ImplementsAccounting
  EveryRunEnds

SPECIFICATION AgentSpec
CONSTANTS
  v1 = v1  v2 = v2
  c1 = c1  c2 = c2
  Missing = Missing  Torn = Torn
  Versions = {v1, v2}
  Configs = {c1}
  Works <- V1Only
  Flaps <- NoPairs
  Deployed <- MCDeployed
  MaxFaults = 0
  MaxCrashes = 1
  HasToken = TRUE
INVARIANTS
  GoodCopyKept

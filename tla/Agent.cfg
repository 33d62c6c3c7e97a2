SPECIFICATION AgentFairSpec
CONSTANTS
  v1 = v1  v2 = v2
  c1 = c1  c2 = c2
  Missing = Missing  Torn = Torn
  Versions = {v1, v2}
  Configs = {c1, c2}
  Works <- V2WithC2
  Flaps <- V2FlapsC1
  Deployed <- MCDeployed
  MaxFaults = 1
  MaxCrashes = 1
  HasToken = TRUE
INVARIANTS
  AgentTypeOK
  DisplayPreserved
  MarkerIsTrue
  BlacklistIsEarned
PROPERTIES
  OnlyCompleteFreshReleases
  UsesUpdaterAsSpecified
  Settles
  ConfigSettles

SPECIFICATION FairSpec
CONSTANTS
  v1 = v1  v2 = v2  v3 = v3
  c1 = c1  c2 = c2  c3 = c3
  Missing = Missing  Torn = Torn
  Versions = {v1, v2, v3}
  Configs = {c1, c2, c3}
  Works <- MCWorks
  Flaps <- V3FlapsC1
  Deployed <- MCDeployed
  MaxFaults = 2
  MaxCrashes = 1
INVARIANTS
  TypeOK
  OldContentKept
  FailedCallRestores
  DisplayPreserved
  RunsWhatIsInstalled
PROPERTIES
  DisplayComesBack

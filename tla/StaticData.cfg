SPECIFICATION FairSpec
CONSTANTS
  NoCache = NoCache
  Torn = Torn
  s1 = s1
  s2 = s2
  Interval = 3
  Retry = 2
  Download = 1
  Day = 8
  Active = {0, 1, 2, 3, 4, 5, 6}
  Stops = {s1, s2}
  MaxEdition = 3
  MaxCrashes = 2
INVARIANTS
  TypeOK
  RightDataset
  CacheHoldsDataset
  AttemptsKeepComing
PROPERTIES
  AwakeHoursAreSpared
  CatchesUp

SPECIFICATION FairSpec
CONSTANTS
  PollInterval = 2
  PollTimeout = 1
  StaleFloor = 20
  WatchdogLimit = 60
  WatchdogMin = 2
  BackoffMax = 120
  RestartDelay = 1
  CountMax = 7
  MissMax = 5
  Faults = {"wedge", "hang", "crash"}
  MaxFaults = 1
INVARIANTS
  TypeOK
  StalenessBounded
PROPERTIES
  AlarmsMeanMissedPolls
  RecoversWhenFeedDoes

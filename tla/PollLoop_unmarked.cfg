SPECIFICATION Spec
CONSTANTS
  PollInterval = 2
  PollTimeout = 1
  StaleFloor = 20
  WatchdogLimit = 60
  WatchdogMin = 2
  BackoffMax = 120
  RestartDelay = 1
  CountMax = 7
  MissMax = 5
  Faults = {}
  MaxFaults = 0
PROPERTIES
  OutageStaysMarked

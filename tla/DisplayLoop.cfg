SPECIFICATION FairSpec
CONSTANTS
  NumStops = 4
  Width = 1024
  Height = 600
  Minute = 2
  DayMinutes = 6
  RefreshInterval = 2
  PageInterval = 1
  Configs <- MCConfigs
  Lists <- MCLists
  Longest = 5
  PageCycle = 6
  Jumps <- MCJumps
  MaxStall = 1
  MaxEvents = 1
INVARIANTS
  TypeOK
  PanelFollowsSchedule
  FrameIsFresh
PROPERTIES
  ScheduleHeals
  ArrivalsComeRound

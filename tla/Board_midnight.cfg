SPECIFICATION Spec
CONSTANTS
  PerHour = 2
  StopNumbers = {"s1", "s2"}
  Filter = {"s1"}
  Editions <- OneEdition
  Queries <- OnePage
  Feeds <- NoFeeds
  Start = 48
  End = 120
  MaxPolls = 0
PROPERTIES
  NoBusVanishes
CHECK_DEADLOCK FALSE

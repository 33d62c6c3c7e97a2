SPECIFICATION Spec
CONSTANTS
  PerHour = 2
  StopNumbers = {"s1", "s2"}
  Filter = {"s1"}
  Editions <- MCEditions
  Queries <- MCQueries
  Feeds <- MCFeeds
  Start = 48
  End = 168
  MaxPolls = 2
INVARIANTS
  TypeOK
  ShowsWhatIsDue
  ShowsOnlyWhatIsDue
  LastAdditionShown
CHECK_DEADLOCK FALSE

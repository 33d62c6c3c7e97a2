SPECIFICATION FairSpec
CONSTANTS
  render = render  watchdog = watchdog  poller = poller
  t1 = t1  k1 = k1
  Trips = {t1}
  Readers = {render, watchdog}
  Window = 2
  MaxPolls = 3
  Poller = poller
  Drawing = {render}
  Keys = {k1}
INVARIANTS
  TypeOK
PROPERTIES
  KeepsPromise
  SnapshotsGoForward
  CancelledStaysCancelled
  CallsReturn

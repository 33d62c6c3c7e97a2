-------------------------------- MODULE Feed --------------------------------
(***************************************************************************)
(* The cancellations of a realtime feed and how one parse carries them to  *)
(* the next (src/gtfs/realtime.go).  Time is counted in polls: a poll, the *)
(* feed it fetches and the moment it ends have the number of the poll, and *)
(* 24 hours are Window polls.  0 is "never", as the zero time is in Go.    *)
(***************************************************************************)
EXTENDS Integers

CONSTANTS
  Trips,      \* trips a feed may cancel
  Readers,    \* goroutines that read the store: the render loop, the watchdog
  Window,     \* how long a cancellation holds, in polls
  MaxPolls    \* bound on the polls of a behaviour

ASSUME FeedAssumption == Window \in Nat \ {0} /\ MaxPolls \in Nat

Polls == 0..MaxPolls
NoCancels == [t \in Trips |-> 0]

InForce(time, now) == time # 0 /\ now - time < Window

\* Mutants of Carry and Record: nothing is carried, the feed's time runs ahead.
CarryNothing(cancels, now) == [t \in Trips |-> 0]
RecordAhead(cancels, cancelled, feedTime) ==
  [t \in Trips |-> IF t \in cancelled THEN feedTime + 1 ELSE cancels[t]]

\* A new parse starts from the old cancellations still in force ...
Carry(cancels, now) == [t \in Trips |-> IF InForce(cancels[t], now) THEN cancels[t] ELSE 0]

\* ... and records those of the feed at the feed's own time.
Record(cancels, cancelled, feedTime) ==
  [t \in Trips |-> IF t \in cancelled THEN feedTime ELSE cancels[t]]

=============================================================================

------------------------------ MODULE PollLoop ------------------------------
(***************************************************************************)
(* The goroutines of tfi-display that keep the board live or give it up:   *)
(* the poller with its ticker and its back-off, the watchdog, the render   *)
(* loop's stale marker, and systemd's restart (src/main.go,                *)
(* src/gtfs/realtime.go, src/display/renderer.go).                         *)
(*                                                                         *)
(* Time is a count of equal ticks.  A tick passes only when nothing is     *)
(* due: goroutines are scheduled, and frames drawn, well within a tick.    *)
(***************************************************************************)
EXTENDS Integers

CONSTANTS
  PollInterval,     \* poll_interval_seconds, in ticks
  PollTimeout,      \* rtTimeout
  StaleFloor,       \* staleThreshold's floor
  WatchdogLimit,    \* feed_watchdog_seconds
  WatchdogMin,      \* watchdogCheckInterval's minimum
  BackoffMax,       \* BackoffDuration's maximum
  RestartDelay,     \* RestartSec of tfi-display.service
  CountMax,         \* bound on rateLimitCount: the duration is the same above it
  MissMax,          \* bound on the count of missed polls
  Faults,           \* what may go wrong inside the process: "wedge", "hang", "crash"
  MaxFaults         \* bound on how often

Pow2[n \in Nat] == IF n = 0 THEN 1 ELSE 2 * Pow2[n - 1]

ASSUME PollAssumption ==
  /\ PollInterval \in Nat \ {0} /\ WatchdogLimit \in Nat \ {0} /\ WatchdogMin \in Nat \ {0}
  /\ PollTimeout \in Nat /\ StaleFloor \in Nat /\ BackoffMax \in Nat /\ RestartDelay \in Nat
  /\ CountMax \in Nat \ {0} /\ PollInterval * Pow2[CountMax - 1] >= BackoffMax
  /\ MissMax \in Nat \ {0} /\ MaxFaults \in Nat

VARIABLES
  phase,      \* what the poller is doing, or that the process is down
  left,       \* ticks until the sleep, the time-out or the restart it waits for
  nextTick,   \* ticks until the poller's ticker fires
  tickReady,  \* the one tick that a ticker's channel holds
  answer,     \* what the feed answers to the poll under way, or answered to the last
  count,      \* rateLimitCount
  polled,     \* PollTime() is not zero
  age,        \* ticks since lastOrStart
  checkIn,    \* ticks until the watchdog's next check
  tripped,    \* the watchdog has decided to exit
  driver,     \* "works", or "hangs": it no longer accepts frames
  marked,     \* the frame on the display says "! STALE"
  missed,     \* history: polls missed in a row, across restarts
  faults      \* what went wrong so far

poller == <<phase, left, nextTick, tickReady, answer, count>>
watchdog == <<checkIn, tripped>>
screen == <<driver, marked>>
vars == <<poller, polled, age, watchdog, screen, missed, faults>>

Answers == {"ok", "junk", "limited", "fails"}
Running == phase \notin {"down", "startup"}

\* Mutants: the marker forgets the ten missed polls; the back-off as the log line
\* has it, two to the count.
OneMissedPoll(interval) == interval
BackoffAsLogged(n) ==
  IF n = 0 THEN 0
  ELSE IF PollInterval * Pow2[n] > BackoffMax THEN BackoffMax ELSE PollInterval * Pow2[n]

StaleThreshold(interval) == IF 10 * interval > StaleFloor THEN 10 * interval ELSE StaleFloor

WatchdogCheckInterval ==
  IF WatchdogLimit \div 4 > WatchdogMin THEN WatchdogLimit \div 4 ELSE WatchdogMin

BackoffDuration(n) ==
  IF n = 0 THEN 0
  ELSE IF PollInterval * Pow2[n - 1] > BackoffMax THEN BackoffMax ELSE PollInterval * Pow2[n - 1]

\* age counts no further: beyond it every comparison of the code comes out the same.
AgeMax == WatchdogLimit + WatchdogCheckInterval + StaleThreshold(PollInterval) + 1

FeedIsStale == age > WatchdogLimit
IsStale == polled /\ age > StaleThreshold(PollInterval)

Init ==
  /\ phase = "down" /\ left = 0
  /\ nextTick = PollInterval /\ tickReady = FALSE
  /\ answer = "ok" /\ count = 0
  /\ polled = FALSE /\ age = 0
  /\ checkIn = WatchdogCheckInterval /\ tripped = FALSE
  /\ driver = "works" /\ marked = FALSE
  /\ missed = 0 /\ faults = 0

-----------------------------------------------------------------------------
\* The poller

\* A request is sent; the answer comes within PollTimeout.
SendRequest(p) ==
  /\ phase' = p /\ left' = PollTimeout
  /\ answer' \in Answers

\* rateLimitCount after a poll: only a 429 adds to it, only a body resets it.
CountAfter(a) ==
  IF a = "limited" THEN (IF count < CountMax THEN count + 1 ELSE count)
  ELSE IF a = "fails" THEN count
  ELSE 0

\* What the answer leaves behind.  start is when lastOrStart begins if no poll ever
\* succeeded: now for the initial poll, after which the watchdog takes its start time.
Answered(start) ==
  /\ count' = CountAfter(answer)
  /\ polled' = (polled \/ answer = "ok")
  /\ age' = IF answer = "ok" \/ start THEN 0 ELSE age
  /\ missed' = IF answer = "ok" THEN 0 ELSE IF missed < MissMax THEN missed + 1 ELSE missed

NextPoll ==
  /\ phase = "waiting" /\ tickReady
  /\ tickReady' = FALSE
  /\ IF count = 0
     THEN SendRequest("fetching")
     ELSE phase' = "backoff" /\ left' = BackoffDuration(count) /\ answer' = answer
  /\ UNCHANGED <<nextTick, count, polled, age, watchdog, screen, missed, faults>>

BackoffEnds ==
  /\ phase = "backoff" /\ left = 0
  /\ SendRequest("fetching")
  /\ UNCHANGED <<nextTick, tickReady, count, polled, age, watchdog, screen, missed, faults>>

PollEnds ==
  /\ phase = "fetching"
  /\ phase' = "waiting" /\ left' = 0
  /\ Answered(FALSE)
  /\ UNCHANGED <<nextTick, tickReady, answer, watchdog, screen, faults>>

-----------------------------------------------------------------------------
\* Starting, the watchdog and the render loop

\* systemd starts the process again; main makes the first poll itself.
Start ==
  /\ phase = "down" /\ left = 0
  /\ SendRequest("startup")
  /\ driver' = "works"
  /\ count' = 0 /\ polled' = FALSE /\ age' = 0
  /\ UNCHANGED <<nextTick, tickReady, watchdog, marked, missed, faults>>

\* Then it starts the tickers, the poller and the watchdog.
InitialPollEnds ==
  /\ phase = "startup"
  /\ phase' = "waiting" /\ left' = 0
  /\ Answered(TRUE)
  /\ nextTick' = PollInterval /\ tickReady' = FALSE
  /\ checkIn' = WatchdogCheckInterval
  /\ UNCHANGED <<answer, tripped, screen, faults>>

Down ==
  /\ phase' = "down" /\ left' = RestartDelay
  /\ tripped' = FALSE
  /\ UNCHANGED <<nextTick, tickReady, answer, count, polled, age, checkIn, screen, missed>>

\* Mutant of WatchdogChecks: it reports, and does not exit.
WatchdogOnlyLogs ==
  /\ Running /\ checkIn = 0
  /\ checkIn' = WatchdogCheckInterval
  /\ UNCHANGED <<poller, polled, age, tripped, screen, missed, faults>>

WatchdogChecks ==
  /\ Running /\ ~tripped /\ checkIn = 0
  /\ IF FeedIsStale
     THEN tripped' = TRUE /\ checkIn' = checkIn
     ELSE tripped' = FALSE /\ checkIn' = WatchdogCheckInterval
  /\ UNCHANGED <<poller, polled, age, screen, missed, faults>>

\* It gives the remote log a moment, and does not look at the feed again.
WatchdogExits ==
  /\ tripped
  /\ Down
  /\ UNCHANGED faults

Render ==
  /\ Running /\ driver = "works" /\ marked # IsStale
  /\ marked' = IsStale
  /\ UNCHANGED <<poller, polled, age, watchdog, driver, missed, faults>>

-----------------------------------------------------------------------------
\* The environment

\* The poller never comes back from a poll: every poll from here on is missed.
PollerWedges ==
  /\ "wedge" \in Faults /\ phase = "fetching" /\ faults < MaxFaults
  /\ phase' = "wedged" /\ left' = 0
  /\ missed' = MissMax /\ faults' = faults + 1
  /\ UNCHANGED <<nextTick, tickReady, answer, count, polled, age, watchdog, screen>>

\* The render loop never comes back from the driver.
DriverHangs ==
  /\ "hang" \in Faults /\ Running /\ driver = "works" /\ faults < MaxFaults
  /\ driver' = "hangs" /\ faults' = faults + 1
  /\ UNCHANGED <<poller, polled, age, watchdog, marked, missed>>

Crash ==
  /\ "crash" \in Faults /\ phase # "down" /\ faults < MaxFaults
  /\ Down
  /\ faults' = faults + 1

\* Something is due, and happens before time goes on.
Due ==
  \/ phase = "waiting" /\ tickReady
  \/ phase \in {"backoff", "fetching", "startup", "down"} /\ left = 0
  \/ Running /\ (tripped \/ checkIn = 0)
  \/ Running /\ driver = "works" /\ marked # IsStale

Less(n) == IF n > 0 THEN n - 1 ELSE n

\* The ticker drops the ticks that nobody takes, but for one.
Tick ==
  /\ ~Due
  /\ left' = Less(left)
  /\ IF Running
     THEN /\ age' = (IF age < AgeMax THEN age + 1 ELSE age)
          /\ checkIn' = checkIn - 1
          /\ nextTick' = IF nextTick = 1 THEN PollInterval ELSE nextTick - 1
          /\ tickReady' = (tickReady \/ nextTick = 1)
     ELSE UNCHANGED <<age, checkIn, nextTick, tickReady>>
  /\ UNCHANGED <<phase, answer, count, polled, tripped, screen, missed, faults>>

-----------------------------------------------------------------------------
Program == NextPoll \/ BackoffEnds \/ PollEnds \/ Start \/ InitialPollEnds
           \/ WatchdogChecks \/ WatchdogExits \/ Render

Next == Program \/ PollerWedges \/ DriverHangs \/ Crash \/ Tick

Spec == Init /\ [][Next]_vars

\* Goroutines run, time passes, and systemd starts a service that has Restart=always.
FairSpec ==
  /\ Spec
  /\ WF_vars(NextPoll) /\ WF_vars(BackoffEnds) /\ WF_vars(PollEnds)
  /\ WF_vars(Start) /\ WF_vars(InitialPollEnds)
  /\ WF_vars(WatchdogChecks) /\ WF_vars(WatchdogExits)
  /\ WF_vars(Render) /\ WF_vars(Tick)

-----------------------------------------------------------------------------
\* Every variable keeps its range, and what is waited for is what the phase waits for.
TypeOK ==
  /\ phase \in {"down", "startup", "waiting", "backoff", "fetching", "wedged"}
  /\ left \in Nat
  /\ phase = "backoff" => count > 0 /\ left <= BackoffMax /\ left <= PollInterval * Pow2[count - 1]
  /\ phase \in {"startup", "fetching"} => left <= PollTimeout
  /\ phase = "down" => left <= RestartDelay
  /\ phase \in {"waiting", "wedged"} => left = 0
  /\ nextTick \in 1..PollInterval /\ tickReady \in BOOLEAN
  /\ answer \in Answers /\ count \in 0..CountMax
  /\ polled \in BOOLEAN /\ age \in 0..AgeMax
  /\ checkIn \in 0..WatchdogCheckInterval
  /\ tripped \in BOOLEAN /\ (tripped => Running)
  /\ driver \in {"works", "hangs"} /\ marked \in BOOLEAN
  /\ missed \in 0..MissMax /\ faults \in 0..MaxFaults

\* A process that draws frames never goes without a successful poll for longer than the
\* watchdog's limit and one of its checks, whatever the poller does meanwhile: sleeping
\* out a back-off, waiting for an answer, or never coming back (main.go:198-219).
StalenessBounded == Running => age <= WatchdogLimit + WatchdogCheckInterval

\* "Several consecutive missed polls, not one": the marker goes up only after three
\* missed polls in a row, and the watchdog gives up only after five, even when the
\* back-off makes polls rare (main.go:333-336).
AlarmsMeanMissedPolls ==
  [][/\ marked' /\ ~marked => missed >= 3
     /\ tripped' /\ ~tripped => missed >= 5]_vars

\* Once every poll is answered with a feed, the board is live again for good, unmarked
\* and no older than a poll: after any back-off, crash or wedged poller, on a driver
\* that takes the frames.
RecoversWhenFeedDoes ==
  <>[](answer = "ok" /\ driver # "hangs") =>
    <>[](Running /\ phase # "wedged" /\ ~marked /\ age <= PollInterval + PollTimeout)

\* renderer.go:82-88: a board that stopped receiving live data is marked, which "makes
\* that state self-evident instead of something you deduce days later": only a
\* successful poll takes the marker down.
OutageStaysMarked == [][marked /\ ~marked' => polled]_vars

=============================================================================

# TFI Display: a verification project

TLA+ models, TLC runs and TLAPS proofs for the departure board of this repository: the
`tfi-display` program (`src/main.go`, `src/gtfs`, `src/display`) and the `tfi-agent` that
updates it (`src/agent`, `src/updater`). Every module is translated from the source; what it
leaves out is said below. Source lines are those `PROJECT.json` maps each definition to.

## 1. The system

Two systemd services share a Raspberry Pi. `tfi-agent` polls an update server and replaces the
binary and the configuration of `tfi-display`, which it restarts. `tfi-display` keeps a static
timetable (rebuilt about daily), polls the realtime feed (about once a minute) and draws pages
in the hours that its configuration gives it.

| Component | State | Operations | What makes it correct |
|---|---|---|---|
| update lifecycle (`updater.go`) | the binary, `config.yaml`, a `.prev` copy of each, the service | `Run`, `ApplyConfig`: backup, install, restart, verify, roll back | a failed update leaves the display as it was; the old content is never lost midway; what runs is what is installed |
| update agent (`agent.go`) | staged download, version marker, bad-version list; the position in the cycle | `cycle`: `checkBinary`, then `checkConfig`; reports | only whole releases that are not known to be bad are installed; the marker and the bad list tell the truth; the loop settles |
| live store (`realtime.go`) | delays, cancellations, additions, times, logged diagnostics, an RWMutex | `parse`, `snapshot`, `PollTime`, `DiagLogOnce` | readers see whole parses, in order; a cancellation holds for 24 h; nobody waits for ever |
| poller and watchdog (`main.go`, `realtime.go`) | ticker, `rateLimitCount`, time of the last poll | `Poll`, `BackoffDuration`, watchdog checks, the stale marker | stale data is noticed, by the watchdog within its limit and on the board; a healthy feed ends every outage |
| static data (`static.go`, `main.go`) | the cache file, the dataset served, `lastRefresh` | `LoadOrBuild`, `MaybeRebuild`, the refresher | the dataset is for the right stops, survives a restart and becomes current |
| feed decoder (`realtime_decode.go`) | the maps being built | `decodeFeed` and its handlers | every entity has its effect, in wire order; malformed data has none |
| arrivals query (`arrivals.go`) | none | `QueryArrivals`, `IsServiceActive` | a page shows what is due, and only that |
| display loop (`main.go`, `renderer_hd.go`) | `sleeping`, `page`, three tickers, the panel | render, page turn, sleep, wake, quit | the panel is lit and fresh in its hours and dark outside them; every arrival comes round |
| configuration (`config.go`, `agent.go`) | `config.yaml`, `secrets.yaml` | `LoadWithSecrets`, `loadSettings` | what loads is usable; each program takes what the files say |
| remote log (`remotelog.go`) | a client per program, reports on their way | `Update`, `Log`, `send` | nothing below the level, nothing without a token, nothing waits for it |
| drivers, fonts, HTTP clients, tools | buffers | drawing, I/O | only their failures are modelled (section 8) |

How they interact:

- agent → updater: plain calls, one at a time, and the result is read once. Both work on the
  same files; the service is restarted through `systemctl` and sampled with `is-active`.
- agent ↔ server: `/latest`, `/download`, `/config` and best-effort reports. The operator may
  change any of them at any time.
- poller → store → render loop and watchdog: goroutines that share the store's fields behind
  one RWMutex. The poller's `parse` takes the lock twice and `Poll` a third time.
- refresher → `dbHolder` (an atomic pointer) → poller and render loop.
- watchdog → systemd: the process exits, the service restarts, memory is lost.
- clock, tickers and signals → `select` loop → driver: one goroutine owns the panel; a panel
  that was blanked stays blanked over a restart until someone wakes it.
- the two files → both programs: the display reads them once, the agent at each cycle, and the
  agent's config sync rewrites one of them.

The hard parts: kills between two steps of an update; a service that is up for a moment; copies
that stop half way; one lock and many critical sections; a ticker that holds one tick; a
back-off that makes polls rare while two alarms count minutes; a cache written in place; hour
buckets, midnight, and delays that move a bus from one hour to another; a dataset that is
replaced between a parse and a query; a schedule checked by a ticker against a clock that is
set; one page counter for lists of different lengths. The `hazards` of
`PROJECT.json` list them line by line with the properties that cover them.

## 2. Modules

```
Updater  <- Agent                      MCUpdater, MCAgent          AgentProofs
Feed     <- FeedStore (abstract)                                   FeedStoreProofs
Feed     <- LiveStore (implements it)  MCLiveStore                 LiveStoreProofs
PollLoop                                                           PollLoopProofs
StaticData                             MCStaticData                StaticDataProofs
StaticBuild <- FeedDecode <- Arrivals <- Board   MCBoard           BoardProofs
Layout <- DisplayLoop                  MCDisplayLoop               DisplayLoopProofs
Configuration <- RemoteLog             MCRemoteLog                 RemoteLogProofs
Configuration <- MCDisplayLoop
```

**Updater.** `file` and `prev` hold the content of the two artifacts, `svc` the display process
and the pair it loaded, `op` the call in progress. One action per step of `Run`/`ApplyConfig`;
`copyFile`, which truncates before it writes, is two. A release is characterised by the pairs
(binary, config) that keep running (`Works`) and those that come up and then exit (`Flaps`).
`op.old` is a history field, and so is `svc.flapped`: a pair of `Flaps` has been started. What is
claimed of a quiet device is claimed until then. `here` says that the process executes the very file at the target
path: opening that for writing fails with ETXTBSY, which is what `rollback` meets.

**Agent** extends Updater. Each request, download and state-file write of a cycle is an action;
the agent calls `Run` and `ApplyConfig` and the updater's own steps carry them out.
`doWithRetry` is one request that succeeds, or fails as a fault. Marker writes truncate first. The
two state files may be unreadable in a cycle, which the code takes for a missing marker and for an
empty bad list; `misread` is history: the list of this cycle was not read.

**Feed, FeedStore, LiveStore.** A poll is its number, and a trip's cancellation the poll that
brought it; `Feed` says what a parse makes of the cancellations carried from before. `FeedStore`
is the promise: parses take effect one at a time and readers take whole snapshots. `LiveStore`
is the code: an RWMutex with a waiting writer that keeps new readers out, fields written and
read one by one, three critical sections per poll. `InEffect` is the refinement mapping.

**PollLoop.** Phases of the poller (waiting, back-off, fetching, wedged, startup, down), the
ticker with its one-slot channel, the watchdog, the marker on the last frame drawn and systemd's
restart. `Tick` is the passing of time and is enabled only when nothing is due.

**StaticData.** Startup and refresh step by step, down to the two halves of `saveGob`; the
refresher's ticker, its two gates and its backdated timestamp. TFI publishes and the operator
edits the stops at any time.

**StaticBuild, FeedDecode, Arrivals, Board.** Pure operators named after the functions.
`StaticBuild` makes a dataset of the rows of a GTFS ZIP: stop numbers, the hour buckets, the
trips that serve a watched stop, what a malformed row or date does. A map that the code fills row
by row is given at once, the last row of a key deciding (`MapOf`), and a bucket has its stop times
under their row numbers, which keeps the order of the file. `FeedDecode` decodes a feed, the
sequence of its top-level fields, in wire order, and `Arrivals` is the query, with `Narrow` a turn
of its binary search. Loops are recursive functions. `Board` holds
the clock, the store and the holder of the dataset: `PollBegins` loads the dataset, `PollEnds`
stores the feed, `Refresh` replaces the dataset in between. It holds too a second definition of
what is due, written without buckets, 12-hour rule, search, built dataset or store, from the rows
of the ZIP and the feed in effect. There a run is due (`IsDue`) if its service runs on its *service
day*, as GTFS has it. The query asks the calendar about the date of the arrival instead
(`arrivals.go:193-197`), which differs for stop times of 24:00 and later (`OverMidnight`); the two
properties of a page name this difference (`RunsWhenItArrives`) and allow no other. Two named assumptions say what its constants are.
`EditionsAssumption`: every edition keeps to the rules of GTFS (ids are unique, a trip has a route).
`FeedsAssumption`: a feed has fields that the wire format can carry, no header from the future, and
no two updates of a trip that count for one stop. TLC evaluates both for the editions and feeds
it is given. `BoardAssumption` has a filter with stops, none of them without a number (what
`loadFile` checks, `config.go:138-144`), and a clock that starts after day 0, as `heard` is 0 for a trip
that was never cancelled.

**Layout, DisplayLoop.** `Layout` is the geometry of an HD panel: how many rows a section has,
which window of a list a page shows, and which of its rows renderHD puts on the panel.
`DisplayLoop` is the process around it: `Launch` (the schedule at startup), `EnterLoop`, one
action per case of the `select`, the driver's two calls, which may fail, and what happens to the
board: SIGTERM, crash, restart, a clock that is set. A ticker's channel holds one message and the
loop may leave it there for `MaxStall` ticks. `behind`, `excuse` and `lag` are history: for how
long the panel has not been as the hours want it, and why it may.

**Configuration, RemoteLog.** `Configuration` has the two files as records and both readings of
them: tfi-display refuses what is not valid, tfi-agent takes what parses. `RemoteLog` has the two
clients, the reports that are on their way and the files that change under both. `MCDisplayLoop`
takes the schedules it checks from files by way of `LoadFile`.

## 3. Runs

| Run | Question | Result |
|---|---|---|
| Updater | any sequence of `Run`/`ApplyConfig` with two faults and one crash: is the display preserved, the old content kept, the process fresh; does the display come back | holds |
| Agent | the same device driven by the agent and a changing server, with a fault, a crash and a release that flaps: are marker, bad list and installs right; is the updater used as specified; does the agent settle on the release and the config | holds |
| LiveStore | does the locked store implement whole, ordered parses, and does every call on the lock return | holds |
| PollLoop | is staleness bounded, do the alarms mean missed polls, does the board recover | holds |
| StaticData | right dataset, cache as served, attempts that keep coming, awake hours spared, current in the end | holds |
| Board | does a page show what is due and nothing else, over two and a half days of clock and a change of the dataset | holds |
| DisplayLoop | is the panel lit, dark and fresh when it should be, is a fault of the driver made good, does every arrival come round | holds |
| Agent_lostcopy | is a good copy kept through a kill | violated (finding) |
| PollLoop_unmarked | does an outage stay marked | violated (finding) |
| StaticData_outage | is a restart harmless in an outage | violated (finding) |
| Board_midnight | does a bus that is still to come stay on the page | violated (finding) |
| RemoteLog_level | does `remote_log_level` filter what is sent | violated (finding) |

### Bounds, and why they are enough

- Updater, Agent: three versions and three configs (Updater) contain a release that always
  works, one that never does, one that depends on the config, one that flaps and a config that
  breaks everything; two of each (Agent) leave one pair that works and one that flaps. Every step
  can meet one fault and one crash; a second fault (Updater) lets a rollback fail after the
  failure that called for it. The properties hold per call or per cycle, and both start from
  every reachable disk, so further calls and crashes repeat these states; the safety properties
  are proved for any number of each.
- LiveStore: one trip and one key, because fields of different trips never meet; two readers, so
  that one may wait behind a writer while the other holds the lock; three polls and a window of two, so that a cancellation is carried, expires, and is renewed.
- PollLoop: ticks of 30 s give the defaults their true proportions: poll 60 s, stale marker
  10 min, watchdog 30 min, back-off up to 1 h. `CountMax` is where the back-off has reached its
  maximum (an assumption of the module), `AgeMax` lies beyond every comparison, `MissMax` is
  what the properties count to. One fault: a wedged poller, a hung driver or a crash.
- StaticData: an interval of three ticks with a retry of two keeps the code's order
  retry < interval < 2 × interval; a day of eight ticks with one asleep makes the off-hours gate
  bind; three editions and two crashes.
- Board: half-hour ticks, clock from the midnight of day 1 to noon of day 3, so that each bucket,
  two midnights, the 12-hour rule and the 24 h of a cancellation are crossed; a feed every three and
  a half hours, two polls, so that feeds fall at different hours and one follows another. The
  timetable has trips just after and before midnight, two of 24:30 and 25:00 whose service runs on
  their day and not on the next, or the other way round, two trips of a route at one time, a
  weekday exception, and a stop time whose trip is unknown. The feeds have early, late, skipped,
  absolute and implausible updates, cancellations before and after the header, unknown trips,
  additions in both orders and by both kinds of stop id, and malformed data. Two later editions:
  one has a date that does not parse and cannot be built, one renames trips and moves a run.
- DisplayLoop: four stops at 1024x600 have two rows each, so that lists of up to five arrivals
  make three pages, two, one and none; a cap on the pages in one of the configurations. A day of
  six minutes of two ticks is open over midnight or always. Both the dark and the lit hours must
  be longer than `Late` + 1 ticks, or a board that is late would be on time again by the clock
  alone. The clock goes back by two ticks and forward by five, over a boundary of the hours. One
  disturbance, at any moment, and then the faults that it may leave behind for ever.
- RemoteLog: files that ask for debug and, in capitals, for errors only, one that is garbage, one that only the agent
  can read; secrets with and without key and token; two reports on their way.

`CHECK_DEADLOCK FALSE` is set only where the clock and the polls are bounded (Board).

### Fairness

- Updater, Agent: weak fairness of the steps of a call or cycle (every command, request and wait
  of the code has a timeout) and of systemd's restart (`Restart=always`). The server, faults,
  crashes and exits have none.
- LiveStore: weak fairness of a goroutine that is inside a call; strong fairness of the turn
  among writers, because `sync.Mutex` hands itself to one that has waited 1 ms.
- DisplayLoop: weak fairness of the program (the loop has no other wait than its `select`; with
  `Restart=always` systemd starts it again) and of time. Crashes, signals, faults of the driver
  and changes of the clock have none and are bounded.
- PollLoop, StaticData: weak fairness of the program, of time and of systemd. `PollEnds` is fair
  because `rtTimeout` bounds a request; the wedged poller is a fault, not an unfair run.

## 4. What is proved

All of it for every value of the constants that satisfies the modules' named assumptions.

- **Updater** (`AgentProofs`, first part): type correctness and all four invariants. The inductive
  invariant adds to them what each step of a call may rely on: the backup holds the old content
  from `install` on; on a clean device the process runs a working pair unless the call is between
  install and the end of its rollback; and the process is the one started from the files.
- **Agent** (`AgentProofs`, second part): `AgentUsesUpdater` shows that the agent's steps are steps of
  `Updater!Spec`, so that every theorem of the updater is one of the agent. Then `MarkerIsTrue`
  (the marker, or the version about to be written, is the binary in place),
  `BlacklistIsEarned` (an update that fails on a clean device failed on a config it did not work
  with) and `OnlyCompleteFreshReleases`, which needs neither a clean device nor crash-freedom. A
  bad version is installed in one case, which the property names: the list could not be read in
  that cycle. TLC finds that case when it is not excepted.
- **FeedStore** (`FeedStoreProofs`): the abstract store goes forward and keeps cancellations.
- **LiveStore** (`LiveStoreProofs`): `StoreKeepsPromise`, the refinement, for any readers, trips,
  keys and number of polls. The invariant: the lock excludes (`LockInv`), each step is taken
  with the lock it needs (`StepInv`), the poller's local cancellations are those a parse of this
  poll may publish (`PollInv`), and a half-copied snapshot equals the store's fields
  (`PartInv`). The consequences for real snapshots follow from the abstract theorems.
- **PollLoop** (`PollLoopProofs`): `StalenessBounded` for every configuration: the age of the data
  plus the time to the next check never exceeds limit plus one check interval. `PollLoopTyped`, the
  type invariant: the powers of two of the back-off grow past its maximum within `CountMax`
  refusals, so that the counter may stop there. `AlarmsTakeMissedPolls`: `AlarmsMeanMissedPolls`
  under `Proportions`, which the defaults satisfy with room to spare (a time-out short beside the
  marker's floor, a limit of twenty polls and five time-outs). Its invariant `AlarmInv` bounds the
  age by what the polls missed in a row can have taken, back-offs included.
- **StaticData** (`StaticDataProofs`): the type invariant, `RightDataset`, `CacheHoldsDataset`,
  `AttemptsKeepComing` and the action property `AwakeHoursAreSpared`, with an invariant that relates
  the phases to the file, the dataset in hand and the timer (the recorded age is only ever
  backdated, so it is never less than the time since the last attempt, and never more than that and
  the retry's set-back; the gate lets no tick be taken at twice the interval).
- **Board** (`BoardProofs`): all four invariants of the run and an action property, for every
  number of editions, feeds, pages and polls within the assumptions. `BoardInv`, which is
  inductive, says what the live store *is*: its delays and additions are those of the feed in
  effect, read with the dataset that was in use when its parse began (`StoreIsOfFeed`), a
  cancellation is kept as it was last heard until a day is over (`CancelsAreHeard`), and a parse
  under way has the dataset in use and the cancellations of the store (`ParsingFits`). From there:
  - `LastAdditionIsShown`: the last addition of a route and stop is never dropped by a later field;
  - `OnlyWhatIsDueIsShown`: each place of the buckets is a row of the edition in use, the 12-hour
    rule puts it on today's or tomorrow's date, and there a candidate is exactly a run that counts
    as due (`CountsAsDue`, by the date of the arrival), at the time the feed gives it; within its
    service day such a run is one that is due, as both dates are the same (`CountsIfDue`);
  - `WhatIsDueIsShown`: a run within the window falls into an hour that is looked at, the 12-hour
    rule gives it its own date, and the de-duplication leaves one of its route and time. Left out
    are the runs over midnight whose service does not run on the date of the arrival. It
    assumes pages whose window is below ten hours (`max_minutes` is 90 by default): with the two
    hours that a bus may be early, later runs come within twelve hours of the day before.
    The hypothesis cannot be dropped: with a window of twelve hours TLC finds a run that is taken
    for one of the morning and not shown. `loadFile` does not bound `max_minutes`.
  - `BusesStayTillMidnight`: the positive half of finding 4. Until the date changes, time alone
    takes no bus that is still to come from such a page, up to three hours late and two early. It
    is proved only: as an action property it makes TLC compute two pages for every step, which is
    over the time a run has; on the run's instance with one poll it was seen to hold.

  The lemmas on the way are results about the code's algorithms for every input: `SearchFinds` (the
  binary search finds the last delay at or before a stop), `AscendingSorts`, `StopDelaysAre`,
  `DecodeFeedIs` (what a decoded feed is, by its last fields), `KeptAre`, `TripsAre`,
  `CalendarIs` and `BucketIs` (the built dataset against the rows), `TryHoursAre` (the hours
  looked at), `ScheduledOnItsDay` (the 12-hour rule).
- **DisplayLoop** (`DisplayLoopProofs`): the type invariant, `PanelFollowsSchedule` and
  `FrameIsFresh`, for every schedule, length of a day, interval, stall and jump of the clock. The
  invariant `Sound` has four parts: the loop's flag agrees with the panel unless the driver
  refused (`Believes`); the time for which the panel has been wrong and the time to the next check
  of the schedule make no more than a minute and the stall (`OnTime`); the same for the age of the
  frame and the next page (`Fresh`); and a process that does not run holds nothing (`AtRest`).
  `SectionFits`: the rows that the page takes are rows that fit their slot.
- **Configuration, RemoteLog** (`RemoteLogProofs`): a configuration that loads has a whole
  schedule or none and no zero interval; tfi-display honours the level that it was started with;
  no report leaves without address and token; and the agent is at info whatever its file says.

Where a definition is a recursive function over data (the decoder, the search, the powers of two),
the library's induction theorems, which take an operator as a parameter, are of no use to the
provers. These proofs go by a least counterexample instead: `LeastNatural`, from the
well-foundedness of the order on the natural numbers, gives a set of bad indices its least member,
and the step before it is good. Arithmetic with `\div` and `%` by a constant such as `PerHour` goes by
`Division` (quotient and remainder) and signs of products (`NotNegative`).

Only model-checked: the liveness properties (`DisplayComesBack`, `Settles`, `ConfigSettles`,
`CallsReturn`, `RecoversWhenFeedDoes`, `CatchesUp`, `ScheduleHeals`, `ArrivalsComeRound`), which
need ENABLED and fairness and are out of the prover's reach. Every safety invariant and action property of a passing
run is proved. `BoardInv` was checked by TLC on the run's instance, with its quantifier over trips
bounded, before it was proved.

## 5. Findings

1. *Agent_lostcopy* (`agent.go:334`). The marker is written after the update. If the agent is
   killed in between, the next cycle installs the same release again and backs it up over the
   last good binary; when the release does not work there is nothing left to roll back to.
2. *PollLoop_unmarked* (`main.go:413`). A process that the watchdog restarted during an outage
   shows an unmarked page, as "no poll yet" is treated as "polled now" (`renderer.go:97-99`
   exempts a start by intent, without a word of an outage that goes on).
3. *StaticData_outage* (`static.go:81`). With a good cache, a start at which the server announces
   a newer edition and cannot deliver it exits. `config.go:40-42` calls restarts harmless.
4. *Board_midnight* (`arrivals.go:188`). A night bus timetabled at 24:30 is on the page until
   midnight and then dated to the next night: it disappears half an hour before it comes.
   `BusesStayTillMidnight` proves that before midnight it does not.
5. *RemoteLog_level* (`agent.go:196`). `remote_log_level` does nothing for the agent:
   `loadSettings` parses it and drops it, so that the agent reports from info on whatever
   `README.md:177` and the comment at `agent.go:82` say. `AgentIgnoresTheLevel` proves it.

Observations made while modelling, which no run carries because nothing in the repository
promises otherwise, or because they follow from one of the above:

- A rollback that itself fails leaves the bad binary in place, and the agent still reports the
  version as rolled back and never looks at it again (`agent.go:321`).
- Pointing the server back to a bad version does nothing: it stays on the list, which only an
  edit of the file clears. Reports of a bad version are sent once and may be lost.
- All failures of an update count against the release, the device's own included
  (`agent.go:320`, contrast the comment at 396-398).
- After a kill between the config's rename and the restart, the bytes are equal and no later
  cycle restarts the display (`updater.go:166-190`).
- The watchdog sees polls only: a render loop that hangs in the driver goes unnoticed.
- A failed HEAD request is taken for "up to date" and waits for the full interval
  (`static.go:143`, `main.go:165-171`), and a retry after a failed download still passes the
  off-hours gate, so that "an hour later" may be much later. `AttemptsKeepComing` counts in the
  checks of the refresher's ticker; by the clock, a rest may be longer by one check of 15 minutes
  and by the attempt itself, after which `lastRefresh` is set.
- The calendar is asked about the date of the arrival, as the comment says ("on the actual arrival
  date", `arrivals.go:193-197`), where GTFS goes by the service day of the row. A Friday-only bus at
  24:30 is missing on Friday evening, and it is shown, although it does not come, on the evening
  before the service's first day. The two properties of a page except just these runs, by name; without
  the exceptions TLC violates both, at 23:00 of day 2 (`ShowsWhatIsDue`: the 24:30 of a daily
  service that is removed on day 3) and at 23:30 of day 1 (`ShowsOnlyWhatIsDue`: the 25:00 of a service of
  day 2 alone). From midnight on finding 4 has the run: it is on no page at all.
- An unreadable bad list is taken for an empty one and an unreadable marker for none
  (`agent.go:475-479, 490-494`): a release that failed before, or the one that is running, is
  downloaded and installed again, the former to be rolled back once more.
- A trip cancelled in one feed stays hidden for 24 hours even when a later feed reinstates it,
  and so may hide tomorrow's run of a daily trip.
- A page merges two trips of one route at one time, and what remains of several added trips of
  a route depends on their order in the feed (only the last one is sure to be shown).

- A board without a schedule whose first `Wake` the driver refuses stays dark until the next
  restart: nothing tries again (`main.go:127`). `ScheduleHeals` is stated for boards with hours.
- SIGTERM before `signal.Notify` (`main.go:270`) kills the process without its `Sleep`: a board
  that is stopped while it starts stays lit.
- On a panel below 800 pixels the sections' pages, four rows each, are merged and cut to four
  again, so that with several stops an arrival may never be seen, against "cycle all available
  arrivals" (`config.yaml.example:42`). On an HD panel a section is never lower than a row:
  with eight stops on 600 lines the last sections lie below the panel.
- A `TFI_API_KEY` in the environment does not override the key of `config.yaml`, although
  `config.go:167-170, 207` says so: it is asked only when no file has a key.
- A negative poll or page interval passes the validation and `time.NewTicker` panics on it.
- The agent's last line ("shutting down") is sent by a process that exits at once; the display
  waits 200 ms for its own.
- When `secrets.yaml` is unreadable, the agent's base URL is empty and it skips its cycles,
  while the display refuses to start.

## 6. Assumptions of the models

A rename is durable once it returns. Directories can be made. Goroutines are scheduled within a
tick of the model. The watchdog and the refresher are enabled, as by default. Editions only
increase. The clock does not jump, except in DisplayLoop, and local time has no change to or from
summer time within Board's run. Both files are read at one moment. The store's clock and the query's are the same instant.
`Settles` and `ConfigSettles` speak of a server that stops changing.

## 7. Plan

Done, in order of importance: the update path (an update that goes wrong needs a visit to the
device); the live store; the poll loop; the static data, from the rows of the ZIP to the holder;
the decoder and the query; the display loop and its layout; the configuration and the remote log.

What is left, extending the model: `doWithRetry` (`agent.go:221-257`), refining the single request
of the Agent module, with its sleep that a SIGTERM cuts short; the merged list of a panel below
800 pixels; the whole display process as one composition of PollLoop, StaticData and DisplayLoop,
which today meet only in systemd's restart.

Proving more: `WhatIsDueIsShown` says a run of the same route and time is shown; that it is shown
at its own expected time unless another run of that route and time is due could be stated besides.
`FeedStore` and the `live` of Board describe one store at two grains; an abstract store
that both implement would let BoardProofs use LiveStore's refinement.

## 8. Not modelled

The wire format's bytes, CSV quoting and YAML syntax (fuzzed and unit-tested in the repository; the
models have fields, rows and files that parse or do not); pixels and fonts (output without state,
but for the rows of a section, in Layout, and the stale marker, in PollLoop); the framebuffer's
pixel formats and the mock driver; the transport of HTTP, whose time-outs the models take as
given; the wording of logs and diagnostics; the development tools under `tools/`.

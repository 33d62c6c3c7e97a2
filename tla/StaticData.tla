----------------------------- MODULE StaticData -----------------------------
(***************************************************************************)
(* The static timetable of tfi-display: the gob cache on disk, LoadOrBuild *)
(* at startup, and the background refresher with MaybeRebuild              *)
(* (src/gtfs/static.go, src/main.go).                                      *)
(*                                                                         *)
(* A dataset is the edition of the feed it was built from and the stops it *)
(* was built for.  A tick of time is the refresher's 15 minutes; a tick    *)
(* passes only when nothing is due.                                        *)
(***************************************************************************)
EXTENDS Integers

CONSTANTS
  Interval,     \* static_refresh_seconds, in ticks
  Retry,        \* staticRetryInterval
  Download,     \* staticDownloadTimeout
  Day,          \* ticks in a day
  Active,       \* ticks of the day in which the display is awake; {} without a schedule
  Stops,        \* the sets of stops a device may be configured for
  NoCache,      \* there is no cache file
  Torn,         \* a cache file that loadGob cannot decode
  MaxEdition,   \* bound on the editions TFI publishes
  MaxCrashes    \* bound on crashes, watchdog exits and restarts

ASSUME StaticAssumption ==
  /\ Interval \in Nat \ {0} /\ Retry \in Nat \ {0} /\ Download \in Nat
  /\ Day \in Nat \ {0} /\ Active \subseteq 0..(Day - 1)
  /\ MaxEdition \in Nat \ {0} /\ MaxCrashes \in Nat

VARIABLES
  pc,         \* what main or the refresher is doing
  serving,    \* startup is over: the tickers and the refresher run
  config,     \* the stops of config.yaml
  want,       \* the stops the process was started with
  cur,        \* the dataset loaded from the cache, or served by dbHolder
  new,        \* the dataset just built
  cache,      \* static_cache.gob
  saved,      \* history: the last write of the cache went through
  edition,    \* the edition TFI serves
  net,        \* whether the last request was answered
  hour,       \* the tick of the day
  left,       \* ticks the download may still take
  ready,      \* the one tick that the check ticker's channel holds
  age,        \* time.Since(lastRefresh)
  idleFor,    \* history: ticks since the last attempt ended, or the start
  crashes

setup == <<config, want>>
disk == <<cache, saved>>
timer == <<ready, age, idleFor>>
vars == <<pc, serving, setup, cur, new, disk, edition, net, hour, left, timer, crashes>>

Dataset == [edition : 1..MaxEdition, stops : Stops]
IsActiveTime == hour \in Active

\* Mutants: any cache will do, or any file; the schedule has no say, or decides alone.
AnyCache(d) == d \in Dataset
AnyFile(d) == d # NoCache
DueByAge == age >= Interval
DueOffHours == age >= Interval /\ ~IsActiveTime

CacheFits(d) == d \in Dataset /\ d.stops = want

\* t.After(cached); its mutant swaps the two.
IsOlder(d) == edition < d.edition
IsNewer(d) == edition > d.edition

\* The elapsed-time gate, and the preference for off-hours up to twice the interval.
Due == age >= Interval /\ ~(IsActiveTime /\ age < 2 * Interval)

\* time.Since(staticRetryAt(now, interval)), at now.
StaticRetryAge == IF Interval <= Retry THEN 0 ELSE Interval - Retry

Init ==
  /\ pc = "down" /\ serving = FALSE
  /\ config \in Stops /\ want = config
  /\ cache = NoCache /\ saved = TRUE /\ cur = NoCache /\ new = NoCache
  /\ edition = 1 /\ net = TRUE
  /\ hour = 0 /\ left = 0
  /\ ready = FALSE /\ age = 0 /\ idleFor = 0
  /\ crashes = 0

-----------------------------------------------------------------------------
\* The process ends, and what it had in memory is gone.
Exit ==
  /\ pc' = "down" /\ serving' = FALSE
  /\ cur' = NoCache /\ new' = NoCache
  /\ ready' = FALSE /\ age' = 0 /\ idleFor' = 0

\* LoadOrBuild returns and the refresher starts, or the attempt in MaybeRebuild ends.
Done(recorded) ==
  /\ pc' = "idle" /\ serving' = TRUE
  /\ age' = IF serving THEN recorded ELSE 0
  /\ idleFor' = 0
  /\ ready' = (serving /\ ready)

StartDownload == pc' = "get" /\ left' = Download /\ UNCHANGED <<serving, timer>>

-----------------------------------------------------------------------------
\* systemd starts the process, which reads its configuration ...
Start ==
  /\ pc = "down"
  /\ pc' = "load" /\ want' = config
  /\ UNCHANGED <<serving, config, cur, new, disk, edition, net, hour, left, timer, crashes>>

\* ... and LoadOrBuild the cache, which must be of this build's schema and stops.
LoadGob ==
  /\ pc = "load"
  /\ IF CacheFits(cache)
     THEN cur' = cache /\ pc' = "head" /\ UNCHANGED <<serving, timer, left>>
     ELSE cur' = cur /\ StartDownload
  /\ UNCHANGED <<setup, new, disk, edition, net, hour, crashes>>

\* A refresh is due, at a tick of the refresher.
Check ==
  /\ pc = "idle" /\ ready
  /\ ready' = FALSE
  /\ pc' = IF Due THEN "head" ELSE "idle"
  /\ UNCHANGED <<serving, setup, cur, new, disk, edition, net, hour, left, age, idleFor,
                 crashes>>

\* A HEAD request that fails counts as "nothing newer".
IsNewerZIPAvailable ==
  /\ pc = "head"
  /\ net' \in BOOLEAN
  /\ IF net' /\ IsNewer(cur)
     THEN StartDownload
     ELSE Done(0) /\ left' = left
  /\ UNCHANGED <<setup, cur, new, disk, edition, hour, crashes>>

BuildFromURL ==
  /\ pc = "get"
  /\ net' = TRUE
  /\ new' = [edition |-> edition, stops |-> want]
  /\ pc' = "create"
  /\ UNCHANGED <<serving, setup, cur, disk, edition, hour, left, timer, crashes>>

\* The download or the parse fails: startup exits, the refresher backdates lastRefresh.
BuildFails ==
  /\ pc = "get"
  /\ net' = FALSE
  /\ IF serving THEN Done(StaticRetryAge) /\ UNCHANGED <<cur, new>> ELSE Exit
  /\ UNCHANGED <<setup, disk, edition, hour, left, crashes>>

\* Mutant of CreateGob: a rebuilt dataset is served, and not saved.
NotSaved ==
  /\ pc = "create"
  /\ pc' = "store"
  /\ UNCHANGED <<serving, setup, cur, new, disk, edition, net, hour, left, timer, crashes>>

\* saveGob truncates the file before it writes it, and a failure is only logged.
CreateGob ==
  /\ pc = "create"
  /\ \/ cache' = Torn /\ saved' = saved /\ pc' = "encode"
     \/ cache' = cache /\ saved' = FALSE /\ pc' = "store"
  /\ UNCHANGED <<serving, setup, cur, new, edition, net, hour, left, timer, crashes>>

EncodeGob ==
  /\ pc = "encode"
  /\ saved' \in BOOLEAN
  /\ cache' = IF saved' THEN new ELSE Torn
  /\ pc' = "store"
  /\ UNCHANGED <<serving, setup, cur, new, edition, net, hour, left, timer, crashes>>

StoreDB ==
  /\ pc = "store"
  /\ cur' = new
  /\ Done(0)
  /\ UNCHANGED <<setup, new, disk, edition, net, hour, left, crashes>>

-----------------------------------------------------------------------------
\* The environment: TFI publishes, someone edits the stops, the process dies at any point.
Publish ==
  /\ edition < MaxEdition
  /\ edition' = edition + 1
  /\ UNCHANGED <<pc, serving, setup, cur, new, disk, net, hour, left, timer, crashes>>

Configure ==
  /\ config' \in Stops \ {config}
  /\ UNCHANGED <<pc, serving, want, cur, new, disk, edition, net, hour, left, timer, crashes>>

Crash ==
  /\ pc # "down" /\ crashes < MaxCrashes
  /\ crashes' = crashes + 1
  /\ Exit
  /\ UNCHANGED <<setup, disk, edition, net, hour, left>>

\* 15 minutes pass between two checks, or in a slow download.
Tick ==
  /\ \/ pc = "idle" /\ ~ready /\ left' = left
     \/ pc = "get" /\ left > 0 /\ left' = left - 1
  /\ hour' = (hour + 1) % Day
  /\ IF serving
     THEN /\ ready' = TRUE /\ age' = age + 1
          /\ idleFor' = IF pc = "idle" THEN idleFor + 1 ELSE idleFor
     ELSE UNCHANGED <<ready, age, idleFor>>
  /\ UNCHANGED <<pc, serving, setup, cur, new, disk, edition, net, crashes>>

-----------------------------------------------------------------------------
Next ==
  \/ Start \/ LoadGob \/ Check \/ IsNewerZIPAvailable
  \/ BuildFromURL \/ BuildFails \/ CreateGob \/ EncodeGob \/ StoreDB
  \/ Publish \/ Configure \/ Crash \/ Tick

Spec == Init /\ [][Next]_vars

\* The program runs, requests end within their time-outs, time passes, systemd restarts.
FairSpec ==
  /\ Spec
  /\ WF_vars(Start) /\ WF_vars(LoadGob) /\ WF_vars(Check) /\ WF_vars(IsNewerZIPAvailable)
  /\ WF_vars(BuildFromURL \/ BuildFails)
  /\ WF_vars(CreateGob) /\ WF_vars(EncodeGob) /\ WF_vars(StoreDB) /\ WF_vars(Tick)

-----------------------------------------------------------------------------
\* Every variable keeps its type, and what is served is a whole dataset.
TypeOK ==
  /\ pc \in {"down", "load", "idle", "head", "get", "create", "encode", "store"}
  /\ serving \in BOOLEAN /\ (pc = "idle" => serving) /\ (pc \in {"down", "load"} => ~serving)
  /\ config \in Stops /\ want \in Stops
  /\ cur \in Dataset \cup {NoCache} /\ new \in Dataset \cup {NoCache}
  /\ cache \in Dataset \cup {NoCache, Torn} /\ saved \in BOOLEAN
  /\ edition \in 1..MaxEdition /\ net \in BOOLEAN
  /\ hour \in 0..(Day - 1) /\ left \in 0..Download
  /\ ready \in BOOLEAN /\ age \in Nat /\ idleFor \in Nat
  /\ crashes \in 0..MaxCrashes

\* The dataset that is served was built for the stops of this process, whatever cache an
\* earlier configuration left behind (static.go:76-87).
RightDataset == serving => cur \in Dataset /\ cur.stops = want

\* When nothing is being written, the cache holds the dataset that is served, so that a
\* restart serves no older one, unless the disk refused the last write; an interrupted
\* write never passes for a dataset.
CacheHoldsDataset == pc = "idle" /\ saved => cache = cur

\* The refresher never rests for longer than twice the interval, whatever the schedule
\* (main.go:158-161).
AttemptsKeepComing == serving => idleFor <= 2 * Interval

\* While the display is awake a refresh is made only when the off-hours have been missed
\* for long: the interval and the retry time since the last attempt, failed or not.
AwakeHoursAreSpared ==
  [][pc = "idle" /\ pc' = "head" /\ IsActiveTime =>
       idleFor >= Interval + (IF Interval <= Retry THEN Interval ELSE Retry)]_vars

\* Once requests are answered, the board gets to serve the edition TFI publishes last.
CatchesUp == <>[]net => <>[](serving /\ cur.edition = edition)

\* config.go:40-42: a restart "costs a few seconds (the static dataset reloads from the
\* gob cache), so tripping it during a genuine upstream outage is harmless": a start that
\* finds its dataset in the cache does not end in an exit.
RestartIsHarmless == [][pc = "get" /\ CacheFits(cache) => pc' # "down" \/ crashes' # crashes]_vars

=============================================================================

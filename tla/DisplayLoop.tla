---------------------------- MODULE DisplayLoop ----------------------------
(***************************************************************************)
(* The render loop of tfi-display (src/main.go): its three tickers, the    *)
(* schedule that puts the panel to sleep and wakes it, the paging through  *)
(* the arrivals, the panel's driver (src/display/driver/lcd_dpi.go), and   *)
(* the ends of the process: a SIGTERM, a crash, systemd's restart.         *)
(*                                                                         *)
(* Time is a count of equal ticks, Minute of them to a minute.  The clock  *)
(* of the wall may be set; the tickers follow the monotonic clock.  The    *)
(* loop serves its channels promptly, but may stall for up to MaxStall     *)
(* ticks while they hold something.                                        *)
(***************************************************************************)
EXTENDS Layout

CONSTANTS
  Minute,           \* the schedule's ticker, and the grain of isActiveTime
  DayMinutes,       \* minutes in a day
  RefreshInterval,  \* poll_interval_seconds
  PageInterval,     \* page_interval_seconds
  Configs,          \* what a start of the process may find in config.yaml
  Lists,            \* how many arrivals each stop may have
  Longest,          \* a bound on them
  PageCycle,        \* bound on page: a multiple of every number of pages
  Jumps,            \* by how many ticks the wall clock may be set forward, or back
  MaxStall,         \* bound on the ticks for which messages wait
  MaxEvents         \* bound on the events that disturb the board

ASSUME LoopAssumption ==
  /\ Minute \in Nat \ {0} /\ DayMinutes \in Nat \ {0}
  /\ RefreshInterval \in Nat \ {0} /\ PageInterval \in Nat \ {0}
  /\ Configs \subseteq [scheduled : BOOLEAN, start : 0..(DayMinutes - 1),
                        stop : 0..(DayMinutes - 1), maxPages : Nat]
  /\ Longest \in Nat /\ Lists \subseteq [Stops -> 0..Longest]
  /\ PageCycle \in Nat \ {0}
  /\ Jumps \subseteq Int /\ MaxStall \in Nat /\ MaxEvents \in Nat

ASSUME PagesCycle == \A n \in 1..NumPages(Longest) : PageCycle % n = 0

VARIABLES
  wall,      \* the wall clock: the tick of the day
  phase,     \* "starting" up to signal.Notify, "loop"; "down": to be restarted; "stopped"
  config,    \* the configuration that the process was started with
  until,     \* ticks until each ticker fires
  pending,   \* the channels that hold a message
  sleeping,  \* the loop's own variable
  page,      \* page % PageCycle
  lists,     \* how many arrivals QueryArrivals returns for each stop
  lit,       \* the panel is not blanked
  frame,     \* the rows of each section that the framebuffer shows
  age,       \* ticks since the frame was drawn; Never when the loop blanked it
  lag,       \* history: ticks for which the channels have not all been empty
  behind,    \* history: ticks for which the panel has not been as the schedule wants it
  excuse,    \* history: why it may be so: "driver", the last call failed; "early", none was made
  events     \* disturbances so far

timers == <<until, pending, lag>>
screen == <<lit, frame, age>>
vars == <<wall, phase, config, until, pending, sleeping, page, lists, lit, frame, age,
          lag, behind, excuse, events>>

Tickers == {"schedule", "refresh", "page"}
Period == [t \in Tickers |->
             CASE t = "schedule" -> Minute
               [] t = "refresh" -> RefreshInterval
               [] t = "page" -> PageInterval]
\* The ticker of a schedule exists only if there is one.
Running(c) == IF c.scheduled THEN Tickers ELSE Tickers \ {"schedule"}

DayTicks == DayMinutes * Minute
Late == Minute + MaxStall           \* as far behind the schedule as a sound board gets
Never == PageInterval + MaxStall + 1

\* Mutant: the window does not run past midnight.
NoOvernight(now, start, stop) ==
  LET m == now \div Minute
  IN  start = stop \/ (start <= m /\ m < stop)

\* What time.Now() shows at the minute's grain, and start and stop in minutes.
IsActiveTime(now, start, stop) ==
  LET m == now \div Minute
  IN  \/ start = stop
      \/ start < stop /\ start <= m /\ m < stop
      \/ start > stop /\ (m >= start \/ m < stop)

Active(now, c) == ~c.scheduled \/ IsActiveTime(now, c.start, c.stop)

\* What the process holds in memory when it begins.  The tickers start with the loop.
InitProcess ==
  /\ until = Period /\ pending = {} /\ lag = 0
  /\ sleeping = FALSE /\ page = 0

Init ==
  /\ wall \in 0..(DayTicks - 1)
  /\ phase = "down"
  /\ config \in Configs
  /\ InitProcess
  /\ lists \in Lists
  /\ lit \in BOOLEAN /\ frame = [s \in Stops |-> {}] /\ age = Never
  /\ behind = 0 /\ excuse = "none" /\ events = 0

\* Nothing of it outlives the process.
ProcessEnds ==
  /\ until' = Period /\ pending' = {} /\ lag' = 0
  /\ sleeping' = FALSE /\ page' = 0

Disturb == events < MaxEvents /\ events' = events + 1

-----------------------------------------------------------------------------
\* What the panel should be, from the configuration and the time alone: lit for so many
\* minutes from the start on, round the clock, and dark once the service is stopped.

Open(now, c) ==
  \/ ~c.scheduled \/ c.start = c.stop
  \/ (now \div Minute - c.start) % DayMinutes < (c.stop - c.start) % DayMinutes

InCharge(p) == p \in {"starting", "loop", "stopped"}
Wanted(p, now, c) == p # "stopped" /\ Open(now, c)

AsWanted == InCharge(phase) => (lit <=> Wanted(phase, wall, config))

\* The history variable behind, when n ticks pass in the step.
Behind(n) ==
  behind' = IF AsWanted' \/ AsWanted THEN 0 ELSE Smaller(behind + n, Late + 1)

-----------------------------------------------------------------------------
\* The driver and the frame

\* Wake or Sleep: sysfs takes the write, or the error is logged and forgotten.
Switch(on) ==
  \/ lit' = on /\ excuse' = "none" /\ events' = events
  \/ lit' = lit /\ excuse' = "driver" /\ Disturb

\* renderAndDisplay: each stop's page of its list, as far as it lies on the panel.
Render(p) ==
  LET window == [s \in Stops |-> PageWindow(lists[s], config.maxPages, p)]
      shows == [s \in Stops |-> window[s][2] - window[s][1]]
  IN  /\ frame' = [s \in Stops |-> {window[s][1] + r : r \in RowsOnPanel(s, shows)}]
      /\ age' = 0

KeepFrame == UNCHANGED <<frame, age>>

-----------------------------------------------------------------------------
\* The process starts

\* systemd starts it: it reads its configuration and sets the panel by the time of day.
Launch ==
  /\ phase = "down" /\ phase' = "starting"
  /\ config' \in Configs
  /\ sleeping' = ~Active(wall, config')
  /\ Switch(~sleeping')
  /\ KeepFrame
  /\ UNCHANGED <<wall, timers, page, lists>>
  /\ Behind(0)

\* The tickers are created, the first frame is drawn, and signal.Notify called.
EnterLoop ==
  /\ phase = "starting" /\ phase' = "loop"
  /\ IF sleeping THEN KeepFrame ELSE Render(page)
  /\ UNCHANGED <<wall, config, timers, sleeping, page, lists, lit, excuse, events>>
  /\ Behind(0)

-----------------------------------------------------------------------------
\* The loop

Receive(c) ==
  /\ phase = "loop" /\ c \in pending
  /\ pending' = pending \ {c}

\* Mutants: sleeping keeps its value; the board wakes without a frame.
WakeForgets ==
  /\ Switch(TRUE)
  /\ sleeping' = sleeping
  /\ Render(page)
WakeWithoutFrame ==
  /\ Switch(TRUE)
  /\ sleeping' = FALSE
  /\ KeepFrame

WakeUp ==
  /\ Switch(TRUE)
  /\ sleeping' = FALSE
  /\ Render(page)

\* drv.Clear fills the framebuffer with white.
FallAsleep ==
  /\ Switch(FALSE)
  /\ sleeping' = TRUE
  /\ frame' = [s \in Stops |-> {}] /\ age' = Never

ScheduleFires ==
  /\ Receive("schedule")
  /\ \/ sleeping /\ Active(wall, config) /\ WakeUp
     \/ ~sleeping /\ ~Active(wall, config) /\ FallAsleep
     \/ (sleeping <=> ~Active(wall, config)) /\ UNCHANGED <<sleeping, screen, excuse, events>>
  /\ UNCHANGED <<wall, phase, config, until, page, lists, lag>>
  /\ Behind(0)

RefreshFires ==
  /\ Receive("refresh")
  /\ IF sleeping THEN KeepFrame ELSE Render(page)
  /\ UNCHANGED <<wall, phase, config, until, sleeping, page, lists, lit, lag, excuse, events>>
  /\ Behind(0)

PageFires ==
  /\ Receive("page")
  /\ IF sleeping THEN page' = page /\ KeepFrame
     ELSE page' = (page + 1) % PageCycle /\ Render(page')
  /\ UNCHANGED <<wall, phase, config, until, sleeping, lists, lit, lag, excuse, events>>
  /\ Behind(0)

\* The SIGTERM is handled.  systemd restarts the service unless it was stopped.
Quit ==
  /\ phase = "loop" /\ "quit" \in pending
  /\ phase' \in {"down", "stopped"}
  /\ ProcessEnds
  /\ Switch(FALSE)
  /\ KeepFrame
  /\ UNCHANGED <<wall, config, lists>>
  /\ Behind(0)

-----------------------------------------------------------------------------
\* What happens to it

\* systemctl stop or restart: before signal.Notify the signal kills the process.
Terminate ==
  /\ Disturb
  /\ \/ /\ phase = "loop" /\ phase' = phase
        /\ pending' = pending \cup {"quit"}
        /\ UNCHANGED <<until, sleeping, page, lag, excuse>>
     \/ /\ phase = "starting" /\ phase' \in {"down", "stopped"}
        /\ ProcessEnds /\ excuse' = "early"
  /\ UNCHANGED <<wall, config, lists, screen>>
  /\ Behind(0)

Crash ==
  /\ Disturb
  /\ phase \in {"starting", "loop"} /\ phase' = "down"
  /\ ProcessEnds
  /\ UNCHANGED <<wall, config, lists, screen, excuse>>
  /\ Behind(0)

\* A stopped service is started by hand, or by a boot.
StartService ==
  /\ phase = "stopped" /\ phase' = "down"
  /\ UNCHANGED <<wall, config, timers, sleeping, page, lists, screen, excuse, events>>
  /\ Behind(0)

\* The clock is set (the board has none of its own until NTP answers), or the time of year
\* changes.
ClockIsSet ==
  /\ Disturb
  /\ \E d \in Jumps : wall' = (wall + d) % DayTicks
  /\ UNCHANGED <<phase, config, timers, sleeping, page, lists, screen, excuse>>
  /\ Behind(0)

\* Another poll, or another minute: the lists are others.
ListsChange ==
  /\ Disturb
  /\ lists' \in Lists
  /\ UNCHANGED <<wall, phase, config, timers, sleeping, page, screen, excuse>>
  /\ Behind(0)

\* A tick passes.  A ticker that fires on a full channel drops its message.
Tick ==
  /\ phase # "starting"
  /\ phase = "loop" /\ pending # {} => lag < MaxStall
  /\ wall' = (wall + 1) % DayTicks
  /\ IF phase = "loop"
     THEN LET fires == {t \in Running(config) : until[t] = 1}
          IN  /\ pending' = pending \cup fires
              /\ until' = [t \in Tickers |-> IF t \in fires THEN Period[t]
                                             ELSE IF t \in Running(config) THEN until[t] - 1
                                             ELSE until[t]]
              /\ lag' = IF pending = {} THEN 0 ELSE lag + 1
     ELSE UNCHANGED timers
  /\ age' = Smaller(age + 1, Never)
  /\ UNCHANGED <<phase, config, sleeping, page, lists, lit, frame, excuse, events>>
  /\ Behind(1)

-----------------------------------------------------------------------------
Loop == ScheduleFires \/ RefreshFires \/ PageFires \/ Quit

\* What the process and systemd do by themselves.
Program == Launch \/ EnterLoop \/ Loop

Next == Program \/ Terminate \/ Crash \/ StartService
        \/ ClockIsSet \/ ListsChange \/ Tick

Spec == Init /\ [][Next]_vars

\* The loop runs, time passes, and systemd restarts a service that has Restart=always.
FairSpec == Spec /\ WF_vars(Program) /\ WF_vars(Tick)

-----------------------------------------------------------------------------
\* Every variable keeps its range; what the frame shows are places in a list.
TypeOK ==
  /\ wall \in 0..(DayTicks - 1)
  /\ phase \in {"down", "starting", "loop", "stopped"}
  /\ config \in Configs
  /\ until \in [Tickers -> Nat] /\ \A t \in Tickers : until[t] \in 1..Period[t]
  /\ pending \subseteq IF phase = "loop" THEN Running(config) \cup {"quit"} ELSE {}
  /\ sleeping \in BOOLEAN /\ page \in 0..(PageCycle - 1)
  /\ lists \in Lists
  /\ lit \in BOOLEAN /\ frame \in [Stops -> SUBSET (1..Longest)] /\ age \in 0..Never
  /\ lag \in 0..MaxStall /\ behind \in 0..(Late + 1)
  /\ excuse \in {"none", "driver", "early"} /\ events \in 0..MaxEvents

\* The panel is lit in the configured hours and dark outside them and after a stop, within
\* one check of the schedule, over midnight and whenever the clock is set, unless the
\* driver refused the last change or a signal came before it was listened to
\* (main.go:116-131, 274-296, 302-311; tfi-display.service "deep-sleep the display").
PanelFollowsSchedule == behind > Late => excuse # "none"

\* In the active hours the frame is never older than a page, not even on waking from a
\* night on which the framebuffer was cleared (main.go:273-301).
FrameIsFresh == phase = "loop" /\ ~sleeping => age < Never

\* A refused Wake or Sleep is not tried again, but the next change of hours makes it good,
\* if there are hours (main.go:116-131, 282-294).
ScheduleHeals ==
  <>[](phase = "loop" /\ config.scheduled /\ config.start # config.stop => behind <= Late)

\* "0 = unlimited (cycle all available arrivals)" (config.yaml.example:42): every arrival
\* that max_pages leaves in the list comes round on the panel, whatever the length of the
\* other stops' lists, the nights and the restarts.
Listed(s) ==
  IF config.maxPages = 0 THEN lists[s] ELSE Smaller(lists[s], config.maxPages * RowsPerSection)

ArrivalsComeRound ==
  \A s \in Stops : \A i \in 1..Longest :
    []<>(i \in frame[s] \/ i > Listed(s) \/ phase = "stopped")

=============================================================================

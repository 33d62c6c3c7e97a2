------------------------- MODULE DisplayLoopProofs -------------------------
(***************************************************************************)
(* Proofs about the render loop: for every schedule, period, length of the *)
(* lists and number of disturbances, the panel follows the schedule and    *)
(* the frame is fresh.                                                     *)
(***************************************************************************)
EXTENDS DisplayLoop, TLAPS

-----------------------------------------------------------------------------
\* Arithmetic

LEMMA ModuloDay ==
  ASSUME NEW d \in Nat \ {0}, NEW x \in 0..(d - 1), NEW y \in 0..(d - 1)
  PROVE  (x - y) % d = IF x < y THEN x - y + d ELSE x - y
<1>1. CASE x < y
  BY <1>1, SMT
<1>2. CASE ~(x < y)
  BY <1>2, SMT
<1> QED BY <1>1, <1>2

LEMMA MinuteOfDay ==
  ASSUME NEW m \in Nat \ {0}, NEW n \in Nat \ {0}, NEW x \in 0..(n * m - 1)
  PROVE  x \div m \in 0..(n - 1)
BY SMT

LEMMA Remainder ==
  ASSUME NEW d \in Nat \ {0}, NEW x \in Int
  PROVE  x % d \in 0..(d - 1)
BY SMT

LEMMA SumIsNat ==
  ASSUME NEW m \in Nat, NEW n \in Nat
  PROVE  m + n \in Nat /\ m <= m + n
OBVIOUS

\* A page's first row is a row of the list.
LEMMA PageBegins ==
  ASSUME NEW r \in Nat \ {0}, NEW t \in Nat \ {0}, NEW n \in Nat \ {0}, NEW p \in 0..(n - 1),
         n <= (t + r - 1) \div r
  PROVE  p * r \in Nat /\ p * r < t
<1>1. p \in 0..((t + r - 1) \div r - 1)
  BY SMT
<1>2. p * r < t
  BY <1>1, SMT
<1> QED BY <1>2, SMT

-----------------------------------------------------------------------------
\* The layout

LEMMA RowsPerSectionType == RowsPerSection \in Nat \ {0}
<1>1. HeightPerSection \in Int
  BY LayoutAssumption DEF HeightPerSection, HeaderHeight, SectionSeparator
<1>2. (HeightPerSection - SectionBarHeight) \div RowHeight \in Int
  BY <1>1 DEF SectionBarHeight, RowHeight
<1> QED BY <1>2 DEF RowsPerSection, Larger

LEMMA PagesShownType ==
  ASSUME NEW total \in Nat \ {0}, NEW maxPages \in Nat
  PROVE  PagesShown(total, maxPages) \in Nat \ {0} /\ PagesShown(total, maxPages) <= NumPages(total)
<1>1. NumPages(total) \in Nat \ {0}
  BY RowsPerSectionType, SMT DEF NumPages
<1> QED BY <1>1 DEF PagesShown, Smaller

\* pageWindow returns a range of the list that fits the section, whatever the page and the
\* cap (main.go:441-464): the slice it is used for is never out of range.
LEMMA WindowIsInList ==
  ASSUME NEW total \in Nat, NEW maxPages \in Nat, NEW p \in Nat
  PROVE  LET w == PageWindow(total, maxPages, p)
         IN  /\ w[1] \in Nat /\ w[2] \in Nat
             /\ w[1] <= w[2] /\ w[2] <= total
             /\ w[2] - w[1] <= RowsPerSection
             /\ total > 0 => w[1] < w[2]
<1>1. CASE total = 0
  <2>1. PageWindow(total, maxPages, p) = <<0, 0>>
    BY <1>1 DEF PageWindow
  <2> QED BY <1>1, <2>1, RowsPerSectionType
<1>2. CASE total # 0
  <2> DEFINE n == PagesShown(total, maxPages)
             start == (p % n) * RowsPerSection
  <2>1. n \in Nat \ {0} /\ n <= (total + RowsPerSection - 1) \div RowsPerSection
    BY <1>2, PagesShownType DEF NumPages
  <2> HIDE DEF n
  <2>2. p % n \in 0..(n - 1)
    BY <2>1, SMT
  <2>3. start \in Nat /\ start < total
    BY <1>2, <2>1, <2>2, RowsPerSectionType, PageBegins
  <2>4. PageWindow(total, maxPages, p) = <<start, Smaller(start + RowsPerSection, total)>>
    BY <1>2 DEF PageWindow, n
  <2> HIDE DEF start
  <2> QED BY <2>3, <2>4, RowsPerSectionType DEF Smaller
<1> QED BY <1>1, <1>2

\* The slots follow each other, and the last ends on the panel.
LEMMA SlotStep ==
  ASSUME NEW i \in Stops, i > 1
  PROVE  SlotBottom(i) = SlotBottom(i - 1) + HeightPerSection + SectionSeparator
<1>1. HeightPerSection \in Int
  BY LayoutAssumption DEF HeightPerSection, HeaderHeight, SectionSeparator
<1> DEFINE h == HeightPerSection + SectionSeparator
<1>2. h \in Int
  BY <1>1 DEF SectionSeparator
<1>3. (i - 1) * h = (i - 1 - 1) * h + h
  <2> HIDE DEF h
  <2> QED BY <1>2, LayoutAssumption, SMT DEF Stops
<1> QED BY <1>1, <1>3, LayoutAssumption DEF SlotBottom, Stops, HeaderHeight, SectionSeparator

LEMMA SlotOnPanel ==
  ASSUME NEW i \in Stops, HeightPerSection \in Nat
  PROVE  SlotBottom(i) <= Height
<1> DEFINE room == Height - 32 - (NumStops - 1) * 4
<1>1. NumStops * HeightPerSection <= room
  <2>1. room \in Int /\ HeightPerSection = room \div NumStops
    BY LayoutAssumption DEF HeightPerSection, HeaderHeight, SectionSeparator
  <2> HIDE DEF room
  <2> QED BY <2>1, LayoutAssumption, SMT
<1>2. i * (HeightPerSection + 4) <= NumStops * (HeightPerSection + 4)
  BY LayoutAssumption, SMT DEF Stops
<1>3. SlotBottom(i) = 32 + i * (HeightPerSection + 4) - 4
  BY LayoutAssumption, SMT DEF SlotBottom, Stops, HeaderHeight, SectionSeparator
<1>4. NumStops * (HeightPerSection + 4) = NumStops * HeightPerSection + 4 * NumStops
  BY LayoutAssumption, SMT
<1> QED BY <1>1, <1>2, <1>3, <1>4, LayoutAssumption DEF Stops

\* A section that begins no lower than the slot before it ended, and has room for a row,
\* ends in its own slot, and its rows lie in it and on the panel: the page that
\* RowsPerSection leaves to it is seen in full (renderer_hd.go:34-49, 100-181).
THEOREM SectionFits ==
  ASSUME NEW i \in Stops, NEW y \in Int, NEW rows \in 0..RowsPerSection,
         HeightPerSection >= SectionBarHeight + RowHeight,
         y <= IF i = 1 THEN HeaderHeight + 2 ELSE SlotBottom(i - 1)
  PROVE  /\ SectionEnd(y, i, rows) <= SlotBottom(i)
         /\ FirstRow(y, i) + rows * RowHeight <= SlotBottom(i)
         /\ FirstRow(y, i) + rows * RowHeight <= Height
<1> USE DEF HeaderHeight, SectionSeparator, SectionBarHeight, RowHeight
<1>1. HeightPerSection \in Nat
  BY LayoutAssumption DEF HeightPerSection
<1>2. SlotBottom(i) \in Int /\ (i > 1 => SlotBottom(i - 1) \in Int)
  BY <1>1, LayoutAssumption DEF SlotBottom, Stops
<1>3. rows * 40 + 36 <= HeightPerSection
  BY <1>1, RowsPerSectionType DEF RowsPerSection, Larger
<1>4. y + (IF i > 1 THEN 1 ELSE 0) + HeightPerSection <= SlotBottom(i)
  <2>1. CASE i = 1
    BY <2>1, <1>1 DEF SlotBottom
  <2>2. CASE i > 1
    BY <2>2, <1>1, <1>2, SlotStep
  <2> QED BY <2>1, <2>2, LayoutAssumption DEF Stops
<1>5. FirstRow(y, i) + rows * 40 <= SlotBottom(i)
  BY <1>1, <1>2, <1>3, <1>4, LayoutAssumption DEF FirstRow, Stops
<1>6. SectionEnd(y, i, rows) <= SlotBottom(i)
  BY <1>1, <1>2, <1>3, <1>4, <1>5, LayoutAssumption DEF SectionEnd, FirstRow, Larger, Stops
<1>7. FirstRow(y, i) + rows * 40 <= Height
  BY <1>1, <1>2, <1>5, SlotOnPanel, LayoutAssumption DEF FirstRow, Stops
<1> QED BY <1>5, <1>6, <1>7

-----------------------------------------------------------------------------
\* Types

LEMMA PeriodType == Period \in [Tickers -> Nat \ {0}]
BY LoopAssumption DEF Period, Tickers

LEMMA ConfigType ==
  ASSUME NEW c \in Configs
  PROVE  /\ c.scheduled \in BOOLEAN /\ c.maxPages \in Nat
         /\ c.start \in 0..(DayMinutes - 1) /\ c.stop \in 0..(DayMinutes - 1)
BY LoopAssumption

LEMMA DayType == DayTicks \in Nat \ {0} /\ DayTicks = DayMinutes * Minute
BY LoopAssumption, SMT DEF DayTicks

LEMMA Intervals ==
  /\ Minute \in Nat \ {0} /\ PageInterval \in Nat \ {0} /\ MaxStall \in Nat
BY LoopAssumption

LEMMA NamedBounds == Late \in Nat /\ Never \in Nat
BY LoopAssumption DEF Late, Never

\* The rows that a frame shows are rows of the lists.
LEMMA RenderType ==
  ASSUME TypeOK, NEW p \in Nat, Render(p)
  PROVE  frame' \in [Stops -> SUBSET (1..Longest)] /\ age' = 0
<1> DEFINE window == [s \in Stops |-> PageWindow(lists[s], config.maxPages, p)]
           shows == [s \in Stops |-> window[s][2] - window[s][1]]
<1>1. frame' = [s \in Stops |-> {window[s][1] + r : r \in RowsOnPanel(s, shows)}] /\ age' = 0
  BY DEF Render
<1>2. ASSUME NEW s \in Stops
      PROVE  {window[s][1] + r : r \in RowsOnPanel(s, shows)} \subseteq 1..Longest
  <2>1. lists[s] \in Nat /\ lists[s] <= Longest /\ config.maxPages \in Nat
    BY LoopAssumption, ConfigType DEF TypeOK
  <2>2. /\ window[s][1] \in Nat /\ window[s][2] \in Nat
        /\ window[s][1] <= window[s][2] /\ window[s][2] <= lists[s]
    BY <2>1, WindowIsInList
  <2>3. shows[s] = window[s][2] - window[s][1]
    OBVIOUS
  <2> HIDE DEF window, shows
  <2>4. RowsOnPanel(s, shows) \subseteq 1..Smaller(shows[s], RowsPerSection)
    BY DEF RowsOnPanel
  <2>5. Smaller(shows[s], RowsPerSection) \in Int /\ Smaller(shows[s], RowsPerSection) <= shows[s]
    BY <2>2, <2>3, RowsPerSectionType DEF Smaller
  <2>6. ASSUME NEW r \in RowsOnPanel(s, shows)
        PROVE  window[s][1] + r \in 1..Longest
    BY <2>1, <2>2, <2>3, <2>4, <2>5, LoopAssumption
  <2> QED BY <2>6
<1> HIDE DEF window, shows
<1> QED BY <1>1, <1>2

LEMMA BehindStep ==
  ASSUME NEW n \in {0, 1}, behind \in 0..(Late + 1), Behind(n)
  PROVE  /\ behind' \in 0..(Late + 1) /\ behind' <= behind + n
         /\ AsWanted' => behind' = 0
BY NamedBounds DEF Behind, Smaller

LEMMA SwitchType ==
  ASSUME TypeOK, NEW on \in BOOLEAN, Switch(on)
  PROVE  /\ lit' \in BOOLEAN /\ excuse' \in {"none", "driver", "early"}
         /\ events' \in 0..MaxEvents
         /\ excuse' = "none" => lit' = on
BY LoopAssumption DEF TypeOK, Switch, Disturb

-----------------------------------------------------------------------------
\* TypeOK

Page(p) == p \in 0..(PageCycle - 1) /\ p \in Nat
Frames(f, a) == f \in [Stops -> SUBSET (1..Longest)] /\ a \in 0..Never

LEMMA TypeInit == Init => TypeOK
<1> SUFFICES ASSUME Init PROVE TypeOK
  OBVIOUS
<1>1. until \in [Tickers -> Nat] /\ \A t \in Tickers : until[t] \in 1..Period[t]
  BY PeriodType DEF Init, InitProcess
<1>2. wall \in 0..(DayTicks - 1) /\ page \in 0..(PageCycle - 1)
  BY LoopAssumption DEF Init, InitProcess
<1>3. frame \in [Stops -> SUBSET (1..Longest)]
  BY DEF Init
<1>4. age \in 0..Never /\ behind \in 0..(Late + 1) /\ lag \in 0..MaxStall /\ events \in 0..MaxEvents
  BY NamedBounds, LoopAssumption DEF Init, InitProcess
<1> QED
  BY <1>1, <1>2, <1>3, <1>4 DEF Init, InitProcess, TypeOK

\* What the end of the process leaves in its variables.
LEMMA EndsType ==
  ASSUME ProcessEnds
  PROVE  /\ until' \in [Tickers -> Nat] /\ \A t \in Tickers : until'[t] \in 1..Period[t]
         /\ pending' = {} /\ sleeping' = FALSE
         /\ page' \in 0..(PageCycle - 1) /\ lag' \in 0..MaxStall
BY PeriodType, LoopAssumption DEF ProcessEnds

LEMMA TickType ==
  ASSUME TypeOK, Tick
  PROVE  TypeOK'
<1>1. wall' \in 0..(DayTicks - 1)
  BY DayType, SMT DEF Tick, TypeOK
<1>2. /\ pending' \subseteq IF phase = "loop" THEN Running(config) \cup {"quit"} ELSE {}
      /\ until' \in [Tickers -> Nat] /\ \A t \in Tickers : until'[t] \in 1..Period[t]
      /\ lag' \in 0..MaxStall
  <2>1. CASE phase = "loop"
    <3> DEFINE fires == {t \in Running(config) : until[t] = 1}
    <3>1. /\ pending' = pending \cup fires
          /\ until' = [t \in Tickers |-> IF t \in fires THEN Period[t]
                                         ELSE IF t \in Running(config) THEN until[t] - 1
                                         ELSE until[t]]
          /\ lag' = IF pending = {} THEN 0 ELSE lag + 1
          /\ pending # {} => lag < MaxStall
      BY <2>1 DEF Tick
    <3>2. \A t \in Tickers : until'[t] \in 1..Period[t]
      BY <3>1, PeriodType DEF TypeOK
    <3>3. until' \in [Tickers -> Nat]
      BY <3>1, PeriodType DEF TypeOK
    <3>4. pending' \subseteq Running(config) \cup {"quit"}
      BY <2>1, <3>1 DEF TypeOK
    <3>5. lag' \in 0..MaxStall
      BY <3>1, LoopAssumption DEF TypeOK
    <3> QED BY <2>1, <3>2, <3>3, <3>4, <3>5
  <2>2. CASE phase # "loop"
    BY <2>2 DEF Tick, timers, TypeOK
  <2> QED BY <2>1, <2>2
<1>3. age' \in 0..Never
  BY NamedBounds DEF Tick, Smaller, TypeOK
<1>4. behind' \in 0..(Late + 1)
  BY BehindStep DEF Tick, TypeOK
<1> QED BY <1>1, <1>2, <1>3, <1>4 DEF Tick, TypeOK

LEMMA TypeStep == TypeOK /\ [Next]_vars => TypeOK'
<1> SUFFICES ASSUME TypeOK, [Next]_vars PROVE TypeOK'
  OBVIOUS
<1> USE DEF timers, screen, KeepFrame
<1>0. Page(page) /\ Frames(frame, age) /\ behind \in 0..(Late + 1)
  BY LoopAssumption DEF TypeOK, Page, Frames
<1>1. CASE Launch
  <2>1. sleeping' \in BOOLEAN /\ Switch(~sleeping')
    BY <1>1 DEF Launch
  <2>2. /\ lit' \in BOOLEAN /\ excuse' \in {"none", "driver", "early"}
        /\ events' \in 0..MaxEvents
    BY <2>1, SwitchType
  <2>3. behind' \in 0..(Late + 1)
    BY <1>0, <1>1, BehindStep DEF Launch
  <2> QED BY <1>1, <2>1, <2>2, <2>3 DEF Launch, TypeOK
<1>2. CASE EnterLoop
  <2>1. Frames(frame', age')
    BY <1>0, <1>2, RenderType, NamedBounds DEF EnterLoop, Page, Frames
  <2>2. behind' \in 0..(Late + 1)
    BY <1>0, <1>2, BehindStep DEF EnterLoop
  <2> QED BY <1>2, <2>1, <2>2 DEF EnterLoop, Frames, TypeOK
<1>3. CASE ScheduleFires
  <2>1. /\ sleeping' \in BOOLEAN /\ lit' \in BOOLEAN
        /\ excuse' \in {"none", "driver", "early"} /\ events' \in 0..MaxEvents
        /\ Frames(frame', age')
    <3>1. CASE WakeUp
      <4>1. Render(page) /\ Switch(TRUE) /\ sleeping' = FALSE
        BY <3>1 DEF WakeUp
      <4>2. Frames(frame', age')
        BY <1>0, <4>1, RenderType, NamedBounds DEF Page, Frames
      <4> QED BY <4>1, <4>2, SwitchType
    <3>2. CASE FallAsleep
      <4>1. Switch(FALSE) /\ sleeping' = TRUE
        BY <3>2 DEF FallAsleep
      <4>2. Frames(frame', age')
        BY <3>2, NamedBounds DEF FallAsleep, Frames
      <4> QED BY <4>1, <4>2, SwitchType
    <3>3. CASE UNCHANGED <<sleeping, screen, excuse, events>>
      BY <1>0, <3>3 DEF TypeOK
    <3> QED BY <1>3, <3>1, <3>2, <3>3 DEF ScheduleFires
  <2>2. behind' \in 0..(Late + 1)
    BY <1>0, <1>3, BehindStep DEF ScheduleFires
  <2> QED BY <1>3, <2>1, <2>2 DEF ScheduleFires, Receive, Frames, TypeOK
<1>4. CASE RefreshFires
  <2>1. Frames(frame', age')
    BY <1>0, <1>4, RenderType, NamedBounds DEF RefreshFires, Page, Frames
  <2>2. behind' \in 0..(Late + 1)
    BY <1>0, <1>4, BehindStep DEF RefreshFires
  <2> QED BY <1>4, <2>1, <2>2 DEF RefreshFires, Receive, Frames, TypeOK
<1>5. CASE PageFires
  <2>1. Page(page') /\ Frames(frame', age')
    <3>1. CASE sleeping
      BY <1>0, <1>5, <3>1 DEF PageFires
    <3>2. CASE ~sleeping
      <4>1. page' = (page + 1) % PageCycle /\ Render(page')
        BY <1>5, <3>2 DEF PageFires
      <4>2. Page(page')
        BY <1>0, <4>1, LoopAssumption, SMT DEF Page
      <4> QED BY <4>1, <4>2, RenderType, NamedBounds DEF Page, Frames
    <3> QED BY <3>1, <3>2
  <2>2. behind' \in 0..(Late + 1)
    BY <1>0, <1>5, BehindStep DEF PageFires
  <2> QED BY <1>5, <2>1, <2>2 DEF PageFires, Receive, Page, Frames, TypeOK
<1>6. CASE Quit
  <2>1. Switch(FALSE)
    BY <1>6 DEF Quit
  <2>2. behind' \in 0..(Late + 1)
    BY <1>0, <1>6, BehindStep DEF Quit
  <2> QED BY <1>6, <2>1, <2>2, EndsType, SwitchType DEF Quit, TypeOK
<1>7. CASE Terminate
  <2>1. behind' \in 0..(Late + 1)
    BY <1>0, <1>7, BehindStep DEF Terminate
  <2>2. CASE phase = "loop"
    BY <1>7, <2>1, <2>2, LoopAssumption DEF Terminate, Disturb, TypeOK
  <2>3. CASE phase = "starting"
    BY <1>7, <2>1, <2>3, EndsType, LoopAssumption DEF Terminate, Disturb, TypeOK
  <2> QED BY <1>7, <2>2, <2>3 DEF Terminate
<1>8. CASE Crash
  <2>1. behind' \in 0..(Late + 1)
    BY <1>0, <1>8, BehindStep DEF Crash
  <2> QED BY <1>8, <2>1, EndsType, LoopAssumption DEF Crash, Disturb, TypeOK
<1>9. CASE StartService
  <2>1. behind' \in 0..(Late + 1)
    BY <1>0, <1>9, BehindStep DEF StartService
  <2> QED BY <1>9, <2>1 DEF StartService, TypeOK
<1>10. CASE ClockIsSet
  <2>1. wall' \in 0..(DayTicks - 1)
    BY <1>10, DayType, LoopAssumption, SMT DEF ClockIsSet, TypeOK
  <2>2. behind' \in 0..(Late + 1)
    BY <1>0, <1>10, BehindStep DEF ClockIsSet
  <2> QED BY <1>10, <2>1, <2>2, LoopAssumption DEF ClockIsSet, Disturb, TypeOK
<1>11. CASE ListsChange
  <2>1. behind' \in 0..(Late + 1)
    BY <1>0, <1>11, BehindStep DEF ListsChange
  <2> QED BY <1>11, <2>1, LoopAssumption DEF ListsChange, Disturb, TypeOK
<1>12. CASE Tick
  BY <1>12, TickType
<1>13. CASE UNCHANGED vars
  BY <1>13 DEF vars, TypeOK
<1> QED
  BY <1>1, <1>2, <1>3, <1>4, <1>5, <1>6, <1>7, <1>8, <1>9, <1>10, <1>11, <1>12, <1>13
  DEF Next, Program, Loop

\* Every variable keeps its range, for every configuration: the window of a page is never
\* out of its list's range, the page never out of the cycle.
THEOREM TypesAreKept == Spec => []TypeOK
<1> QED BY TypeInit, TypeStep, PTL DEF Spec

-----------------------------------------------------------------------------
\* The inductive invariant.  The loop's view of the panel is right unless it has an excuse;
\* the lateness is bounded by the schedule's ticker while it has not fired, by the stall
\* once it has; and so is the age of the frame by the page ticker.

Believes ==
  /\ excuse = "none" /\ phase \in {"starting", "loop"} => (lit <=> ~sleeping)
  /\ excuse = "none" /\ phase = "stopped" => ~lit
  /\ ~config.scheduled /\ phase \in {"starting", "loop"} => ~sleeping

OnTime ==
  /\ excuse = "none" /\ phase # "loop" => behind = 0
  /\ excuse = "none" /\ phase = "loop" =>
       IF "schedule" \in pending THEN behind <= Minute + lag
       ELSE behind <= Minute - until["schedule"]

Fresh ==
  phase = "loop" /\ ~sleeping =>
    IF "page" \in pending THEN age <= PageInterval + lag
    ELSE age <= PageInterval - until["page"]

AtRest == phase # "loop" => until = Period

Sound == Believes /\ OnTime /\ Fresh /\ AtRest

\* isActiveTime's three cases are one walk around the clock (main.go:380-394).
LEMMA OpenIsActive ==
  ASSUME NEW now \in 0..(DayTicks - 1), NEW c \in Configs
  PROVE  Active(now, c) <=> Open(now, c)
<1> DEFINE m == now \div Minute
<1>1. m \in 0..(DayMinutes - 1)
  BY DayType, MinuteOfDay, LoopAssumption
<1>2. c.start \in 0..(DayMinutes - 1) /\ c.stop \in 0..(DayMinutes - 1)
  BY ConfigType
<1>3. (m - c.start) % DayMinutes
        = IF m < c.start THEN m - c.start + DayMinutes ELSE m - c.start
  <2> HIDE DEF m
  <2> QED BY <1>1, <1>2, LoopAssumption, ModuloDay
<1>4. (c.stop - c.start) % DayMinutes
        = IF c.stop < c.start THEN c.stop - c.start + DayMinutes ELSE c.stop - c.start
  BY <1>2, LoopAssumption, ModuloDay
<1>5. (\/ c.start = c.stop
       \/ c.start < c.stop /\ c.start <= m /\ m < c.stop
       \/ c.start > c.stop /\ (m >= c.start \/ m < c.stop))
      <=> (c.start = c.stop \/ (m - c.start) % DayMinutes < (c.stop - c.start) % DayMinutes)
  <2> HIDE DEF m
  <2> QED BY <1>1, <1>2, <1>3, <1>4, LoopAssumption
<1> QED BY <1>5 DEF Active, Open, IsActiveTime

LEMMA SoundInit == Init => Sound
BY DEF Init, InitProcess, Sound, Believes, OnTime, Fresh, AtRest

\* Steps that leave the loop's view alone and draw or keep the frame.
LEMMA QuietStep ==
  ASSUME TypeOK, Sound, behind' \in Nat, behind' <= behind,
         UNCHANGED <<phase, config, until, sleeping, lit, lag, excuse>>,
         pending' \ {"quit"} = pending \ {"quit"},
         age' = 0 \/ age' = age
  PROVE  Sound'
<1>1. behind \in Nat /\ lag \in Nat /\ until["schedule"] \in 1..Minute
  BY NamedBounds, LoopAssumption DEF TypeOK, Tickers, Period
<1>2. Believes' /\ AtRest'
  BY DEF Sound, Believes, AtRest
<1>3. ("schedule" \in pending' <=> "schedule" \in pending) /\ ("page" \in pending' <=> "page" \in pending)
  OBVIOUS
<1>4. until["page"] \in 1..PageInterval
  BY DEF TypeOK, Tickers, Period
<1>5. Fresh'
  BY <1>3, <1>4, LoopAssumption DEF Sound, Fresh, TypeOK
<1>6. OnTime'
  BY <1>1, <1>3, LoopAssumption DEF Sound, OnTime
<1> QED BY <1>2, <1>5, <1>6 DEF Sound

\* A refresh or a page that is served draws a frame, unless the loop sleeps.
LEMMA OtherFires ==
  ASSUME TypeOK, Sound, behind' \in Nat, behind' <= behind, phase = "loop",
         UNCHANGED <<phase, config, until, sleeping, lit, lag, excuse>>,
         \E c \in {"refresh", "page"} : pending' = pending \ {c},
         ~sleeping => age' = 0
  PROVE  Sound'
<1>1. behind \in Nat /\ lag \in Nat /\ until["schedule"] \in 1..Minute /\ until["page"] \in 1..PageInterval
  BY NamedBounds, Intervals DEF TypeOK, Tickers, Period
<1>2. Believes' /\ AtRest'
  BY DEF Sound, Believes, AtRest
<1>3. "schedule" \in pending' <=> "schedule" \in pending
  OBVIOUS
<1>4. 0 <= PageInterval - until["page"] /\ 0 <= PageInterval + lag
  BY <1>1, Intervals
<1>5. Fresh'
  BY <1>4 DEF Fresh
<1>6. OnTime'
  BY <1>1, <1>3, Intervals DEF Sound, OnTime
<1> QED BY <1>2, <1>5, <1>6 DEF Sound

LEMMA TickSound ==
  ASSUME TypeOK, TypeOK', Sound, Tick
  PROVE  Sound'
<1>1. behind' <= behind + 1 /\ (AsWanted' => behind' = 0)
  BY BehindStep DEF Tick, TypeOK
<1>0. behind \in Nat /\ behind' \in Nat /\ lag \in Nat
  BY NamedBounds, Intervals DEF TypeOK
<1>2. UNCHANGED <<phase, config, sleeping, lit, excuse>>
  BY DEF Tick
<1>3. Believes'
  BY <1>2 DEF Sound, Believes
<1>4. CASE phase # "loop"
  <2>1. UNCHANGED timers
    BY <1>4 DEF Tick
  <2>2. excuse = "none" => AsWanted'
    BY <1>2, <1>4 DEF Tick, AsWanted, InCharge, Wanted, Sound, Believes, TypeOK
  <2> QED BY <1>1, <1>2, <1>3, <1>4, <2>1, <2>2 DEF Sound, OnTime, Fresh, AtRest, timers
<1>5. CASE phase = "loop"
  <2> DEFINE fires == {t \in Running(config) : until[t] = 1}
  <2>1. /\ pending' = pending \cup fires
        /\ until' = [t \in Tickers |-> IF t \in fires THEN Period[t]
                                       ELSE IF t \in Running(config) THEN until[t] - 1
                                       ELSE until[t]]
        /\ lag' = IF pending = {} THEN 0 ELSE lag + 1
    BY <1>5 DEF Tick
  <2>2. age' <= age + 1
    BY NamedBounds DEF Tick, Smaller, TypeOK
  <2>3. /\ Period["schedule"] = Minute /\ Period["page"] = PageInterval
        /\ "schedule" \in Tickers /\ "page" \in Running(config) /\ "page" \in Tickers
    BY DEF Period, Tickers, Running
  <2>4. Fresh'
    BY <1>2, <1>5, <2>1, <2>2, <2>3, Intervals DEF Sound, Fresh, TypeOK
  <2>6. phase' = "loop" /\ excuse' = excuse
    BY <1>2, <1>5
  <2>5. OnTime'
    <3>1. CASE config.scheduled
      <4>1. "schedule" \in Running(config)
        BY <3>1 DEF Running, Tickers
      <4>2. CASE "schedule" \in pending
        <5>1. "schedule" \in pending' /\ lag' = lag + 1
          BY <2>1, <4>2
        <5>2. excuse = "none" => behind <= Minute + lag
          BY <1>5, <4>2 DEF Sound, OnTime
        <5>3. excuse = "none" => behind' <= Minute + lag'
          BY <1>0, <1>1, <5>1, <5>2, Intervals
        <5> QED BY <2>6, <5>1, <5>3 DEF OnTime
      <4>3. CASE "schedule" \notin pending /\ until["schedule"] = 1
        <5>1. "schedule" \in pending'
          BY <2>1, <4>1, <4>3
        <5>2. excuse = "none" => behind <= Minute - 1
          BY <1>5, <4>3 DEF Sound, OnTime
        <5>3. Minute + lag' \in Nat /\ Minute <= Minute + lag'
          <6>1. lag' \in Nat
            BY Intervals DEF TypeOK
          <6> QED BY <6>1, Intervals, SumIsNat
        <5>4. excuse = "none" => behind' <= Minute + lag'
          BY <1>0, <1>1, <5>2, <5>3, Intervals
        <5> QED BY <2>6, <5>1, <5>4 DEF OnTime
      <4>4. CASE "schedule" \notin pending /\ until["schedule"] # 1
        <5>1. "schedule" \notin pending' /\ until'["schedule"] = until["schedule"] - 1
          BY <2>1, <2>3, <4>1, <4>4
        <5> QED BY <1>0, <1>1, <1>2, <1>5, <2>3, <4>4, <5>1, Intervals DEF Sound, OnTime, TypeOK
      <4> QED BY <4>2, <4>3, <4>4
    <3>2. CASE ~config.scheduled
      <4>1. excuse = "none" => AsWanted'
        BY <1>2, <1>5, <3>2 DEF AsWanted, Wanted, Open, Sound, Believes
      <4>2. "schedule" \notin Running(config)
        BY <3>2 DEF Running
      <4>3. until'["schedule"] \in 1..Minute /\ lag' \in Nat
        BY <2>3, Intervals DEF TypeOK
      <4>4. excuse = "none" => behind' = 0
        BY <1>1, <4>1
      <4>5. 0 <= Minute + lag'
        <5>1. Minute + lag' \in Nat
          BY <4>3, SumIsNat, Intervals
        <5> QED BY <5>1
      <4>6. 0 <= Minute - until'["schedule"]
        BY <4>3, Intervals
      <4> QED BY <2>6, <4>4, <4>5, <4>6 DEF OnTime
    <3> QED BY <3>1, <3>2
  <2> QED BY <1>2, <1>3, <1>5, <2>4, <2>5 DEF Sound, AtRest
<1> QED BY <1>4, <1>5

LEMMA SoundStep == TypeOK /\ TypeOK' /\ Sound /\ [Next]_vars => Sound'
<1> SUFFICES ASSUME TypeOK, TypeOK', Sound, [Next]_vars PROVE Sound'
  OBVIOUS
<1>0. behind \in 0..(Late + 1) /\ behind \in Nat /\ behind' \in Nat /\ page \in Nat
  BY NamedBounds, LoopAssumption DEF TypeOK
<1> USE DEF timers, screen, KeepFrame
\* What Behind(0) does to the lateness.
<1> DEFINE Kept == behind' <= behind /\ (AsWanted' => behind' = 0)
<1>1. CASE Launch
  <2>1. Switch(~sleeping') /\ (sleeping' <=> ~Active(wall, config')) /\ config' \in Configs
    BY <1>1 DEF Launch
  <2>2. excuse' = "none" => (lit' <=> ~sleeping')
    BY <2>1, SwitchType
  <2>3. Believes'
    BY <1>1, <2>1, <2>2 DEF Launch, Believes, Active
  <2>4. excuse' = "none" => AsWanted'
    <3>1. Active(wall, config') <=> Open(wall, config')
      BY <2>1, OpenIsActive DEF TypeOK
    <3> QED BY <1>1, <2>1, <2>2, <3>1 DEF Launch, AsWanted, Wanted
  <2>5. Kept
    BY <1>0, <1>1, BehindStep DEF Launch
  <2> QED BY <1>1, <2>3, <2>4, <2>5 DEF Launch, Sound, OnTime, Fresh, AtRest
<1>2. CASE EnterLoop
  <2>1. Kept /\ (behind = 0 \/ excuse # "none")
    BY <1>0, <1>2, BehindStep DEF EnterLoop, Sound, OnTime
  <2>2. until["schedule"] \in 1..Minute /\ until = Period /\ pending = {}
    BY <1>2 DEF EnterLoop, TypeOK, Tickers, Period, Sound, AtRest
  <2>3. until["page"] = PageInterval
    BY <2>2 DEF Period, Tickers
  <2>4. ~sleeping => age' = 0
    BY <1>0, <1>2, RenderType DEF EnterLoop
  <2>5. Fresh'
    BY <1>2, <2>2, <2>3, <2>4, Intervals DEF EnterLoop, Fresh
  <2>6. excuse = "none" => behind' = 0
    BY <1>0, <1>2, <2>1 DEF EnterLoop
  <2>7. OnTime'
    BY <1>2, <2>2, <2>6, Intervals DEF EnterLoop, OnTime
  <2> QED BY <1>2, <2>5, <2>7 DEF EnterLoop, Sound, Believes, AtRest
<1>3. CASE ScheduleFires
  <2>1. Kept
    BY <1>0, <1>3, BehindStep DEF ScheduleFires
  <2>2. /\ UNCHANGED <<wall, phase, config, until, lag>>
        /\ phase = "loop" /\ pending' = pending \ {"schedule"}
    BY <1>3 DEF ScheduleFires, Receive
  <2>3. Active(wall, config) <=> Open(wall, config)
    BY OpenIsActive DEF TypeOK
  <2>4. /\ excuse' = "none" => (lit' <=> ~sleeping') /\ (~sleeping' <=> Active(wall, config))
        /\ ~config.scheduled => ~sleeping'
    <3>1. CASE sleeping /\ Active(wall, config) /\ WakeUp
      BY <3>1, SwitchType DEF WakeUp
    <3>2. CASE ~sleeping /\ ~Active(wall, config) /\ FallAsleep
      <4>1. Switch(FALSE) /\ sleeping' = TRUE /\ config.scheduled
        BY <3>2 DEF FallAsleep, Active
      <4> QED BY <3>2, <4>1, SwitchType
    <3>3. CASE (sleeping <=> ~Active(wall, config)) /\ UNCHANGED <<sleeping, screen, excuse, events>>
      BY <2>2, <3>3 DEF Sound, Believes
    <3> QED BY <1>3, <3>1, <3>2, <3>3 DEF ScheduleFires
  <2>5. Believes'
    BY <2>2, <2>4 DEF Believes
  <2>6. excuse' = "none" => behind' = 0
    <3>1. excuse' = "none" => AsWanted'
      BY <2>2, <2>3, <2>4 DEF AsWanted, Wanted
    <3> QED BY <2>1, <3>1
  <2>7. 0 <= Minute - until["schedule"]
    <3>1. until["schedule"] \in 1..Minute
      BY DEF TypeOK, Tickers, Period
    <3> QED BY <3>1, Intervals
  <2>8. OnTime'
    BY <2>2, <2>6, <2>7 DEF OnTime
  <2>9. Fresh'
    <3>1. CASE WakeUp
      <4>1. age' = 0
        BY <1>0, <3>1, RenderType DEF WakeUp
      <4>2. 0 <= PageInterval - until["page"] /\ 0 <= PageInterval + lag
        <5>1. until["page"] \in 1..PageInterval /\ lag \in Nat
          BY Intervals DEF TypeOK, Tickers, Period
        <5> QED BY <5>1, Intervals
      <4> QED BY <2>2, <4>1, <4>2 DEF Fresh
    <3>2. CASE FallAsleep
      BY <3>2 DEF FallAsleep, Fresh
    <3>3. CASE UNCHANGED <<sleeping, screen, excuse, events>>
      BY <2>2, <3>3 DEF Sound, Fresh
    <3> QED BY <1>3, <3>1, <3>2, <3>3 DEF ScheduleFires
  <2> QED BY <2>2, <2>5, <2>8, <2>9 DEF Sound, AtRest
<1>4. CASE RefreshFires
  <2>1. Kept
    BY <1>0, <1>4, BehindStep DEF RefreshFires
  <2>2. ~sleeping => age' = 0
    BY <1>0, <1>4, RenderType DEF RefreshFires
  <2> QED BY <1>0, <1>4, <2>1, <2>2, OtherFires DEF RefreshFires, Receive
<1>5. CASE PageFires
  <2>1. Kept
    BY <1>0, <1>5, BehindStep DEF PageFires
  <2>2. CASE sleeping
    BY <1>0, <1>5, <2>1, <2>2, OtherFires DEF PageFires, Receive
  <2>3. CASE ~sleeping
    <3>1. Render(page') /\ page' \in Nat
      BY <1>5, <2>3, LoopAssumption DEF PageFires, TypeOK
    <3>2. age' = 0
      BY <3>1, RenderType
    <3> QED BY <1>0, <1>5, <2>1, <3>2, OtherFires DEF PageFires, Receive
  <2> QED BY <2>2, <2>3
<1>6. CASE Quit
  <2>1. Kept
    BY <1>0, <1>6, BehindStep DEF Quit
  <2>2. Switch(FALSE) /\ phase' \in {"down", "stopped"} /\ until' = Period /\ sleeping' = FALSE
    BY <1>6 DEF Quit, ProcessEnds
  <2>3. excuse' = "none" => ~lit'
    BY <2>2, SwitchType
  <2>4. excuse' = "none" => AsWanted'
    BY <2>2, <2>3 DEF AsWanted, InCharge, Wanted
  <2> QED BY <2>1, <2>2, <2>3, <2>4 DEF Sound, Believes, OnTime, Fresh, AtRest
<1>7. CASE Terminate
  <2>1. Kept
    BY <1>0, <1>7, BehindStep DEF Terminate
  <2>2. CASE phase = "loop"
    BY <1>0, <1>7, <2>1, <2>2, QuietStep DEF Terminate
  <2>3. CASE phase = "starting"
    BY <1>7, <2>3 DEF Terminate, ProcessEnds, Sound, Believes, OnTime, Fresh, AtRest
  <2> QED BY <1>7, <2>2, <2>3 DEF Terminate
<1>8. CASE Crash
  <2>1. Kept
    BY <1>0, <1>8, BehindStep DEF Crash
  <2>2. phase' = "down" /\ until' = Period
    BY <1>8 DEF Crash, ProcessEnds
  <2>3. AsWanted'
    BY <2>2 DEF AsWanted, InCharge
  <2> QED BY <2>1, <2>2, <2>3 DEF Sound, Believes, OnTime, Fresh, AtRest
<1>9. CASE StartService
  <2>1. Kept
    BY <1>0, <1>9, BehindStep DEF StartService
  <2>2. AsWanted'
    BY <1>9 DEF StartService, AsWanted, InCharge
  <2> QED BY <1>9, <2>1, <2>2 DEF StartService, Sound, Believes, OnTime, Fresh, AtRest
<1>10. CASE ClockIsSet
  <2>1. Kept
    BY <1>0, <1>10, BehindStep DEF ClockIsSet
  <2> QED BY <1>0, <1>10, <2>1, QuietStep DEF ClockIsSet
<1>11. CASE ListsChange
  <2>1. Kept
    BY <1>0, <1>11, BehindStep DEF ListsChange
  <2> QED BY <1>0, <1>11, <2>1, QuietStep DEF ListsChange
<1>12. CASE Tick
  BY <1>12, TickSound
<1>13. CASE UNCHANGED vars
  BY <1>13 DEF vars, Sound, Believes, OnTime, Fresh, AtRest
<1> QED
  BY <1>1, <1>2, <1>3, <1>4, <1>5, <1>6, <1>7, <1>8, <1>9, <1>10, <1>11, <1>12, <1>13
  DEF Next, Program, Loop

\* The panel follows the schedule, within one check and the stall, for every schedule, with
\* any number of disturbances (main.go:116-131, 274-296, 302-311).
THEOREM PanelIsOnTime == Spec => []PanelFollowsSchedule
<1>1. TypeOK /\ Sound => PanelFollowsSchedule
  <2> SUFFICES ASSUME TypeOK, Sound, excuse = "none" PROVE ~(behind > Late)
    BY DEF PanelFollowsSchedule
  <2>1. /\ behind \in Nat /\ lag \in 0..MaxStall /\ Late = Minute + MaxStall
        /\ until["schedule"] \in 1..Minute
    BY NamedBounds DEF TypeOK, Late, Tickers, Period
  <2> QED BY <2>1, Intervals DEF Sound, OnTime
<1> QED BY <1>1, TypeInit, TypeStep, SoundInit, SoundStep, PTL DEF Spec

\* A board that is awake never shows a frame older than a page and the stall, nor the one
\* it cleared (main.go:273-301).
THEOREM FrameStaysFresh == Spec => []FrameIsFresh
<1>1. TypeOK /\ Sound => FrameIsFresh
  <2> SUFFICES ASSUME TypeOK, Sound, phase = "loop", ~sleeping PROVE age < Never
    BY DEF FrameIsFresh
  <2>1. /\ age \in Nat /\ lag \in 0..MaxStall /\ Never = PageInterval + MaxStall + 1
        /\ until["page"] \in 1..PageInterval
    BY NamedBounds DEF TypeOK, Never, Tickers, Period
  <2> QED BY <2>1, Intervals DEF Sound, Fresh
<1> QED BY <1>1, TypeInit, TypeStep, SoundInit, SoundStep, PTL DEF Spec

=============================================================================

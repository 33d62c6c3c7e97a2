-------------------------- MODULE StaticDataProofs --------------------------
(***************************************************************************)
(* For every interval, schedule and set of stops: the dataset that is      *)
(* served is the right one, the cache keeps it, and the refresher keeps    *)
(* trying and spares the awake hours.  Five inductive invariants: which    *)
(* phases belong to a process that serves, what each phase knows of the    *)
(* datasets, what the cache holds after a whole write, what the gate does  *)
(* to the timer, and how far the timer may be set back.                    *)
(***************************************************************************)
EXTENDS StaticData, TLAPS

PhaseInv ==
  /\ serving \in BOOLEAN
  /\ pc = "idle" => serving
  /\ pc \in {"down", "load"} => ~serving

DataInv ==
  /\ edition \in 1..MaxEdition /\ want \in Stops /\ config \in Stops
  /\ pc \in {"idle", "head"} \/ serving => cur \in Dataset /\ cur.stops = want
  /\ pc \in {"create", "encode", "store"} => new \in Dataset /\ new.stops = want

CacheInv ==
  saved =>
    /\ pc \in {"idle", "head"} => cache = cur
    /\ pc = "get" /\ serving => cache = cur
    /\ pc = "store" => cache = new

\* The recorded age is never less than the time since the last attempt, since it is only
\* ever backdated; and the gate lets no tick be taken at twice the interval.
TimerInv ==
  /\ age \in Nat /\ idleFor \in Nat
  /\ idleFor <= age /\ idleFor <= 2 * Interval
  /\ pc = "idle" => age <= 2 * Interval
  /\ pc = "idle" /\ ~ready => age < 2 * Interval

-----------------------------------------------------------------------------
\* All four hold initially.
LEMMA StaticInit == Init => PhaseInv /\ DataInv /\ CacheInv /\ TimerInv
<1> SUFFICES ASSUME Init PROVE PhaseInv /\ DataInv /\ CacheInv /\ TimerInv
  OBVIOUS
<1>1. PhaseInv
  BY DEF Init, PhaseInv
<1>2. DataInv
  BY StaticAssumption DEF Init, DataInv
<1>3. CacheInv
  BY DEF Init, CacheInv
<1>4. TimerInv
  BY StaticAssumption DEF Init, TimerInv
<1> QED BY <1>1, <1>2, <1>3, <1>4

\* Startup serves when it ends; an exit stops serving; nothing else changes that.
LEMMA PhaseStep == ASSUME PhaseInv, [Next]_vars PROVE PhaseInv'
<1>1. CASE Start \/ Publish \/ Configure
  BY <1>1 DEF Start, Publish, Configure, PhaseInv
<1>2. CASE LoadGob \/ IsNewerZIPAvailable
  BY <1>2 DEF LoadGob, IsNewerZIPAvailable, StartDownload, Done, timer, PhaseInv
<1>3. CASE Check \/ Tick
  BY <1>3 DEF Check, Tick, PhaseInv
<1>4. CASE BuildFromURL \/ CreateGob \/ EncodeGob
  BY <1>4 DEF BuildFromURL, CreateGob, EncodeGob, PhaseInv
<1>5. CASE BuildFails \/ StoreDB \/ Crash
  BY <1>5 DEF BuildFails, StoreDB, Crash, Done, Exit, PhaseInv
<1>6. CASE UNCHANGED vars
  BY <1>6 DEF vars, PhaseInv
<1> QED BY <1>1, <1>2, <1>3, <1>4, <1>5, <1>6 DEF Next

-----------------------------------------------------------------------------
\* What is loaded fits the configuration, and what is built was built for it.
LEMMA DataStep == ASSUME PhaseInv, DataInv, [Next]_vars PROVE DataInv'
<1>1. CASE Start
  BY <1>1 DEF Start, PhaseInv, DataInv
<1>2. CASE LoadGob
  BY <1>2 DEF LoadGob, CacheFits, StartDownload, setup, DataInv
<1>3. CASE Check
  BY <1>3 DEF Check, setup, PhaseInv, DataInv
<1>4. CASE IsNewerZIPAvailable
  BY <1>4 DEF IsNewerZIPAvailable, StartDownload, Done, setup, DataInv
<1>5. CASE BuildFromURL
  <2>1. new' \in Dataset /\ new'.stops = want'
    BY <1>5 DEF BuildFromURL, setup, DataInv, Dataset
  <2> QED BY <1>5, <2>1 DEF BuildFromURL, setup, DataInv
<1>6. CASE BuildFails
  BY <1>6 DEF BuildFails, Done, Exit, setup, DataInv
<1>7. CASE CreateGob
  BY <1>7 DEF CreateGob, setup, DataInv
<1>8. CASE EncodeGob
  BY <1>8 DEF EncodeGob, setup, DataInv
<1>9. CASE StoreDB
  BY <1>9 DEF StoreDB, Done, setup, DataInv
<1>10. CASE Publish
  BY <1>10, StaticAssumption DEF Publish, setup, DataInv
<1>11. CASE Configure
  BY <1>11 DEF Configure, DataInv
<1>12. CASE Crash
  BY <1>12 DEF Crash, Exit, setup, DataInv
<1>13. CASE Tick
  BY <1>13 DEF Tick, setup, DataInv
<1>14. CASE UNCHANGED vars
  BY <1>14 DEF vars, setup, DataInv
<1> QED
  BY <1>1, <1>2, <1>3, <1>4, <1>5, <1>6, <1>7, <1>8, <1>9, <1>10, <1>11, <1>12, <1>13, <1>14
  DEF Next

\* A dataset is saved before it is served, and a cache that is loaded is served as it is.
LEMMA CacheStep == ASSUME PhaseInv, CacheInv, [Next]_vars PROVE CacheInv'
<1>1. CASE Start
  BY <1>1 DEF Start, disk, CacheInv
<1>2. CASE LoadGob
  BY <1>2 DEF LoadGob, StartDownload, timer, PhaseInv, disk, CacheInv
<1>3. CASE Check
  BY <1>3 DEF Check, PhaseInv, disk, CacheInv
<1>4. CASE IsNewerZIPAvailable
  BY <1>4 DEF IsNewerZIPAvailable, StartDownload, Done, disk, CacheInv
<1>5. CASE BuildFromURL
  BY <1>5 DEF BuildFromURL, disk, CacheInv
<1>6. CASE BuildFails
  BY <1>6 DEF BuildFails, Done, Exit, disk, CacheInv
<1>7. CASE CreateGob
  BY <1>7 DEF CreateGob, disk, CacheInv
<1>8. CASE EncodeGob
  BY <1>8 DEF EncodeGob, disk, CacheInv
<1>9. CASE StoreDB
  BY <1>9 DEF StoreDB, Done, disk, CacheInv
<1>10. CASE Publish \/ Configure
  BY <1>10 DEF Publish, Configure, disk, CacheInv
<1>11. CASE Crash
  BY <1>11 DEF Crash, Exit, disk, CacheInv
<1>12. CASE Tick
  BY <1>12 DEF Tick, disk, CacheInv
<1>13. CASE UNCHANGED vars
  BY <1>13 DEF vars, disk, CacheInv
<1> QED
  BY <1>1, <1>2, <1>3, <1>4, <1>5, <1>6, <1>7, <1>8, <1>9, <1>10, <1>11, <1>12, <1>13 DEF Next

-----------------------------------------------------------------------------
\* A failed refresh is recorded at less than the interval ago (staticRetryAt).
LEMMA RetryAgeIsShort == StaticRetryAge \in Nat /\ StaticRetryAge < 2 * Interval
BY StaticAssumption DEF StaticRetryAge

\* An attempt that ends starts the timer again, at an age the gate accepts.
LEMMA DoneKeepsTimer ==
  ASSUME NEW recorded \in Nat, recorded < 2 * Interval, Done(recorded)
  PROVE  TimerInv'
<1>1. (age' = recorded \/ age' = 0) /\ idleFor' = 0
  BY DEF Done
<1> QED BY <1>1, StaticAssumption DEF TimerInv

\* A check that does not start an attempt leaves less than twice the interval.
LEMMA CheckKeepsTimer == ASSUME TimerInv, Check PROVE TimerInv'
<1>1. UNCHANGED <<age, idleFor>>
  BY DEF Check
<1>2. CASE Due
  <2>1. pc' # "idle"
    BY <1>2 DEF Check
  <2> QED BY <1>1, <2>1 DEF TimerInv
<1>3. CASE ~Due
  <2>1. age < 2 * Interval
    BY <1>3, StaticAssumption DEF Due, TimerInv
  <2> QED BY <1>1, <2>1, StaticAssumption DEF TimerInv
<1> QED BY <1>2, <1>3

\* Time passes only between checks, one tick at a time.
LEMMA TickKeepsTimer == ASSUME PhaseInv, TimerInv, Tick PROVE TimerInv'
<1>1. pc' = pc
  BY DEF Tick
<1>2. CASE pc = "idle"
  <2>1. ~ready /\ serving
    BY <1>2 DEF Tick, PhaseInv
  <2>2. ready' /\ age' = age + 1 /\ idleFor' = idleFor + 1
    BY <1>2, <2>1 DEF Tick
  <2>3. age < 2 * Interval
    BY <1>2, <2>1 DEF TimerInv
  <2>4. age' \in Nat /\ idleFor' \in Nat /\ idleFor' <= age' /\ age' <= 2 * Interval
    BY <2>2, <2>3, StaticAssumption DEF TimerInv
  <2> QED BY <2>2, <2>4, StaticAssumption DEF TimerInv
<1>3. CASE pc # "idle"
  <2>1. (age' = age + 1 \/ age' = age) /\ idleFor' = idleFor
    BY <1>3 DEF Tick
  <2> QED BY <1>1, <1>3, <2>1 DEF TimerInv
<1> QED BY <1>2, <1>3

\* Every step keeps the timer within bounds.
LEMMA TimerStep == ASSUME PhaseInv, TimerInv, [Next]_vars PROVE TimerInv'
<1>1. CASE Start \/ BuildFromURL \/ CreateGob \/ EncodeGob
  <2>1. pc' # "idle" /\ UNCHANGED <<age, idleFor>>
    BY <1>1 DEF Start, BuildFromURL, CreateGob, EncodeGob, timer
  <2> QED BY <2>1 DEF TimerInv
<1>2. CASE LoadGob
  <2>1. pc' # "idle" /\ UNCHANGED <<age, idleFor>>
    BY <1>2 DEF LoadGob, StartDownload, timer
  <2> QED BY <2>1 DEF TimerInv
<1>3. CASE Check
  BY <1>3, CheckKeepsTimer
<1>4. CASE IsNewerZIPAvailable
  <2>1. CASE StartDownload
    <3>1. pc' # "idle" /\ UNCHANGED <<age, idleFor>>
      BY <2>1 DEF StartDownload, timer
    <3> QED BY <3>1 DEF TimerInv
  <2>2. CASE ~StartDownload
    <3>1. Done(0)
      BY <1>4, <2>2 DEF IsNewerZIPAvailable
    <3> QED BY <3>1, DoneKeepsTimer, StaticAssumption
  <2> QED BY <2>1, <2>2
<1>5. CASE BuildFails
  <2>1. CASE serving
    BY <1>5, <2>1, DoneKeepsTimer, RetryAgeIsShort DEF BuildFails
  <2>2. CASE ~serving
    <3>1. pc' = "down" /\ age' = 0 /\ idleFor' = 0
      BY <1>5, <2>2 DEF BuildFails, Exit
    <3> QED BY <3>1, StaticAssumption DEF TimerInv
  <2> QED BY <2>1, <2>2
<1>6. CASE StoreDB
  BY <1>6, DoneKeepsTimer, StaticAssumption DEF StoreDB
<1>7. CASE Publish \/ Configure
  <2>1. UNCHANGED <<pc, ready, age, idleFor>>
    BY <1>7 DEF Publish, Configure, timer
  <2> QED BY <2>1 DEF TimerInv
<1>8. CASE Crash
  <2>1. pc' = "down" /\ age' = 0 /\ idleFor' = 0
    BY <1>8 DEF Crash, Exit
  <2> QED BY <2>1, StaticAssumption DEF TimerInv
<1>9. CASE Tick
  BY <1>9, TickKeepsTimer
<1>10. CASE UNCHANGED vars
  <2>1. UNCHANGED <<pc, ready, age, idleFor>>
    BY <1>10 DEF vars, timer
  <2> QED BY <2>1 DEF TimerInv
<1> QED BY <1>1, <1>2, <1>3, <1>4, <1>5, <1>6, <1>7, <1>8, <1>9, <1>10 DEF Next

-----------------------------------------------------------------------------
\* What every reachable state satisfies.
THEOREM StaticInvariant == Spec => [](PhaseInv /\ DataInv /\ CacheInv /\ TimerInv)
<1>1. ASSUME PhaseInv /\ DataInv /\ CacheInv /\ TimerInv, [Next]_vars
      PROVE  (PhaseInv /\ DataInv /\ CacheInv /\ TimerInv)'
  BY <1>1, PhaseStep, DataStep, CacheStep, TimerStep
<1> QED BY <1>1, StaticInit, PTL DEF Spec

\* The dataset that is served was built for the stops of this process (static.go:76-87).
THEOREM ServesRightDataset == Spec => []RightDataset
<1>1. DataInv => RightDataset
  BY DEF DataInv, RightDataset
<1> QED BY <1>1, StaticInvariant, PTL

\* Between two writes the cache is what is served, if the disk took the last
\* write (static.go:96-100,
\* 131-135).
THEOREM CacheIsCurrent == Spec => []CacheHoldsDataset
<1>1. CacheInv => CacheHoldsDataset
  BY DEF CacheInv, CacheHoldsDataset
<1> QED BY <1>1, StaticInvariant, PTL

\* The refresher never rests for longer than twice the interval (main.go:153-161).
THEOREM RefresherKeepsTrying == Spec => []AttemptsKeepComing
<1>1. TimerInv => AttemptsKeepComing
  BY DEF TimerInv, AttemptsKeepComing
<1> QED BY <1>1, StaticInvariant, PTL

-----------------------------------------------------------------------------
\* What TypeOK says beyond the invariants above.
RestInv ==
  /\ pc \in {"down", "load", "idle", "head", "get", "create", "encode", "store"}
  /\ cur \in Dataset \cup {NoCache} /\ new \in Dataset \cup {NoCache}
  /\ cache \in Dataset \cup {NoCache, Torn} /\ saved \in BOOLEAN /\ net \in BOOLEAN
  /\ hour \in 0..(Day - 1) /\ left \in 0..Download
  /\ ready \in BOOLEAN /\ crashes \in 0..MaxCrashes

LEMMA RestInit == Init => RestInv
<1> SUFFICES ASSUME Init PROVE RestInv
  OBVIOUS
<1>1. 0 \in 0..(Day - 1) /\ 0 \in 0..Download /\ 0 \in 0..MaxCrashes
  BY StaticAssumption
<1>2. hour \in 0..(Day - 1) /\ left \in 0..Download /\ crashes \in 0..MaxCrashes
  BY <1>1 DEF Init
<1> QED BY <1>2 DEF Init, RestInv

LEMMA RestStep == ASSUME PhaseInv, DataInv, RestInv, [Next]_vars PROVE RestInv'
<1> USE DEF RestInv, timer, disk, setup
<1>1. CASE Start \/ Publish \/ Configure
  BY <1>1 DEF Start, Publish, Configure
<1>2. CASE LoadGob
  <2>1. left' \in 0..Download /\ ready' \in BOOLEAN
    BY <1>2, StaticAssumption DEF LoadGob, StartDownload
  <2> QED BY <1>2, <2>1 DEF LoadGob, CacheFits, StartDownload
<1>3. CASE Check
  BY <1>3 DEF Check
<1>4. CASE IsNewerZIPAvailable
  <2>1. left' \in 0..Download
    BY <1>4, StaticAssumption DEF IsNewerZIPAvailable, StartDownload
  <2>2. ready' \in BOOLEAN
    BY <1>4 DEF IsNewerZIPAvailable, StartDownload, Done, PhaseInv
  <2> QED BY <1>4, <2>1, <2>2 DEF IsNewerZIPAvailable, StartDownload, Done
<1>5. CASE BuildFromURL
  <2>1. new' \in Dataset
    BY <1>5 DEF BuildFromURL, DataInv, Dataset
  <2> QED BY <1>5, <2>1 DEF BuildFromURL
<1>6. CASE BuildFails
  <2>1. CASE serving
    BY <1>6, <2>1 DEF BuildFails, Done
  <2>2. CASE ~serving
    BY <1>6, <2>2 DEF BuildFails, Exit
  <2> QED BY <2>1, <2>2
<1>7. CASE CreateGob \/ EncodeGob
  BY <1>7 DEF CreateGob, EncodeGob
<1>8. CASE StoreDB
  BY <1>8 DEF StoreDB, Done, PhaseInv
<1>9. CASE Crash
  <2>1. crashes' \in 0..MaxCrashes
    BY <1>9, StaticAssumption DEF Crash
  <2> QED BY <1>9, <2>1 DEF Crash, Exit
<1>10. CASE Tick
  <2>1. hour' \in 0..(Day - 1)
    BY <1>10, StaticAssumption, SMT DEF Tick
  <2>2. left' \in 0..Download
    BY <1>10, StaticAssumption DEF Tick
  <2>3. ready' \in BOOLEAN
    BY <1>10 DEF Tick, PhaseInv
  <2> QED BY <1>10, <2>1, <2>2, <2>3 DEF Tick
<1>11. CASE UNCHANGED vars
  BY <1>11 DEF vars
<1> QED
  BY <1>1, <1>2, <1>3, <1>4, <1>5, <1>6, <1>7, <1>8, <1>9, <1>10, <1>11 DEF Next

\* Every variable keeps its type, and the cache is never anything but a whole dataset, a
\* torn file or none, for every interval, schedule and set of stops.
THEOREM TypesAreKept == Spec => []TypeOK
<1>1. PhaseInv /\ DataInv /\ TimerInv /\ RestInv => TypeOK
  BY DEF PhaseInv, DataInv, TimerInv, RestInv, TypeOK
<1> QED
  BY <1>1, StaticInit, PhaseStep, DataStep, TimerStep, RestInit, RestStep, PTL DEF Spec

-----------------------------------------------------------------------------
\* The recorded age runs ahead of the time since the last attempt by the backdating only.
BackdatedInv == pc = "idle" => age <= idleFor + StaticRetryAge

LEMMA BackdatedStep ==
  ASSUME PhaseInv, TimerInv, BackdatedInv, [Next]_vars
  PROVE  BackdatedInv'
<1>1. CASE \E recorded \in {0, StaticRetryAge} : Done(recorded)
  <2>1. age' \in {0, StaticRetryAge} /\ idleFor' = 0
    BY <1>1 DEF Done
  <2> QED BY <2>1, RetryAgeIsShort DEF BackdatedInv
<1>2. CASE pc' # "idle"
  BY <1>2 DEF BackdatedInv
<1>3. CASE pc' = pc /\ UNCHANGED <<age, idleFor>>
  BY <1>3 DEF BackdatedInv
<1>4. CASE Tick /\ pc = "idle"
  <2>1. age' = age + 1 /\ idleFor' = idleFor + 1
    BY <1>4 DEF Tick, PhaseInv
  <2> QED BY <1>4, <2>1, RetryAgeIsShort DEF BackdatedInv, TimerInv
<1>5. Start \/ LoadGob \/ BuildFromURL \/ CreateGob \/ EncodeGob \/ Crash => pc' # "idle"
  BY DEF Start, LoadGob, StartDownload, BuildFromURL, CreateGob, EncodeGob, Crash, Exit
<1>6. StoreDB \/ IsNewerZIPAvailable \/ BuildFails =>
        (\E recorded \in {0, StaticRetryAge} : Done(recorded)) \/ pc' # "idle"
  BY DEF StoreDB, IsNewerZIPAvailable, BuildFails, StartDownload, Exit
<1>7. Check \/ Publish \/ Configure \/ UNCHANGED vars =>
        pc' # "idle" \/ (pc' = pc /\ UNCHANGED <<age, idleFor>>)
  BY DEF Check, Publish, Configure, vars, timer
<1>8. Tick /\ pc # "idle" => pc' # "idle"
  BY DEF Tick
<1> QED BY <1>1, <1>2, <1>3, <1>4, <1>5, <1>6, <1>7, <1>8 DEF Next

\* An attempt begins at a check, and in awake hours only at twice the interval.
LEMMA AwakeAttempt ==
  ASSUME PhaseInv, TimerInv, BackdatedInv, [Next]_vars, pc = "idle", pc' = "head", IsActiveTime
  PROVE  idleFor >= Interval + (IF Interval <= Retry THEN Interval ELSE Retry)
<1>1. Check
  <2>1. ~(Start \/ LoadGob \/ BuildFromURL \/ CreateGob \/ EncodeGob \/ StoreDB
          \/ IsNewerZIPAvailable \/ BuildFails)
    BY DEF Start, LoadGob, BuildFromURL, CreateGob, EncodeGob, StoreDB, IsNewerZIPAvailable, BuildFails
  <2>2. ~(Publish \/ Configure \/ Crash \/ Tick \/ UNCHANGED vars)
    BY DEF Publish, Configure, Crash, Exit, Tick, vars
  <2> QED BY <2>1, <2>2 DEF Next
<1>2. Due
  BY <1>1 DEF Check
<1>3. age \in Nat /\ idleFor \in Nat /\ Interval \in Nat /\ Retry \in Nat
  BY StaticAssumption DEF TimerInv
<1>4. age >= 2 * Interval
  BY <1>2, <1>3 DEF Due
<1>5. age <= idleFor + StaticRetryAge
  BY DEF BackdatedInv
<1> QED BY <1>3, <1>4, <1>5 DEF StaticRetryAge

\* While the display is awake no refresh is made before the interval and the retry time have
\* passed since the last attempt, whatever the schedule, and also after a failed one, which
\* the refresher records as earlier than it was (main.go:153-161, 322-331).
THEOREM AwakeHoursSpared == Spec => AwakeHoursAreSpared
<1>1. Init => BackdatedInv
  BY DEF Init, BackdatedInv
<1>2. PhaseInv /\ TimerInv /\ BackdatedInv /\ [Next]_vars => BackdatedInv'
  BY BackdatedStep
<1>3. PhaseInv /\ TimerInv /\ BackdatedInv /\ [Next]_vars =>
        [pc = "idle" /\ pc' = "head" /\ IsActiveTime =>
           idleFor >= Interval + (IF Interval <= Retry THEN Interval ELSE Retry)]_vars
  BY AwakeAttempt
<1> QED BY <1>1, <1>2, <1>3, StaticInvariant, PTL DEF Spec, AwakeHoursAreSpared

=============================================================================

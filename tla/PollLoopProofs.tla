--------------------------- MODULE PollLoopProofs ---------------------------
(***************************************************************************)
(* For every poll interval, limit and back-off: the watchdog bounds how    *)
(* long a running process goes without a successful poll.  The argument is *)
(* the sum age + checkIn, which time does not change and which no other    *)
(* step raises above the limit and one check.  Then the types, which need  *)
(* that the powers of two of the back-off grow, and the alarms: the age of *)
(* the data is at most what the polls missed in a row can have taken.      *)
(***************************************************************************)
EXTENDS PollLoop, WellFoundedInduction, TLAPS

-----------------------------------------------------------------------------
\* Every set of natural numbers that is not empty has a least element: the first-order
\* form of induction, by a least counterexample.
LEMMA LeastNatural ==
  ASSUME NEW T, T \subseteq Nat, T # {}
  PROVE  \E x \in T : \A y \in T : x <= y
<1>1. PICK R : R = OpToRel(<, Nat)
  OBVIOUS
<1>2. IsWellFoundedOn(R, Nat)
  BY <1>1, NatLessThanWellFounded
<1>3. \A y \in Nat, x \in Nat : y < x => <<y, x>> \in R
  BY <1>1 DEF OpToRel
<1>4. PICK x \in T : \A y \in T : ~(<<y, x>> \in R)
  BY <1>2, WFMin
<1>5. \A y \in T : ~(y < x)
  BY <1>3, <1>4
<1>6. \A y \in T : x <= y
  <2>1. TAKE y \in T
  <2>2. x \in Nat /\ y \in Nat /\ ~(y < x)
    BY <1>5
  <2> HIDE <1>1
  <2> QED BY <2>2
<1> QED BY <1>6

\* The recursion of Pow2 defines a function: on 0..n first, and all of these agree.
PowersTo(g, n) == g = [i \in 0..n |-> IF i = 0 THEN 1 ELSE 2 * g[i - 1]]

LEMMA PowersToExists == \A n \in Nat : \E g : PowersTo(g, n)
<1> DEFINE Bad == {n \in Nat : ~\E g : PowersTo(g, n)}
<1> SUFFICES ASSUME Bad # {} PROVE FALSE
  OBVIOUS
<1>1. PICK n \in Bad : \A m \in Bad : n <= m
  <2>1. Bad \subseteq Nat
    OBVIOUS
  <2> HIDE DEF Bad
  <2> QED BY <2>1, LeastNatural
<1>2. n # 0
  <2>1. PowersTo([i \in 0..0 |-> 1], 0)
    BY DEF PowersTo
  <2> QED BY <2>1, <1>1
<1>3. PICK g : PowersTo(g, n - 1)
  BY <1>1, <1>2
<1> DEFINE h == [i \in 0..n |-> IF i = n THEN 2 * g[n - 1] ELSE g[i]]
<1>4. \A i \in 0..n : h[i] = IF i = 0 THEN 1 ELSE 2 * h[i - 1]
  BY <1>1, <1>2, <1>3 DEF PowersTo
<1>5. PowersTo(h, n)
  BY <1>4 DEF PowersTo
<1> QED BY <1>5, <1>1

LEMMA PowersAgree ==
  ASSUME NEW g, NEW h, NEW m \in Nat, NEW n \in Nat, PowersTo(g, m), PowersTo(h, n), m <= n
  PROVE  g[m] = h[m]
<1> DEFINE Bad == {i \in 0..m : g[i] # h[i]}
<1> SUFFICES ASSUME Bad # {} PROVE FALSE
  OBVIOUS
<1>1. PICK i \in Bad : \A j \in Bad : i <= j
  <2>1. Bad \subseteq Nat
    OBVIOUS
  <2> HIDE DEF Bad
  <2> QED BY <2>1, LeastNatural
<1>2. i \in 0..m /\ i \in 0..n /\ g[i] # h[i]
  BY <1>1
<1>3. i # 0
  BY <1>2 DEF PowersTo
<1>4. g[i - 1] = h[i - 1]
  <2>1. i - 1 \in 0..m /\ ~(i <= i - 1)
    BY <1>2, <1>3
  <2> QED BY <2>1, <1>1
<1>5. g[i] = 2 * g[i - 1] /\ h[i] = 2 * h[i - 1]
  BY <1>2, <1>3 DEF PowersTo
<1> QED BY <1>2, <1>4, <1>5

LEMMA Pow2Equation ==
  \A n \in Nat : Pow2[n] = IF n = 0 THEN 1 ELSE 2 * Pow2[n - 1]
<1> DEFINE Upto(n) == CHOOSE g : PowersTo(g, n)
           F == [n \in Nat |-> Upto(n)[n]]
<1>1. \A n \in Nat : PowersTo(Upto(n), n)
  BY PowersToExists
<1> HIDE DEF Upto
<1>2. ASSUME NEW n \in Nat
      PROVE  F[n] = IF n = 0 THEN 1 ELSE 2 * F[n - 1]
  <2> PowersTo(Upto(n), n) /\ n \in 0..n
    BY <1>1
  <2>1. CASE n = 0
    BY <2>1 DEF PowersTo
  <2>2. CASE n # 0
    <3>1. n - 1 \in Nat /\ n - 1 <= n
      BY <2>2
    <3>2. Upto(n)[n] = 2 * Upto(n)[n - 1]
      BY <2>2 DEF PowersTo
    <3>3. Upto(n - 1)[n - 1] = Upto(n)[n - 1]
      BY <1>1, <3>1, PowersAgree
    <3> QED BY <3>1, <3>2, <3>3, <2>2
  <2> QED BY <2>1, <2>2
<1>3. F = [n \in Nat |-> IF n = 0 THEN 1 ELSE 2 * F[n - 1]]
  BY <1>2
<1>4. Pow2 = [n \in Nat |-> IF n = 0 THEN 1 ELSE 2 * Pow2[n - 1]]
  <2> HIDE DEF F
  <2> QED BY <1>3 DEF Pow2
<1> QED BY <1>4

LEMMA Pow2IsNat == \A n \in Nat : Pow2[n] \in Nat
<1> DEFINE Bad == {n \in Nat : Pow2[n] \notin Nat}
<1> SUFFICES ASSUME Bad # {} PROVE FALSE
  OBVIOUS
<1>1. PICK n \in Bad : \A m \in Bad : n <= m
  <2>1. Bad \subseteq Nat
    OBVIOUS
  <2> HIDE DEF Bad
  <2> QED BY <2>1, LeastNatural
<1>2. n # 0
  BY <1>1, Pow2Equation
<1>3. n - 1 \in Nat /\ n - 1 \notin Bad
  BY <1>1, <1>2
<1> QED BY <1>1, <1>2, <1>3, Pow2Equation

\* The powers that an alarm can meet.
LEMMA SmallPowers == Pow2[0] = 1 /\ Pow2[1] = 2 /\ Pow2[2] = 4 /\ Pow2[3] = 8
<1>1. Pow2[0] = 1
  BY Pow2Equation
<1>2. Pow2[1] = 2
  BY <1>1, Pow2Equation
<1>3. Pow2[2] = 4
  BY <1>2, Pow2Equation
<1>4. Pow2[3] = 8
  BY <1>3, Pow2Equation
<1> QED BY <1>1, <1>2, <1>3, <1>4

-----------------------------------------------------------------------------
Bound == WatchdogLimit + WatchdogCheckInterval

\* What bounds the age of the feed: the next check comes before the bound is reached, and
\* once the watchdog has decided, time waits for it to exit.
WatchInv ==
  /\ age \in Nat /\ checkIn \in 0..WatchdogCheckInterval /\ tripped \in BOOLEAN
  /\ Running => /\ age <= Bound
                /\ ~tripped => age + checkIn <= Bound

\* The limit, a quarter of it, and the minimum: natural numbers, all of them.
LEMMA IntervalsAreNat == WatchdogLimit \in Nat /\ WatchdogCheckInterval \in Nat
BY PollAssumption DEF WatchdogCheckInterval

\* A check that finds the feed fresh may wait another interval.
LEMMA FreshFeedCanWait ==
  ASSUME NEW a \in Nat, a <= WatchdogLimit
  PROVE  a + WatchdogCheckInterval <= Bound /\ a <= Bound
BY IntervalsAreNat DEF Bound

\* The initial state satisfies the bound, for the process is not running.
LEMMA WatchInit == Init => WatchInv
<1> SUFFICES ASSUME Init PROVE WatchInv
  OBVIOUS
<1>1. age \in Nat /\ checkIn \in 0..WatchdogCheckInterval
  BY IntervalsAreNat DEF Init
<1>2. tripped \in BOOLEAN
  BY DEF Init
<1>3. ~Running
  BY DEF Init, Running
<1> QED BY <1>1, <1>2, <1>3 DEF WatchInv

\* A poll that ends leaves the age as it is, or starts it again.
LEMMA AnswerKeepsBound ==
  ASSUME WatchInv, NEW start \in BOOLEAN, Answered(start), UNCHANGED watchdog,
         start \/ Running
  PROVE  WatchInv'
<1>1. age' = age \/ age' = 0
  BY DEF Answered
<1>2. checkIn' = checkIn /\ tripped' = tripped
  BY DEF watchdog
<1>3. CASE age' = 0
  BY <1>2, <1>3, IntervalsAreNat DEF WatchInv, Bound
<1>4. CASE age' # 0
  <2>1. age' = age /\ Running
    BY <1>1, <1>4 DEF Answered
  <2> QED BY <2>1, <1>2 DEF WatchInv
<1> QED BY <1>3, <1>4

\* A tick moves one from checkIn to age, and never passes when the check is due.
LEMMA TickKeepsBound == ASSUME WatchInv, Tick PROVE WatchInv'
<1>1. phase' = phase /\ tripped' = tripped /\ (Running' <=> Running)
  BY DEF Tick, Running
<1>2. CASE Running
  <2>1. ~tripped /\ checkIn # 0
    BY <1>2 DEF Tick, Due
  <2>2. checkIn' = checkIn - 1 /\ (age' = age + 1 \/ age' = age)
    BY <1>2 DEF Tick
  <2> QED BY <1>1, <1>2, <2>1, <2>2, IntervalsAreNat DEF WatchInv, Bound
<1>3. CASE ~Running
  <2>1. UNCHANGED <<age, checkIn>>
    BY <1>3 DEF Tick
  <2> QED BY <1>1, <1>3, <2>1 DEF WatchInv
<1> QED BY <1>2, <1>3

\* The bound is inductive.
LEMMA WatchStep == ASSUME WatchInv, [Next]_vars PROVE WatchInv'
<1>1. CASE NextPoll
  <2>1. Running /\ Running' /\ UNCHANGED <<age, checkIn, tripped>>
    BY <1>1 DEF NextPoll, SendRequest, Running, watchdog
  <2> QED BY <2>1 DEF WatchInv
<1>2. CASE BackoffEnds
  <2>1. Running /\ Running' /\ UNCHANGED <<age, checkIn, tripped>>
    BY <1>2 DEF BackoffEnds, SendRequest, Running, watchdog
  <2> QED BY <2>1 DEF WatchInv
<1>3. CASE PollEnds
  BY <1>3, AnswerKeepsBound DEF PollEnds, Running
<1>4. CASE Start
  BY <1>4 DEF Start, SendRequest, WatchInv, Running, watchdog
<1>5. CASE InitialPollEnds
  <2>1. age' = 0 /\ checkIn' = WatchdogCheckInterval /\ tripped' = tripped
    BY <1>5 DEF InitialPollEnds, Answered
  <2> QED BY <2>1, IntervalsAreNat DEF WatchInv, Bound
<1>6. CASE WatchdogChecks
  <2>1. Running /\ Running' /\ age' = age /\ checkIn = 0 /\ ~tripped
    BY <1>6 DEF WatchdogChecks, Running, poller
  <2>2. CASE FeedIsStale
    <3>1. tripped' = TRUE /\ checkIn' = checkIn
      BY <1>6, <2>2 DEF WatchdogChecks
    <3> QED BY <2>1, <3>1 DEF WatchInv
  <2>3. CASE ~FeedIsStale
    <3>1. checkIn' = WatchdogCheckInterval
      BY <1>6, <2>3 DEF WatchdogChecks
    <3>2. tripped' \in BOOLEAN
      BY <1>6, <2>3 DEF WatchdogChecks
    <3>3. age' \in Nat /\ age' <= WatchdogLimit
      BY <2>1, <2>3, IntervalsAreNat DEF WatchInv, FeedIsStale
    <3>4. age' + WatchdogCheckInterval <= Bound /\ age' <= Bound
      BY <3>3, FreshFeedCanWait
    <3>5. checkIn' \in 0..WatchdogCheckInterval
      BY <3>1, IntervalsAreNat
    <3> QED BY <2>1, <3>1, <3>2, <3>3, <3>4, <3>5 DEF WatchInv
  <2> QED BY <2>2, <2>3
<1>7. CASE WatchdogExits
  BY <1>7 DEF WatchdogExits, Down, WatchInv, Running
<1>8. CASE Render
  <2>1. phase' = phase /\ UNCHANGED <<age, checkIn, tripped>>
    BY <1>8 DEF Render, poller, watchdog
  <2> QED BY <2>1 DEF WatchInv, Running
<1>9. CASE PollerWedges
  <2>1. Running /\ UNCHANGED <<age, checkIn, tripped>>
    BY <1>9 DEF PollerWedges, Running, watchdog
  <2> QED BY <2>1 DEF WatchInv
<1>10. CASE DriverHangs
  <2>1. phase' = phase /\ UNCHANGED <<age, checkIn, tripped>>
    BY <1>10 DEF DriverHangs, poller, watchdog
  <2> QED BY <2>1 DEF WatchInv, Running
<1>11. CASE Crash
  BY <1>11 DEF Crash, Down, WatchInv, Running
<1>12. CASE Tick
  BY <1>12, TickKeepsBound
<1>13. CASE UNCHANGED vars
  <2>1. phase' = phase /\ UNCHANGED <<age, checkIn, tripped>>
    BY <1>13 DEF vars, poller, watchdog
  <2> QED BY <2>1 DEF WatchInv, Running
<1> QED
  BY <1>1, <1>2, <1>3, <1>4, <1>5, <1>6, <1>7, <1>8, <1>9, <1>10, <1>11, <1>12, <1>13
  DEF Next, Program

\* A running process never goes without a successful poll for longer than the watchdog's
\* limit and one check, for every configuration of the intervals (main.go:198-219).
THEOREM StalenessIsBounded == Spec => []StalenessBounded
<1>1. WatchInv => StalenessBounded
  BY DEF WatchInv, StalenessBounded, Bound
<1> QED BY <1>1, WatchInit, WatchStep, PTL DEF Spec

-----------------------------------------------------------------------------
\* A back-off is a number of ticks, at most the maximum and at most what the count asks for.
LEMMA BackoffBounded ==
  ASSUME NEW n \in Nat, n # 0
  PROVE  /\ BackoffDuration(n) \in Nat /\ BackoffDuration(n) <= BackoffMax
         /\ BackoffDuration(n) <= PollInterval * Pow2[n - 1]
<1>1. PollInterval * Pow2[n - 1] \in Nat /\ BackoffMax \in Nat
  <2>1. Pow2[n - 1] \in Nat
    BY Pow2IsNat
  <2> QED BY <2>1, PollAssumption
<1> QED BY <1>1 DEF BackoffDuration

LEMMA AgeMaxIsNat == AgeMax \in Nat
<1>1. StaleThreshold(PollInterval) \in Nat
  BY PollAssumption DEF StaleThreshold
<1> QED BY <1>1, IntervalsAreNat DEF AgeMax

LEMMA TypeInit == Init => TypeOK
<1> SUFFICES ASSUME Init PROVE TypeOK
  OBVIOUS
<1>1. nextTick \in 1..PollInterval /\ checkIn \in 0..WatchdogCheckInterval /\ count \in 0..CountMax
  BY PollAssumption, IntervalsAreNat DEF Init
<1>2. age \in 0..AgeMax /\ missed \in 0..MissMax /\ faults \in 0..MaxFaults /\ left <= RestartDelay
  BY PollAssumption, AgeMaxIsNat DEF Init
<1> QED BY <1>1, <1>2 DEF Init, TypeOK, Answers

\* A request sets what it waits for.
LEMMA RequestTyped ==
  ASSUME NEW p, SendRequest(p)
  PROVE  phase' = p /\ left' \in Nat /\ left' <= PollTimeout /\ answer' \in Answers
BY PollAssumption DEF SendRequest

LEMMA AnsweredTyped ==
  ASSUME TypeOK, NEW start \in BOOLEAN, Answered(start)
  PROVE  /\ count' \in 0..CountMax /\ polled' \in BOOLEAN /\ age' \in 0..AgeMax
         /\ missed' \in 0..MissMax
<1>1. count' \in 0..CountMax
  BY PollAssumption DEF TypeOK, Answered, CountAfter
<1>2. polled' \in BOOLEAN
  BY DEF TypeOK, Answered
<1>3. age' \in 0..AgeMax
  BY AgeMaxIsNat DEF TypeOK, Answered
<1>4. missed' \in 0..MissMax
  BY PollAssumption DEF TypeOK, Answered
<1> QED BY <1>1, <1>2, <1>3, <1>4

LEMMA DownTyped ==
  ASSUME TypeOK, Down, faults' \in 0..MaxFaults
  PROVE  TypeOK'
<1>1. /\ phase' = "down" /\ left' = RestartDelay /\ tripped' = FALSE
      /\ UNCHANGED <<nextTick, tickReady, answer, count, polled, age, checkIn, driver, marked, missed>>
  BY DEF Down, screen
<1>2. left' \in Nat /\ left' <= RestartDelay
  BY <1>1, PollAssumption
<1> QED BY <1>1, <1>2 DEF TypeOK

LEMMA TickTyped == ASSUME TypeOK, Tick PROVE TypeOK'
<1> USE DEF Tick
<1>1. UNCHANGED <<phase, answer, count, polled, tripped, driver, marked, missed, faults>>
  BY DEF screen
<1>2. left' \in Nat /\ left' <= left /\ (left = 0 => left' = 0)
  BY DEF TypeOK, Less
<1>3. CASE Running
  <2>1. checkIn # 0
    BY <1>3 DEF Due
  <2>2. checkIn' \in 0..WatchdogCheckInterval
    BY <1>3, <2>1, IntervalsAreNat DEF TypeOK
  <2>3. nextTick' \in 1..PollInterval /\ tickReady' \in BOOLEAN
    BY <1>3, PollAssumption DEF TypeOK
  <2>4. age' \in 0..AgeMax
    BY <1>3, AgeMaxIsNat DEF TypeOK
  <2>5. Running'
    BY <1>1, <1>3 DEF Running
  <2>6. CASE phase = "backoff"
    <3>1. PollInterval * Pow2[count - 1] \in Nat
      BY <2>6, Pow2IsNat, PollAssumption DEF TypeOK
    <3>2. left' <= BackoffMax /\ left' <= PollInterval * Pow2[count - 1]
      BY <1>2, <2>6, <3>1, PollAssumption DEF TypeOK
    <3> QED BY <1>1, <1>2, <2>2, <2>3, <2>4, <2>5, <2>6, <3>2 DEF TypeOK
  <2>7. CASE phase # "backoff"
    BY <1>1, <1>2, <2>2, <2>3, <2>4, <2>5, <2>7, PollAssumption DEF TypeOK
  <2> QED BY <2>6, <2>7
<1>4. CASE ~Running
  <2>1. UNCHANGED <<age, checkIn, nextTick, tickReady>> /\ phase # "backoff"
    BY <1>4 DEF Running
  <2>2. phase \in {"startup", "down"} /\ (phase = "startup" => left' <= PollTimeout)
        /\ (phase = "down" => left' <= RestartDelay)
    BY <1>2, <1>4, PollAssumption DEF TypeOK, Running
  <2>3. ~tripped
    BY <1>4 DEF TypeOK
  <2> QED BY <1>1, <1>2, <2>1, <2>2, <2>3 DEF TypeOK
<1> QED BY <1>3, <1>4

LEMMA TypeStep == ASSUME TypeOK, [Next]_vars PROVE TypeOK'
<1>1. CASE NextPoll
  <2>1. UNCHANGED <<nextTick, count, polled, age, checkIn, tripped, driver, marked, missed, faults>>
    BY <1>1 DEF NextPoll, watchdog, screen
  <2>2. tickReady' = FALSE /\ Running /\ Running'
    BY <1>1 DEF NextPoll, Running, SendRequest
  <2>3. CASE count = 0
    <3>1. SendRequest("fetching")
      BY <1>1, <2>3 DEF NextPoll
    <3>2. phase' = "fetching" /\ left' \in Nat /\ left' <= PollTimeout /\ answer' \in Answers
      BY <3>1, RequestTyped
    <3> QED BY <2>1, <2>2, <3>2 DEF TypeOK
  <2>4. CASE count # 0
    <3>1. phase' = "backoff" /\ left' = BackoffDuration(count) /\ answer' = answer
      BY <1>1, <2>4 DEF NextPoll
    <3>2. count \in Nat /\ count > 0
      BY <2>4, PollAssumption DEF TypeOK
    <3>3. /\ left' \in Nat /\ left' <= BackoffMax /\ left' <= PollInterval * Pow2[count - 1]
      BY <2>4, <3>1, <3>2, BackoffBounded
    <3> QED BY <2>1, <2>2, <3>1, <3>2, <3>3 DEF TypeOK
  <2> QED BY <2>3, <2>4
<1>2. CASE BackoffEnds
  <2>1. UNCHANGED <<nextTick, tickReady, count, polled, age, checkIn, tripped, driver, marked, missed, faults>>
    BY <1>2 DEF BackoffEnds, watchdog, screen
  <2>2. SendRequest("fetching")
    BY <1>2 DEF BackoffEnds
  <2> QED BY <2>1, <2>2, RequestTyped DEF TypeOK, Running
<1>3. CASE PollEnds
  <2>1. UNCHANGED <<nextTick, tickReady, answer, checkIn, tripped, driver, marked, faults>>
    BY <1>3 DEF PollEnds, watchdog, screen
  <2>2. phase' = "waiting" /\ left' = 0 /\ Answered(FALSE)
    BY <1>3 DEF PollEnds
  <2> QED BY <2>1, <2>2, AnsweredTyped DEF TypeOK, Running
<1>4. CASE Start
  <2>1. UNCHANGED <<nextTick, tickReady, checkIn, tripped, marked, missed, faults>> /\ driver' = "works"
    BY <1>4 DEF Start, watchdog
  <2>2. SendRequest("startup") /\ count' = 0 /\ polled' = FALSE /\ age' = 0
    BY <1>4 DEF Start
  <2>3. count' \in 0..CountMax /\ age' \in 0..AgeMax
    BY <2>2, PollAssumption, AgeMaxIsNat
  <2>4. ~tripped'
    BY <1>4, <2>1 DEF Start, TypeOK, Running
  <2>5. phase' = "startup" /\ left' \in Nat /\ left' <= PollTimeout /\ answer' \in Answers
    BY <2>2, RequestTyped
  <2> QED BY <2>1, <2>2, <2>3, <2>4, <2>5 DEF TypeOK
<1>5. CASE InitialPollEnds
  <2>1. UNCHANGED <<answer, tripped, driver, marked, faults>>
    BY <1>5 DEF InitialPollEnds, screen
  <2>2. /\ phase' = "waiting" /\ left' = 0 /\ Answered(TRUE)
        /\ nextTick' = PollInterval /\ tickReady' = FALSE /\ checkIn' = WatchdogCheckInterval
    BY <1>5 DEF InitialPollEnds
  <2>3. nextTick' \in 1..PollInterval /\ checkIn' \in 0..WatchdogCheckInterval
    BY <2>2, PollAssumption, IntervalsAreNat
  <2> QED BY <2>1, <2>2, <2>3, AnsweredTyped DEF TypeOK, Running
<1>6. CASE WatchdogChecks
  <2>1. UNCHANGED <<phase, left, nextTick, tickReady, answer, count, polled, age, driver, marked, missed, faults>>
    BY <1>6 DEF WatchdogChecks, poller, screen
  <2>2. Running /\ Running'
    BY <1>6, <2>1 DEF WatchdogChecks, Running
  <2>3. tripped' \in BOOLEAN
    BY <1>6 DEF WatchdogChecks
  <2>4. checkIn' \in 0..WatchdogCheckInterval
    BY <1>6, IntervalsAreNat DEF WatchdogChecks, TypeOK
  <2> QED BY <2>1, <2>2, <2>3, <2>4 DEF TypeOK
<1>7. CASE WatchdogExits
  BY <1>7, DownTyped DEF WatchdogExits, TypeOK
<1>8. CASE Render
  <2>1. UNCHANGED <<phase, left, nextTick, tickReady, answer, count, polled, age, checkIn, tripped, driver, missed, faults>>
    BY <1>8 DEF Render, poller, watchdog
  <2>2. marked' \in BOOLEAN
    BY <1>8 DEF Render, IsStale, TypeOK
  <2> QED BY <2>1, <2>2 DEF TypeOK, Running
<1>9. CASE PollerWedges
  <2>1. UNCHANGED <<nextTick, tickReady, answer, count, polled, age, checkIn, tripped, driver, marked>>
    BY <1>9 DEF PollerWedges, watchdog, screen
  <2>2. phase' = "wedged" /\ left' = 0
    BY <1>9 DEF PollerWedges
  <2>3. missed' \in 0..MissMax /\ faults' \in 0..MaxFaults
    BY <1>9, PollAssumption DEF PollerWedges, TypeOK
  <2> QED BY <2>1, <2>2, <2>3 DEF TypeOK, Running
<1>10. CASE DriverHangs
  <2>1. UNCHANGED <<phase, left, nextTick, tickReady, answer, count, polled, age, checkIn, tripped, marked, missed>>
    BY <1>10 DEF DriverHangs, poller, watchdog
  <2>2. driver' = "hangs" /\ faults' \in 0..MaxFaults
    BY <1>10, PollAssumption DEF DriverHangs, TypeOK
  <2> QED BY <2>1, <2>2 DEF TypeOK, Running
<1>11. CASE Crash
  <2>1. faults' \in 0..MaxFaults
    BY <1>11, PollAssumption DEF Crash, TypeOK
  <2> QED BY <1>11, <2>1, DownTyped DEF Crash
<1>12. CASE Tick
  BY <1>12, TickTyped
<1>13. CASE UNCHANGED vars
  BY <1>13 DEF vars, poller, watchdog, screen, TypeOK, Running
<1> QED
  BY <1>1, <1>2, <1>3, <1>4, <1>5, <1>6, <1>7, <1>8, <1>9, <1>10, <1>11, <1>12, <1>13
  DEF Next, Program

\* Every variable keeps its range, for every configuration: the back-off never exceeds
\* its maximum nor what the count asks for, and the watchdog decides in a running process
\* only (realtime.go:353-364, main.go:193-233).
THEOREM PollLoopTyped == Spec => []TypeOK
BY TypeInit, TypeStep, PTL DEF Spec

-----------------------------------------------------------------------------
(***************************************************************************)
(* The alarms.  Between two missed polls pass at most an interval, a       *)
(* back-off and a time-out, and the back-off is no longer than the polls   *)
(* missed so far make it; so the age of the feed tells how many polls it   *)
(* has missed.                                                             *)
(***************************************************************************)

\* What the alarms need of the constants: the time-out is short beside the marker's floor
\* (30 s and 600 s in the code), and the watchdog's limit leaves room for five polls
\* (1800 s by default, for polls every 60 s).  History counts that far.
Proportions ==
  /\ 15 * PollTimeout <= 2 * StaleFloor
  /\ 20 * PollInterval + 5 * PollTimeout <= WatchdogLimit
  /\ MissMax >= 5

\* The longest back-off after m missed polls, and the longest time that m missed polls take.
LongestBackoff(m) == IF m = 0 THEN 0 ELSE PollInterval * Pow2[m - 1]
LongestMiss(m) ==
  IF m = 0 THEN 0
  ELSE IF m = 1 THEN PollInterval + PollTimeout
  ELSE IF m = 2 THEN 3 * PollInterval + 2 * PollTimeout
  ELSE IF m = 3 THEN 6 * PollInterval + 3 * PollTimeout
  ELSE IF m = 4 THEN 11 * PollInterval + 4 * PollTimeout
  ELSE 20 * PollInterval + 5 * PollTimeout

\* Until the fifth missed poll, the age is within what the missed ones take and how far
\* the next one has got.
AlarmInv ==
  missed < 5 =>
    /\ count <= missed
    /\ phase # "wedged"
    /\ phase = "waiting" /\ ~tickReady => age + nextTick <= LongestMiss(missed) + PollInterval
    /\ phase = "waiting" => age <= LongestMiss(missed) + PollInterval
    /\ phase = "backoff" => age + left <= LongestMiss(missed) + PollInterval + LongestBackoff(missed)
    /\ phase = "fetching" => age + left <= LongestMiss(missed + 1)

LEMMA MissesFit ==
  ASSUME NEW m \in 0..4
  PROVE  /\ LongestBackoff(m) \in Nat /\ LongestMiss(m) \in Nat /\ LongestMiss(m + 1) \in Nat
         /\ LongestMiss(m) + PollInterval + LongestBackoff(m) + PollTimeout = LongestMiss(m + 1)
<1>1. PollInterval \in Nat /\ PollTimeout \in Nat
  BY PollAssumption
<1>2. m = 0 \/ m = 1 \/ m = 2 \/ m = 3 \/ m = 4
  OBVIOUS
<1>3. /\ LongestBackoff(0) = 0 /\ LongestBackoff(1) = PollInterval
      /\ LongestBackoff(2) = 2 * PollInterval /\ LongestBackoff(3) = 4 * PollInterval
      /\ LongestBackoff(4) = 8 * PollInterval
  BY <1>1, SmallPowers DEF LongestBackoff
<1> QED BY <1>1, <1>2, <1>3 DEF LongestMiss

\* A count no greater than the missed polls asks for no longer a back-off than they allow.
LEMMA BackoffWithin ==
  ASSUME NEW m \in 0..4, NEW n \in Nat, n # 0, n <= m
  PROVE  BackoffDuration(n) <= LongestBackoff(m)
<1>1. BackoffDuration(n) <= PollInterval * Pow2[n - 1] /\ BackoffDuration(n) \in Nat
  BY BackoffBounded
<1>2. PollInterval \in Nat
  BY PollAssumption
<1>3. n \in 1..4 /\ m \in 1..4
  OBVIOUS
<1>4. PollInterval * Pow2[n - 1] <= PollInterval * Pow2[m - 1]
  <2>1. n = 1 \/ n = 2 \/ n = 3 \/ n = 4
    BY <1>3
  <2>2. m = 1 \/ m = 2 \/ m = 3 \/ m = 4
    BY <1>3
  <2> QED BY <1>2, <2>1, <2>2, SmallPowers
<1>5. PollInterval * Pow2[n - 1] \in Int /\ PollInterval * Pow2[m - 1] \in Int
  BY <1>2, <1>3, Pow2IsNat
<1> QED BY <1>1, <1>3, <1>4, <1>5 DEF LongestBackoff

LEMMA AlarmInit == Init => AlarmInv
BY PollAssumption DEF Init, AlarmInv

\* A poll that ends without a feed is one more missed poll.
LEMMA MissCounted ==
  ASSUME TypeOK, AlarmInv, Proportions, NEW start \in BOOLEAN, Answered(start), missed' < 5
  PROVE  \/ answer = "ok" /\ age' = 0 /\ missed' = 0 /\ count' = 0
         \/ missed' = missed + 1 /\ missed \in 0..3 /\ count' <= missed'
<1>1. CASE answer = "ok"
  BY <1>1 DEF Answered, CountAfter
<1>2. CASE answer # "ok"
  <2>1. missed' = missed + 1 /\ missed \in 0..3
    BY <1>2, PollAssumption DEF Answered, TypeOK, Proportions
  <2>2. count <= missed /\ count \in Nat
    BY <2>1 DEF AlarmInv, TypeOK
  <2>3. count' <= count + 1
    BY <2>2, <1>2 DEF Answered, CountAfter
  <2>4. count' \in Nat
    BY <2>2 DEF Answered, CountAfter
  <2> QED BY <2>1, <2>2, <2>3, <2>4
<1> QED BY <1>1, <1>2

LEMMA AlarmTick == ASSUME TypeOK, AlarmInv, Tick, missed' < 5 PROVE AlarmInv'
<1>1. UNCHANGED <<phase, count, missed>> /\ missed \in 0..4
  BY DEF Tick, TypeOK
<1>2. CASE ~Running
  BY <1>1, <1>2 DEF AlarmInv, Running
<1>3. CASE Running
  <2>1. age' <= age + 1 /\ age' \in Nat /\ age \in Nat
    BY <1>3, AgeMaxIsNat DEF Tick, TypeOK
  <2>2. nextTick \in Nat /\ nextTick >= 1 /\ PollInterval \in Nat
    BY PollAssumption DEF TypeOK
  <2>3. CASE phase = "waiting"
    <3>1. ~tickReady /\ age + nextTick <= LongestMiss(missed) + PollInterval
      BY <1>1, <2>3 DEF Tick, Due, AlarmInv
    <3>2. age' <= LongestMiss(missed) + PollInterval
      BY <1>1, <2>1, <2>2, <3>1, MissesFit
    <3>3. ~tickReady' => nextTick' = nextTick - 1
      BY <1>3 DEF Tick, TypeOK
    <3>4. ~tickReady' => age' + nextTick' <= LongestMiss(missed) + PollInterval
      BY <1>1, <2>1, <2>2, <3>1, <3>3, MissesFit
    <3> QED BY <1>1, <2>3, <3>2, <3>4 DEF AlarmInv
  <2>4. CASE phase \in {"backoff", "fetching"}
    <3>1. left \in Nat /\ left # 0 /\ left' = left - 1 /\ left' \in Nat
      BY <2>4 DEF Tick, Due, Less, TypeOK
    <3>2. age' + left' <= age + left
      <4>1. \A a, b, l, m \in Nat : b <= a + 1 /\ m = l - 1 => b + m <= a + l
        OBVIOUS
      <4> QED BY <2>1, <3>1, <4>1
    <3>3. LongestMiss(missed) + PollInterval + LongestBackoff(missed) \in Nat /\ LongestMiss(missed + 1) \in Nat
      BY <1>1, <2>2, MissesFit
    <3>4. CASE phase = "backoff"
      <4>1. age + left <= LongestMiss(missed) + PollInterval + LongestBackoff(missed)
        BY <1>1, <3>4 DEF AlarmInv
      <4>2. age' + left' <= LongestMiss(missed) + PollInterval + LongestBackoff(missed)
        BY <2>1, <3>1, <3>2, <3>3, <4>1
      <4> QED BY <1>1, <3>4, <4>2 DEF AlarmInv
    <3>5. CASE phase = "fetching"
      <4>1. age + left <= LongestMiss(missed + 1)
        BY <1>1, <3>5 DEF AlarmInv
      <4>2. age' + left' <= LongestMiss(missed + 1)
        BY <2>1, <3>1, <3>2, <3>3, <4>1
      <4> QED BY <1>1, <3>5, <4>2 DEF AlarmInv
    <3> QED BY <2>4, <3>4, <3>5
  <2>5. CASE phase \notin {"waiting", "backoff", "fetching"}
    BY <1>1, <2>5 DEF AlarmInv
  <2> QED BY <2>3, <2>4, <2>5
<1> QED BY <1>2, <1>3

LEMMA AlarmStep ==
  ASSUME TypeOK, TypeOK', AlarmInv, Proportions, [Next]_vars
  PROVE  AlarmInv'
<1> SUFFICES ASSUME missed' < 5 PROVE AlarmInv'
  BY DEF AlarmInv
<1> USE PollAssumption
<1>a. age \in Nat /\ left \in Nat /\ count \in Nat /\ nextTick \in Nat /\ missed \in Nat
  BY DEF TypeOK
<1>1. CASE NextPoll
  <2>1. UNCHANGED <<count, age, missed>> /\ missed \in 0..4
    BY <1>1 DEF NextPoll, TypeOK
  <2>2. count <= missed /\ age <= LongestMiss(missed) + PollInterval
    BY <1>1, <2>1 DEF NextPoll, AlarmInv
  <2>3. CASE count = 0
    <3>1. phase' = "fetching" /\ left' = PollTimeout
      BY <1>1, <2>3 DEF NextPoll, SendRequest
    <3>2. age' + left' <= LongestMiss(missed + 1)
      BY <1>a, <2>1, <2>2, <3>1, MissesFit
    <3> QED BY <2>1, <2>2, <3>1, <3>2 DEF AlarmInv
  <2>4. CASE count # 0
    <3>1. phase' = "backoff" /\ left' = BackoffDuration(count)
      BY <1>1, <2>4 DEF NextPoll
    <3>2. left' <= LongestBackoff(missed) /\ left' \in Nat
      BY <1>a, <2>1, <2>2, <2>4, <3>1, BackoffWithin, BackoffBounded
    <3>3. age' + left' <= LongestMiss(missed) + PollInterval + LongestBackoff(missed)
      BY <1>a, <2>1, <2>2, <3>2, MissesFit
    <3> QED BY <2>1, <2>2, <3>1, <3>3 DEF AlarmInv
  <2> QED BY <2>3, <2>4
<1>2. CASE BackoffEnds
  <2>1. UNCHANGED <<count, age, missed>> /\ missed \in 0..4
    BY <1>2 DEF BackoffEnds, TypeOK
  <2>2. count <= missed /\ age <= LongestMiss(missed) + PollInterval + LongestBackoff(missed)
    BY <1>a, <1>2, <2>1 DEF BackoffEnds, AlarmInv
  <2>3. phase' = "fetching" /\ left' = PollTimeout
    BY <1>2 DEF BackoffEnds, SendRequest
  <2>4. age' + left' <= LongestMiss(missed + 1)
    BY <1>a, <2>1, <2>2, <2>3, MissesFit
  <2> QED BY <2>1, <2>2, <2>3, <2>4 DEF AlarmInv
<1>3. CASE PollEnds
  <2>1. phase = "fetching" /\ phase' = "waiting" /\ Answered(FALSE) /\ nextTick' = nextTick
    BY <1>3 DEF PollEnds
  <2>2. nextTick' \in Nat /\ nextTick' <= PollInterval
    BY <2>1 DEF TypeOK
  <2>3. CASE answer = "ok" /\ age' = 0 /\ missed' = 0 /\ count' = 0
    <3>1. LongestMiss(missed') = 0
      BY <2>3 DEF LongestMiss
    <3> QED BY <2>1, <2>2, <2>3, <3>1 DEF AlarmInv
  <2>4. CASE missed' = missed + 1 /\ missed \in 0..3 /\ count' <= missed'
    <3>1. age + left <= LongestMiss(missed + 1)
      BY <2>1, <2>4 DEF AlarmInv
    <3>2. age' = 0 \/ age' = age
      BY <2>1 DEF Answered
    <3>3. age' <= LongestMiss(missed') /\ age' \in Nat /\ LongestMiss(missed') \in Nat
      BY <1>a, <2>4, <3>1, <3>2, MissesFit
    <3>4. age' + nextTick' <= LongestMiss(missed') + PollInterval /\ age' <= LongestMiss(missed') + PollInterval
      BY <2>2, <3>3
    <3> QED BY <2>1, <2>4, <3>4 DEF AlarmInv
  <2> QED BY <2>1, <2>3, <2>4, MissCounted
<1>4. CASE Start
  <2>1. count' = 0 /\ phase' = "startup" /\ missed' = missed
    BY <1>4 DEF Start, SendRequest
  <2> QED BY <1>a, <2>1 DEF AlarmInv
<1>5. CASE InitialPollEnds
  <2>1. /\ phase' = "waiting" /\ Answered(TRUE) /\ nextTick' = PollInterval
        /\ age' = 0
    BY <1>5 DEF InitialPollEnds, Answered
  <2>4. count' <= missed'
    <3>1. TRUE \in BOOLEAN
      OBVIOUS
    <3>2. \/ missed' = 0 /\ count' = 0
          \/ count' <= missed'
      BY <2>1, <3>1, MissCounted
    <3> QED BY <3>2
  <2>2. missed' \in 0..4
    BY DEF TypeOK
  <2>3. LongestMiss(missed') \in Nat
    BY <2>2, MissesFit
  <2> QED BY <2>1, <2>3, <2>4 DEF AlarmInv
<1>6. CASE WatchdogChecks
  BY <1>6 DEF WatchdogChecks, poller, AlarmInv
<1>7. CASE WatchdogExits
  BY <1>7 DEF WatchdogExits, Down, AlarmInv
<1>8. CASE Render
  BY <1>8 DEF Render, poller, AlarmInv
<1>9. CASE PollerWedges
  BY <1>9 DEF PollerWedges, Proportions
<1>10. CASE DriverHangs
  BY <1>10 DEF DriverHangs, poller, AlarmInv
<1>11. CASE Crash
  BY <1>11 DEF Crash, Down, AlarmInv
<1>12. CASE Tick
  BY <1>12, AlarmTick
<1>13. CASE UNCHANGED vars
  BY <1>13 DEF vars, poller, AlarmInv
<1> QED
  BY <1>1, <1>2, <1>3, <1>4, <1>5, <1>6, <1>7, <1>8, <1>9, <1>10, <1>11, <1>12, <1>13
  DEF Next, Program

\* With m polls missed, the age of a running process is within what m + 1 missed polls take.
LEMMA AgeWithinMisses ==
  ASSUME TypeOK, AlarmInv, Running, missed < 5
  PROVE  age <= LongestMiss(missed + 1)
<1>1. missed \in 0..4 /\ age \in Nat /\ left \in Nat /\ PollInterval \in Nat /\ PollTimeout \in Nat
  BY PollAssumption DEF TypeOK
<1>2. phase \in {"waiting", "backoff", "fetching"}
  BY DEF TypeOK, AlarmInv, Running
<1>3. CASE phase = "waiting"
  BY <1>1, <1>3, MissesFit DEF AlarmInv
<1>4. CASE phase = "backoff"
  BY <1>1, <1>4, MissesFit DEF AlarmInv
<1>5. CASE phase = "fetching"
  BY <1>1, <1>5, MissesFit DEF AlarmInv
<1> QED BY <1>2, <1>3, <1>4, <1>5

\* An age that is beyond the marker's threshold, or the watchdog's limit, took its polls.
LEMMA AlarmsTakePolls ==
  ASSUME TypeOK, AlarmInv, Proportions, Running
  PROVE  /\ age > StaleThreshold(PollInterval) => missed >= 3
         /\ age > WatchdogLimit => missed >= 5
<1>0. /\ PollInterval \in Nat /\ PollTimeout \in Nat /\ StaleFloor \in Nat /\ WatchdogLimit \in Nat
      /\ age \in Nat /\ missed \in Nat
  BY PollAssumption DEF TypeOK
<1>1. ASSUME missed < 3 PROVE age <= StaleThreshold(PollInterval)
  <2>1. age <= LongestMiss(missed + 1)
    BY <1>0, <1>1, AgeWithinMisses
  <2>2. missed = 0 \/ missed = 1 \/ missed = 2
    BY <1>0, <1>1
  <2>3. LongestMiss(missed + 1) <= 6 * PollInterval + 3 * PollTimeout
    BY <1>0, <2>2 DEF LongestMiss
  <2>4. 6 * PollInterval + 3 * PollTimeout <= StaleThreshold(PollInterval)
    BY <1>0 DEF StaleThreshold, Proportions
  <2>5. LongestMiss(missed + 1) \in Nat /\ StaleThreshold(PollInterval) \in Nat
    BY <1>0, <2>2 DEF LongestMiss, StaleThreshold
  <2> QED BY <1>0, <2>1, <2>3, <2>4, <2>5
<1>2. ASSUME missed < 5 PROVE age <= WatchdogLimit
  <2>1. age <= LongestMiss(missed + 1)
    BY <1>2, AgeWithinMisses
  <2>2. missed = 0 \/ missed = 1 \/ missed = 2 \/ missed = 3 \/ missed = 4
    BY <1>0, <1>2
  <2>3. LongestMiss(missed + 1) <= 20 * PollInterval + 5 * PollTimeout
    BY <1>0, <2>2 DEF LongestMiss
  <2>4. LongestMiss(missed + 1) \in Nat
    BY <1>0, <2>2 DEF LongestMiss
  <2> QED BY <1>0, <2>1, <2>3, <2>4 DEF Proportions
<1>3. StaleThreshold(PollInterval) \in Nat
  BY <1>0 DEF StaleThreshold
<1> QED BY <1>0, <1>1, <1>2, <1>3

\* Only a frame puts the marker up, and only the watchdog's check decides to give up.
LEMMA AlarmsByAge ==
  ASSUME TypeOK, [Next]_vars
  PROVE  /\ marked' /\ ~marked => Running /\ age > StaleThreshold(PollInterval)
         /\ tripped' /\ ~tripped => Running /\ age > WatchdogLimit
<1>1. CASE Render
  BY <1>1 DEF Render, IsStale, watchdog, TypeOK
<1>2. CASE WatchdogChecks
  BY <1>2 DEF WatchdogChecks, FeedIsStale, screen, TypeOK
<1>3. CASE UNCHANGED <<marked, tripped>>
  BY <1>3
<1>4. CASE WatchdogExits \/ Crash
  BY <1>4 DEF WatchdogExits, Crash, Down, screen
<1>5. NextPoll \/ BackoffEnds \/ PollEnds \/ InitialPollEnds \/ Tick => UNCHANGED <<marked, tripped>>
  BY DEF NextPoll, BackoffEnds, PollEnds, InitialPollEnds, Tick, watchdog, screen
<1>6. Start \/ PollerWedges \/ DriverHangs \/ UNCHANGED vars => UNCHANGED <<marked, tripped>>
  BY DEF Start, PollerWedges, DriverHangs, vars, watchdog, screen
<1> QED BY <1>1, <1>2, <1>3, <1>4, <1>5, <1>6 DEF Next, Program

\* "Several consecutive missed polls, not one": for every configuration whose watchdog
\* leaves room for five polls, the marker goes up only after three missed polls in a row
\* and the watchdog gives up only after five, whatever back-offs and restarts lie between
\* (main.go:333-336).
THEOREM AlarmsTakeMissedPolls == ASSUME Proportions PROVE Spec => AlarmsMeanMissedPolls
<1>1. TypeOK /\ TypeOK' /\ AlarmInv /\ [Next]_vars => AlarmInv'
  BY AlarmStep
<1>2. TypeOK /\ AlarmInv /\ [Next]_vars =>
        [/\ marked' /\ ~marked => missed >= 3
         /\ tripped' /\ ~tripped => missed >= 5]_vars
  BY AlarmsTakePolls, AlarmsByAge
<1> QED BY <1>1, <1>2, AlarmInit, PollLoopTyped, PTL DEF Spec, AlarmsMeanMissedPolls

=============================================================================

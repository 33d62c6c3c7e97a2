-------------------------- MODULE LiveStoreProofs --------------------------
(***************************************************************************)
(* LiveStore implements FeedStore, for any goroutines, trips, window and   *)
(* number of polls.  The invariant says what the lock keeps apart, in which *)
(* state of the lock each step is made, and what the poller and a reader in *)
(* the middle of their work know about the store.                          *)
(***************************************************************************)
EXTENDS LiveStore, TLAPS

\* One writer at most is past the mutex, and no reader is in while it writes.
LockInv ==
  /\ \A p, q \in Procs : lock[p] \in {"drain", "write"} /\ lock[q] \in {"drain", "write"} => p = q
  /\ \A p, q \in Procs : lock[p] = "write" => lock[q] # "read"

\* The lock a step is made under.
StepLock(s, l) ==
  /\ s \in {"idle", "decode", "parsed"} <=> l = "out"
  /\ s \in {"pollTime", "snapDelays", "carry"} => l \in {"rwait", "read"}
  /\ s \in {"snapCancels", "snapAdds"} => l = "read"
  /\ s \in {"diag", "swapDelays", "stamp"} => l \in {"wwait", "drain", "write"}
  /\ s \in {"swapCancels", "swapAdds"} => l = "write"

StepInv == \A p \in Procs : StepLock(step[p], lock[p])

\* Where the poller stands, what it has prepared and what it has stored.
PollInv ==
  /\ delays <= clock
  /\ ~Swapping => delays = additions
  /\ step[Poller] \in {"carry", "decode", "swapDelays"} => delays < clock
  /\ step[Poller] \in {"swapCancels", "swapAdds", "parsed", "stamp"} => delays = clock
  /\ step[Poller] = "decode" => newCancels = Carry(cancellations, clock)
  /\ step[Poller] = "swapDelays" =>
       \E cancelled \in SUBSET Trips :
         newCancels = Record(Carry(cancellations, clock), cancelled, clock)
  /\ step[Poller] = "swapAdds" => cancellations = newCancels

\* A snapshot under way agrees with the store as far as it has got.
PartInv ==
  \A r \in Readers :
    /\ step[r] \in {"snapCancels", "snapAdds"} => part[r].delays = delays
    /\ step[r] = "snapAdds" => part[r].cancels = cancellations

StoreInv == TypeOK /\ LockInv /\ StepInv /\ PollInv /\ PartInv

-----------------------------------------------------------------------------
LEMMA PollTyping == Polls \subseteq Nat /\ 0 \in Polls /\ NoCancels \in [Trips -> Polls]
BY FeedAssumption DEF Polls, NoCancels

LEMMA ProcTyping == Poller \in Procs /\ Poller \notin Readers /\ Readers \subseteq Procs
BY PollerAssumption DEF Procs

\* What Carry and Record return is a map of cancellations.
LEMMA CancelTyping ==
  ASSUME NEW cancels \in [Trips -> Polls], NEW now \in Polls, NEW cancelled \in SUBSET Trips
  PROVE  /\ Carry(cancels, now) \in [Trips -> Polls]
         /\ Record(cancels, cancelled, now) \in [Trips -> Polls]
BY PollTyping DEF Carry, Record

\* What each operation does to the lock, for its caller and for the others.
LEMMA LockMoves ==
  ASSUME TypeOK, NEW p \in Procs
  PROVE  /\ RLock(p) => /\ lock' \in [Procs -> LockStates]
                        /\ lock'[p] = IF WriterIn THEN "rwait" ELSE "read"
                        /\ \A q \in Procs \ {p} : lock'[q] = lock[q]
         /\ RUnlock(p) => /\ lock' \in [Procs -> LockStates]
                          /\ lock'[p] = "out"
                          /\ \A q \in Procs \ {p} : lock'[q] = lock[q]
         /\ Lock(p) => /\ lock' \in [Procs -> LockStates]
                       /\ lock'[p] = "wwait"
                       /\ \A q \in Procs \ {p} : lock'[q] = lock[q]
         /\ Unlock(p) => /\ lock' \in [Procs -> LockStates]
                         /\ lock'[p] = "out"
                         /\ \A q \in Procs \ {p} :
                              lock'[q] = IF lock[q] = "rwait" THEN "read" ELSE lock[q]
         /\ WriterTurn(p) => /\ lock' \in [Procs -> LockStates]
                             /\ lock'[p] = "drain"
                             /\ \A q \in Procs \ {p} : lock'[q] = lock[q]
         /\ WriterEnters(p) => /\ lock' \in [Procs -> LockStates]
                               /\ lock'[p] = "write"
                               /\ \A q \in Procs \ {p} : lock'[q] = lock[q]
<1> USE DEF TypeOK, LockStates
<1>1. RLock(p) => /\ lock' \in [Procs -> LockStates]
                  /\ lock'[p] = IF WriterIn THEN "rwait" ELSE "read"
                  /\ \A q \in Procs \ {p} : lock'[q] = lock[q]
  BY DEF RLock
<1>2. RUnlock(p) => /\ lock' \in [Procs -> LockStates]
                    /\ lock'[p] = "out"
                    /\ \A q \in Procs \ {p} : lock'[q] = lock[q]
  BY DEF RUnlock
<1>3. Lock(p) => /\ lock' \in [Procs -> LockStates]
                 /\ lock'[p] = "wwait"
                 /\ \A q \in Procs \ {p} : lock'[q] = lock[q]
  BY DEF Lock
<1>4. Unlock(p) => /\ lock' \in [Procs -> LockStates]
                   /\ lock'[p] = "out"
                   /\ \A q \in Procs \ {p} :
                        lock'[q] = IF lock[q] = "rwait" THEN "read" ELSE lock[q]
  BY DEF Unlock
<1>5. WriterTurn(p) => /\ lock' \in [Procs -> LockStates]
                       /\ lock'[p] = "drain"
                       /\ \A q \in Procs \ {p} : lock'[q] = lock[q]
  BY DEF WriterTurn
<1>6. WriterEnters(p) => /\ lock' \in [Procs -> LockStates]
                         /\ lock'[p] = "write"
                         /\ \A q \in Procs \ {p} : lock'[q] = lock[q]
  BY DEF WriterEnters
<1>. QED  BY <1>1, <1>2, <1>3, <1>4, <1>5, <1>6

\* Every step leaves the lock alone or moves it for one goroutine.
LockMove(p) ==
  \/ RLock(p)
  \/ RUnlock(p)
  \/ Lock(p)
  \/ WriterTurn(p)
  \/ WriterEnters(p)
  \/ lock[p] = "write" /\ Unlock(p)

LockStep == lock' = lock \/ \E p \in Procs : LockMove(p)

LEMMA LockStepOf ==
  ASSUME NEW p \in Procs
  PROVE  /\ RLock(p) => LockStep
         /\ RUnlock(p) => LockStep
         /\ Lock(p) => LockStep
         /\ WriterTurn(p) => LockStep
         /\ WriterEnters(p) => LockStep
         /\ lock[p] = "write" /\ Unlock(p) => LockStep
<1>1. RLock(p) => LockStep
  BY Zenon DEF LockStep, LockMove
<1>2. RUnlock(p) => LockStep
  BY Zenon DEF LockStep, LockMove
<1>3. Lock(p) => LockStep
  BY Zenon DEF LockStep, LockMove
<1>4. WriterTurn(p) => LockStep
  BY Zenon DEF LockStep, LockMove
<1>5. WriterEnters(p) => LockStep
  BY Zenon DEF LockStep, LockMove
<1>6. lock[p] = "write" /\ Unlock(p) => LockStep
  BY Zenon DEF LockStep, LockMove
<1>. QED  BY <1>1, <1>2, <1>3, <1>4, <1>5, <1>6

LEMMA StepsMoveLock == [Next]_lvars => LockStep
<1> SUFFICES ASSUME [Next]_lvars PROVE LockStep
  OBVIOUS
<1>1. CASE Poll
  BY <1>1, LockStepOf, ProcTyping DEF LockStep, Poll
<1>2. CASE CarryCancels
  BY <1>2, LockStepOf, ProcTyping DEF LockStep, CarryCancels
<1>3. CASE DecodeFeed
  BY <1>3, LockStepOf, ProcTyping DEF LockStep, DecodeFeed
<1>4. CASE SwapDelays
  BY <1>4, LockStepOf, ProcTyping DEF LockStep, SwapDelays
<1>5. CASE SwapCancels
  BY <1>5, LockStepOf, ProcTyping DEF LockStep, SwapCancels
<1>6. CASE SwapAdds
  BY <1>6, LockStepOf, ProcTyping DEF LockStep, SwapAdds, Writing
<1>7. CASE LockAgain
  BY <1>7, LockStepOf, ProcTyping DEF LockStep, LockAgain
<1>8. CASE StampPollTime
  BY <1>8, LockStepOf, ProcTyping DEF LockStep, StampPollTime, Writing
<1>9. ASSUME NEW r \in Readers, CallPollTime(r) PROVE LockStep
  BY <1>9, LockStepOf, ProcTyping DEF LockStep, CallPollTime
<1>10. ASSUME NEW r \in Readers, CallSnapshot(r) PROVE LockStep
  BY <1>10, LockStepOf, ProcTyping DEF LockStep, CallSnapshot
<1>11. ASSUME NEW r \in Readers, CallDiagLogOnce(r) PROVE LockStep
  BY <1>11, LockStepOf, ProcTyping DEF LockStep, CallDiagLogOnce
<1>12. ASSUME NEW r \in Readers, PollTime(r) PROVE LockStep
  BY <1>12, LockStepOf, ProcTyping DEF LockStep, PollTime
<1>13. ASSUME NEW r \in Readers, SnapDelays(r) PROVE LockStep
  BY <1>13, LockStepOf, ProcTyping DEF LockStep, SnapDelays
<1>14. ASSUME NEW r \in Readers, SnapCancels(r) PROVE LockStep
  BY <1>14, LockStepOf, ProcTyping DEF LockStep, SnapCancels
<1>15. ASSUME NEW r \in Readers, Snapshot(r) PROVE LockStep
  BY <1>15, LockStepOf, ProcTyping DEF LockStep, Snapshot
<1>16. ASSUME NEW r \in Readers, DiagLogOnce(r) PROVE LockStep
  BY <1>16, LockStepOf, ProcTyping DEF LockStep, DiagLogOnce, Writing
<1>17. ASSUME NEW p \in Procs, WriterTurn(p) PROVE LockStep
  BY <1>17, LockStepOf, ProcTyping DEF LockStep, WriterTurn
<1>18. ASSUME NEW p \in Procs, WriterEnters(p) PROVE LockStep
  BY <1>18, LockStepOf, ProcTyping DEF LockStep, WriterEnters
<1>19. CASE UNCHANGED lvars
  BY <1>19, LockStepOf, ProcTyping DEF LockStep, lvars
<1>. QED
  BY <1>1, <1>2, <1>3, <1>4, <1>5, <1>6, <1>7, <1>8, <1>9, <1>10, <1>11, <1>12, <1>13, <1>14, <1>15, <1>16, <1>17, <1>18, <1>19
  DEF Next, ParseStep, Call, ReaderStep

LEMMA LockInvStep == TypeOK /\ LockInv /\ LockStep => LockInv'
<1> SUFFICES ASSUME TypeOK, LockInv, LockStep PROVE LockInv'
  OBVIOUS
<1>1. CASE lock' = lock
  BY <1>1 DEF LockInv
<1>2. ASSUME NEW p \in Procs, RLock(p) PROVE LockInv'
  BY <1>2, LockMoves DEF LockInv, WriterIn
<1>3. ASSUME NEW p \in Procs, RUnlock(p) PROVE LockInv'
  BY <1>3, LockMoves DEF LockInv
<1>4. ASSUME NEW p \in Procs, Lock(p) PROVE LockInv'
  BY <1>4, LockMoves DEF LockInv
<1>5. ASSUME NEW p \in Procs, WriterTurn(p) PROVE LockInv'
  BY <1>5, LockMoves DEF LockInv, WriterIn, WriterTurn
<1>6. ASSUME NEW p \in Procs, WriterEnters(p) PROVE LockInv'
  BY <1>6, LockMoves DEF LockInv, WriterEnters
<1>7. ASSUME NEW p \in Procs, lock[p] = "write", Unlock(p) PROVE LockInv'
  BY <1>7, LockMoves DEF LockInv
<1>. QED  BY <1>1, <1>2, <1>3, <1>4, <1>5, <1>6, <1>7 DEF LockStep, LockMove

\* While one goroutine writes nobody else reads or writes.
LEMMA WriterIsAlone ==
  ASSUME TypeOK, LockInv, NEW p \in Procs, lock[p] = "write"
  PROVE  \A q \in Procs \ {p} : lock[q] \in {"out", "rwait", "wwait"}
BY DEF TypeOK, LockStates, LockInv

\* Goto moves one goroutine.
LEMMA GotoMoves ==
  ASSUME TypeOK, NEW p \in Procs, NEW s, Goto(p, s)
  PROVE  /\ DOMAIN step' = Procs /\ step' = [q \in Procs |-> step'[q]]
         /\ step'[p] = s
         /\ \A q \in Procs \ {p} : step'[q] = step[q]
BY DEF TypeOK, Goto

LEMMA GotoTyping ==
  ASSUME TypeOK, NEW p \in Procs, NEW s, Goto(p, s),
         p \in Readers => s \in ReaderSteps, p = Poller => s \in PollerSteps
  PROVE  /\ step' \in [Procs -> ReaderSteps \cup PollerSteps]
         /\ \A r \in Readers : step'[r] \in ReaderSteps
         /\ step'[Poller] \in PollerSteps
BY GotoMoves, ProcTyping DEF TypeOK, Procs

LEMMA TypeOKInit == Init => TypeOK
BY PollTyping, ProcTyping
   DEF Init, TypeOK, NoView, View, LockStates, ReaderSteps, PollerSteps

LEMMA TypeOKNext == TypeOK /\ [Next]_lvars => TypeOK'
<1> SUFFICES ASSUME TypeOK, [Next]_lvars PROVE TypeOK'
  OBVIOUS
<1>1. CASE Poll
  <2>1. clock' \in Polls
    BY <1>1, FeedAssumption DEF Poll, TypeOK, Polls
  <2>2. lock' \in [Procs -> LockStates]
    BY <1>1, LockMoves, ProcTyping DEF Poll, TypeOK
  <2>3. \/ step' = step
        \/ Goto(Poller, "carry")
    BY <1>1 DEF Poll
  <2>4. /\ step' \in [Procs -> ReaderSteps \cup PollerSteps]
        /\ \A r \in Readers : step'[r] \in ReaderSteps
        /\ step'[Poller] \in PollerSteps
    BY <2>3, GotoTyping, ProcTyping DEF TypeOK, PollerSteps
  <2>. QED  BY <1>1, <2>1, <2>2, <2>4 DEF Poll, TypeOK, store, local
<1>2. CASE CarryCancels
  <2>1. Goto(Poller, "decode")
    BY <1>2 DEF CarryCancels
  <2>2. /\ step' \in [Procs -> ReaderSteps \cup PollerSteps]
        /\ \A i \in Readers : step'[i] \in ReaderSteps
        /\ step'[Poller] \in PollerSteps
    BY <2>1, GotoTyping, ProcTyping DEF PollerSteps
  <2>3. lock' \in [Procs -> LockStates]
    BY <1>2, LockMoves, ProcTyping DEF CarryCancels, TypeOK
  <2>. QED  BY <1>2, <2>2, <2>3, CancelTyping DEF TypeOK, CarryCancels, store, local
<1>3. CASE DecodeFeed
  <2>1. Goto(Poller, "idle") \/ Goto(Poller, "swapDelays")
    BY <1>3 DEF DecodeFeed
  <2>2. /\ step' \in [Procs -> ReaderSteps \cup PollerSteps]
        /\ \A i \in Readers : step'[i] \in ReaderSteps
        /\ step'[Poller] \in PollerSteps
    BY <2>1, GotoTyping, ProcTyping DEF PollerSteps
  <2>3. lock' \in [Procs -> LockStates]
    BY <1>3, LockMoves, ProcTyping DEF DecodeFeed, TypeOK
  <2>. QED  BY <1>3, <2>2, <2>3, CancelTyping DEF TypeOK, DecodeFeed, store, local
<1>4. CASE SwapDelays
  <2>1. Goto(Poller, "swapCancels")
    BY <1>4 DEF SwapDelays
  <2>2. /\ step' \in [Procs -> ReaderSteps \cup PollerSteps]
        /\ \A i \in Readers : step'[i] \in ReaderSteps
        /\ step'[Poller] \in PollerSteps
    BY <2>1, GotoTyping, ProcTyping DEF PollerSteps
  <2>3. lock' \in [Procs -> LockStates]
    BY <1>4, LockMoves, ProcTyping DEF SwapDelays, TypeOK
  <2>. QED  BY <1>4, <2>2, <2>3, CancelTyping DEF TypeOK, SwapDelays, store, local
<1>5. CASE SwapCancels
  <2>1. Goto(Poller, "swapAdds")
    BY <1>5 DEF SwapCancels
  <2>2. /\ step' \in [Procs -> ReaderSteps \cup PollerSteps]
        /\ \A i \in Readers : step'[i] \in ReaderSteps
        /\ step'[Poller] \in PollerSteps
    BY <2>1, GotoTyping, ProcTyping DEF PollerSteps
  <2>3. lock' \in [Procs -> LockStates]
    BY <1>5, LockMoves, ProcTyping DEF SwapCancels, TypeOK
  <2>. QED  BY <1>5, <2>2, <2>3 DEF TypeOK, SwapCancels, store, local
<1>6. CASE SwapAdds
  <2>1. Goto(Poller, "parsed")
    BY <1>6 DEF SwapAdds
  <2>2. /\ step' \in [Procs -> ReaderSteps \cup PollerSteps]
        /\ \A i \in Readers : step'[i] \in ReaderSteps
        /\ step'[Poller] \in PollerSteps
    BY <2>1, GotoTyping, ProcTyping DEF PollerSteps
  <2>3. lock' \in [Procs -> LockStates]
    BY <1>6, LockMoves, ProcTyping DEF SwapAdds, TypeOK
  <2>. QED  BY <1>6, <2>2, <2>3, CancelTyping DEF TypeOK, SwapAdds, store, local
<1>7. CASE LockAgain
  <2>1. Goto(Poller, "stamp")
    BY <1>7 DEF LockAgain
  <2>2. /\ step' \in [Procs -> ReaderSteps \cup PollerSteps]
        /\ \A i \in Readers : step'[i] \in ReaderSteps
        /\ step'[Poller] \in PollerSteps
    BY <2>1, GotoTyping, ProcTyping DEF PollerSteps
  <2>3. lock' \in [Procs -> LockStates]
    BY <1>7, LockMoves, ProcTyping DEF LockAgain, TypeOK
  <2>. QED  BY <1>7, <2>2, <2>3 DEF TypeOK, LockAgain, store, local
<1>8. CASE StampPollTime
  <2>1. Goto(Poller, "idle")
    BY <1>8 DEF StampPollTime
  <2>2. /\ step' \in [Procs -> ReaderSteps \cup PollerSteps]
        /\ \A i \in Readers : step'[i] \in ReaderSteps
        /\ step'[Poller] \in PollerSteps
    BY <2>1, GotoTyping, ProcTyping DEF PollerSteps
  <2>3. lock' \in [Procs -> LockStates]
    BY <1>8, LockMoves, ProcTyping DEF StampPollTime, TypeOK
  <2>. QED  BY <1>8, <2>2, <2>3, CancelTyping DEF TypeOK, StampPollTime, store, local
<1>9. ASSUME NEW r \in Readers, CallPollTime(r) PROVE TypeOK'
  <2>1. Goto(r, "pollTime")
    BY <1>9 DEF CallPollTime
  <2>2. /\ step' \in [Procs -> ReaderSteps \cup PollerSteps]
        /\ \A i \in Readers : step'[i] \in ReaderSteps
        /\ step'[Poller] \in PollerSteps
    BY <2>1, GotoTyping, ProcTyping DEF ReaderSteps
  <2>3. lock' \in [Procs -> LockStates]
    BY <1>9, LockMoves, ProcTyping DEF CallPollTime, TypeOK
  <2>. QED  BY <1>9, <2>2, <2>3 DEF TypeOK, CallPollTime, store, local
<1>10. ASSUME NEW r \in Readers, CallSnapshot(r) PROVE TypeOK'
  <2>1. Goto(r, "snapDelays")
    BY <1>10 DEF CallSnapshot
  <2>2. /\ step' \in [Procs -> ReaderSteps \cup PollerSteps]
        /\ \A i \in Readers : step'[i] \in ReaderSteps
        /\ step'[Poller] \in PollerSteps
    BY <2>1, GotoTyping, ProcTyping DEF ReaderSteps
  <2>3. lock' \in [Procs -> LockStates]
    BY <1>10, LockMoves, ProcTyping DEF CallSnapshot, TypeOK
  <2>. QED  BY <1>10, <2>2, <2>3 DEF TypeOK, CallSnapshot, store, local
<1>11. ASSUME NEW r \in Readers, CallDiagLogOnce(r) PROVE TypeOK'
  <2>1. Goto(r, "diag")
    BY <1>11 DEF CallDiagLogOnce
  <2>2. /\ step' \in [Procs -> ReaderSteps \cup PollerSteps]
        /\ \A i \in Readers : step'[i] \in ReaderSteps
        /\ step'[Poller] \in PollerSteps
    BY <2>1, GotoTyping, ProcTyping DEF ReaderSteps
  <2>3. lock' \in [Procs -> LockStates]
    BY <1>11, LockMoves, ProcTyping DEF CallDiagLogOnce, TypeOK
  <2>. QED  BY <1>11, <2>2, <2>3 DEF TypeOK, CallDiagLogOnce, store, local
<1>12. ASSUME NEW r \in Readers, PollTime(r) PROVE TypeOK'
  <2>1. Goto(r, "idle")
    BY <1>12 DEF PollTime
  <2>2. /\ step' \in [Procs -> ReaderSteps \cup PollerSteps]
        /\ \A i \in Readers : step'[i] \in ReaderSteps
        /\ step'[Poller] \in PollerSteps
    BY <2>1, GotoTyping, ProcTyping DEF ReaderSteps
  <2>3. lock' \in [Procs -> LockStates]
    BY <1>12, LockMoves, ProcTyping DEF PollTime, TypeOK
  <2>. QED  BY <1>12, <2>2, <2>3 DEF TypeOK, PollTime, store, local
<1>13. ASSUME NEW r \in Readers, SnapDelays(r) PROVE TypeOK'
  <2>1. Goto(r, "snapCancels")
    BY <1>13 DEF SnapDelays
  <2>2. /\ step' \in [Procs -> ReaderSteps \cup PollerSteps]
        /\ \A i \in Readers : step'[i] \in ReaderSteps
        /\ step'[Poller] \in PollerSteps
    BY <2>1, GotoTyping, ProcTyping DEF ReaderSteps
  <2>3. lock' \in [Procs -> LockStates]
    BY <1>13, LockMoves, ProcTyping DEF SnapDelays, TypeOK
  <2>4. part' \in [Readers -> View]
    BY <1>13 DEF SnapDelays, TypeOK, View
  <2>. QED  BY <1>13, <2>2, <2>3, <2>4 DEF TypeOK, SnapDelays, store, local
<1>14. ASSUME NEW r \in Readers, SnapCancels(r) PROVE TypeOK'
  <2>1. Goto(r, "snapAdds")
    BY <1>14 DEF SnapCancels
  <2>2. /\ step' \in [Procs -> ReaderSteps \cup PollerSteps]
        /\ \A i \in Readers : step'[i] \in ReaderSteps
        /\ step'[Poller] \in PollerSteps
    BY <2>1, GotoTyping, ProcTyping DEF ReaderSteps
  <2>3. lock' \in [Procs -> LockStates]
    BY <1>14, LockMoves, ProcTyping DEF SnapCancels, TypeOK
  <2>4. part' \in [Readers -> View]
    BY <1>14 DEF SnapCancels, TypeOK, View
  <2>. QED  BY <1>14, <2>2, <2>3, <2>4 DEF TypeOK, SnapCancels, store, local
<1>15. ASSUME NEW r \in Readers, Snapshot(r) PROVE TypeOK'
  <2>1. Goto(r, "idle")
    BY <1>15 DEF Snapshot
  <2>2. /\ step' \in [Procs -> ReaderSteps \cup PollerSteps]
        /\ \A i \in Readers : step'[i] \in ReaderSteps
        /\ step'[Poller] \in PollerSteps
    BY <2>1, GotoTyping, ProcTyping DEF ReaderSteps
  <2>3. lock' \in [Procs -> LockStates]
    BY <1>15, LockMoves, ProcTyping DEF Snapshot, TypeOK
  <2>4. part' \in [Readers -> View]
    BY <1>15 DEF Snapshot, TypeOK, View
  <2>. QED  BY <1>15, <2>2, <2>3, <2>4 DEF TypeOK, Snapshot, store, local
<1>16. ASSUME NEW r \in Readers, DiagLogOnce(r) PROVE TypeOK'
  <2>1. Goto(r, "idle")
    BY <1>16 DEF DiagLogOnce
  <2>2. /\ step' \in [Procs -> ReaderSteps \cup PollerSteps]
        /\ \A i \in Readers : step'[i] \in ReaderSteps
        /\ step'[Poller] \in PollerSteps
    BY <2>1, GotoTyping, ProcTyping DEF ReaderSteps
  <2>3. lock' \in [Procs -> LockStates]
    BY <1>16, LockMoves, ProcTyping DEF DiagLogOnce, TypeOK
  <2>. QED  BY <1>16, <2>2, <2>3 DEF TypeOK, DiagLogOnce, store, local
<1>17. ASSUME NEW p \in Procs, WriterTurn(p) PROVE TypeOK'
  BY <1>17, LockMoves DEF TypeOK, WriterTurn, store, local
<1>18. ASSUME NEW p \in Procs, WriterEnters(p) PROVE TypeOK'
  BY <1>18, LockMoves DEF TypeOK, WriterEnters, store, local
<1>19. CASE UNCHANGED lvars
  BY <1>19 DEF TypeOK, lvars, store, local
<1>. QED
  BY <1>1, <1>2, <1>3, <1>4, <1>5, <1>6, <1>7, <1>8, <1>9, <1>10, <1>11, <1>12, <1>13, <1>14, <1>15, <1>16, <1>17, <1>18, <1>19
  DEF Next, ParseStep, Call, ReaderStep

\* A goroutine that does not move keeps the lock its step needs: only a reader that
\* waits may be let in meanwhile.
LEMMA OthersKeepStep ==
  ASSUME NEW s, NEW l, NEW m, StepLock(s, l), m = l \/ (l = "rwait" /\ m = "read")
  PROVE  StepLock(s, m)
BY DEF StepLock

LEMMA StepInvNext == TypeOK /\ StepInv /\ [Next]_lvars => StepInv'
<1> SUFFICES ASSUME TypeOK, StepInv, [Next]_lvars PROVE StepInv'
  OBVIOUS
<1>1. CASE Poll
  <2>1. CASE UNCHANGED <<lock, step>>
    BY <2>1 DEF StepInv
  <2>2. CASE Goto(Poller, "carry") /\ RLock(Poller)
    BY <2>2, LockMoves, GotoMoves, ProcTyping DEF StepInv, StepLock
  <2>. QED  BY <1>1, <2>1, <2>2 DEF Poll
<1>2. CASE CarryCancels
  <2>1. Poller \in Procs /\ Goto(Poller, "decode")
    BY <1>2, ProcTyping DEF CarryCancels
  <2>2. StepLock(step'[Poller], lock'[Poller])
    BY <1>2, <2>1, LockMoves, GotoMoves DEF CarryCancels, Reading, StepLock
  <2>3. \A i \in Procs \ {Poller} :
          /\ step'[i] = step[i]
          /\ lock'[i] = lock[i] \/ (lock[i] = "rwait" /\ lock'[i] = "read")
    BY <1>2, <2>1, LockMoves, GotoMoves DEF CarryCancels
  <2>. QED  BY <2>2, <2>3, OthersKeepStep DEF StepInv
<1>3. CASE DecodeFeed
  <2>1. CASE Goto(Poller, "idle") /\ UNCHANGED lock
    BY <1>3, <2>1, GotoMoves, ProcTyping DEF DecodeFeed, StepInv, StepLock
  <2>2. CASE Goto(Poller, "swapDelays") /\ Lock(Poller)
    BY <2>2, LockMoves, GotoMoves, ProcTyping DEF StepInv, StepLock
  <2>. QED  BY <1>3, <2>1, <2>2 DEF DecodeFeed
<1>4. CASE SwapDelays
  <2>1. Poller \in Procs /\ Goto(Poller, "swapCancels")
    BY <1>4, ProcTyping DEF SwapDelays
  <2>2. StepLock(step'[Poller], lock'[Poller])
    BY <1>4, <2>1, LockMoves, GotoMoves DEF SwapDelays, Writing, StepLock
  <2>3. \A i \in Procs \ {Poller} :
          /\ step'[i] = step[i]
          /\ lock'[i] = lock[i] \/ (lock[i] = "rwait" /\ lock'[i] = "read")
    BY <1>4, <2>1, LockMoves, GotoMoves DEF SwapDelays
  <2>. QED  BY <2>2, <2>3, OthersKeepStep DEF StepInv
<1>5. CASE SwapCancels
  <2>1. Poller \in Procs /\ Goto(Poller, "swapAdds")
    BY <1>5, ProcTyping DEF SwapCancels
  <2>2. StepLock(step'[Poller], lock'[Poller])
    BY <1>5, <2>1, LockMoves, GotoMoves DEF SwapCancels, Writing, StepLock
  <2>3. \A i \in Procs \ {Poller} :
          /\ step'[i] = step[i]
          /\ lock'[i] = lock[i] \/ (lock[i] = "rwait" /\ lock'[i] = "read")
    BY <1>5, <2>1, LockMoves, GotoMoves DEF SwapCancels
  <2>. QED  BY <2>2, <2>3, OthersKeepStep DEF StepInv
<1>6. CASE SwapAdds
  <2>1. Poller \in Procs /\ Goto(Poller, "parsed")
    BY <1>6, ProcTyping DEF SwapAdds
  <2>2. StepLock(step'[Poller], lock'[Poller])
    BY <1>6, <2>1, LockMoves, GotoMoves DEF SwapAdds, Writing, StepLock
  <2>3. \A i \in Procs \ {Poller} :
          /\ step'[i] = step[i]
          /\ lock'[i] = lock[i] \/ (lock[i] = "rwait" /\ lock'[i] = "read")
    BY <1>6, <2>1, LockMoves, GotoMoves DEF SwapAdds
  <2>. QED  BY <2>2, <2>3, OthersKeepStep DEF StepInv
<1>7. CASE LockAgain
  <2>1. Poller \in Procs /\ Goto(Poller, "stamp")
    BY <1>7, ProcTyping DEF LockAgain
  <2>2. StepLock(step'[Poller], lock'[Poller])
    BY <1>7, <2>1, LockMoves, GotoMoves DEF LockAgain, StepLock
  <2>3. \A i \in Procs \ {Poller} :
          /\ step'[i] = step[i]
          /\ lock'[i] = lock[i] \/ (lock[i] = "rwait" /\ lock'[i] = "read")
    BY <1>7, <2>1, LockMoves, GotoMoves DEF LockAgain
  <2>. QED  BY <2>2, <2>3, OthersKeepStep DEF StepInv
<1>8. CASE StampPollTime
  <2>1. Poller \in Procs /\ Goto(Poller, "idle")
    BY <1>8, ProcTyping DEF StampPollTime
  <2>2. StepLock(step'[Poller], lock'[Poller])
    BY <1>8, <2>1, LockMoves, GotoMoves DEF StampPollTime, Writing, StepLock
  <2>3. \A i \in Procs \ {Poller} :
          /\ step'[i] = step[i]
          /\ lock'[i] = lock[i] \/ (lock[i] = "rwait" /\ lock'[i] = "read")
    BY <1>8, <2>1, LockMoves, GotoMoves DEF StampPollTime
  <2>. QED  BY <2>2, <2>3, OthersKeepStep DEF StepInv
<1>9. ASSUME NEW r \in Readers, CallPollTime(r) PROVE StepInv'
  <2>1. r \in Procs /\ Goto(r, "pollTime")
    BY <1>9, ProcTyping DEF CallPollTime
  <2>2. StepLock(step'[r], lock'[r])
    BY <1>9, <2>1, LockMoves, GotoMoves DEF CallPollTime, StepLock
  <2>3. \A i \in Procs \ {r} :
          /\ step'[i] = step[i]
          /\ lock'[i] = lock[i] \/ (lock[i] = "rwait" /\ lock'[i] = "read")
    BY <1>9, <2>1, LockMoves, GotoMoves DEF CallPollTime
  <2>. QED  BY <2>2, <2>3, OthersKeepStep DEF StepInv
<1>10. ASSUME NEW r \in Readers, CallSnapshot(r) PROVE StepInv'
  <2>1. r \in Procs /\ Goto(r, "snapDelays")
    BY <1>10, ProcTyping DEF CallSnapshot
  <2>2. StepLock(step'[r], lock'[r])
    BY <1>10, <2>1, LockMoves, GotoMoves DEF CallSnapshot, StepLock
  <2>3. \A i \in Procs \ {r} :
          /\ step'[i] = step[i]
          /\ lock'[i] = lock[i] \/ (lock[i] = "rwait" /\ lock'[i] = "read")
    BY <1>10, <2>1, LockMoves, GotoMoves DEF CallSnapshot
  <2>. QED  BY <2>2, <2>3, OthersKeepStep DEF StepInv
<1>11. ASSUME NEW r \in Readers, CallDiagLogOnce(r) PROVE StepInv'
  <2>1. r \in Procs /\ Goto(r, "diag")
    BY <1>11, ProcTyping DEF CallDiagLogOnce
  <2>2. StepLock(step'[r], lock'[r])
    BY <1>11, <2>1, LockMoves, GotoMoves DEF CallDiagLogOnce, StepLock
  <2>3. \A i \in Procs \ {r} :
          /\ step'[i] = step[i]
          /\ lock'[i] = lock[i] \/ (lock[i] = "rwait" /\ lock'[i] = "read")
    BY <1>11, <2>1, LockMoves, GotoMoves DEF CallDiagLogOnce
  <2>. QED  BY <2>2, <2>3, OthersKeepStep DEF StepInv
<1>12. ASSUME NEW r \in Readers, PollTime(r) PROVE StepInv'
  <2>1. r \in Procs /\ Goto(r, "idle")
    BY <1>12, ProcTyping DEF PollTime
  <2>2. StepLock(step'[r], lock'[r])
    BY <1>12, <2>1, LockMoves, GotoMoves DEF PollTime, Reading, StepLock
  <2>3. \A i \in Procs \ {r} :
          /\ step'[i] = step[i]
          /\ lock'[i] = lock[i] \/ (lock[i] = "rwait" /\ lock'[i] = "read")
    BY <1>12, <2>1, LockMoves, GotoMoves DEF PollTime
  <2>. QED  BY <2>2, <2>3, OthersKeepStep DEF StepInv
<1>13. ASSUME NEW r \in Readers, SnapDelays(r) PROVE StepInv'
  <2>1. r \in Procs /\ Goto(r, "snapCancels")
    BY <1>13, ProcTyping DEF SnapDelays
  <2>2. StepLock(step'[r], lock'[r])
    BY <1>13, <2>1, LockMoves, GotoMoves DEF SnapDelays, Reading, StepLock
  <2>3. \A i \in Procs \ {r} :
          /\ step'[i] = step[i]
          /\ lock'[i] = lock[i] \/ (lock[i] = "rwait" /\ lock'[i] = "read")
    BY <1>13, <2>1, LockMoves, GotoMoves DEF SnapDelays
  <2>. QED  BY <2>2, <2>3, OthersKeepStep DEF StepInv
<1>14. ASSUME NEW r \in Readers, SnapCancels(r) PROVE StepInv'
  <2>1. r \in Procs /\ Goto(r, "snapAdds")
    BY <1>14, ProcTyping DEF SnapCancels
  <2>2. StepLock(step'[r], lock'[r])
    BY <1>14, <2>1, LockMoves, GotoMoves DEF SnapCancels, Reading, StepLock
  <2>3. \A i \in Procs \ {r} :
          /\ step'[i] = step[i]
          /\ lock'[i] = lock[i] \/ (lock[i] = "rwait" /\ lock'[i] = "read")
    BY <1>14, <2>1, LockMoves, GotoMoves DEF SnapCancels
  <2>. QED  BY <2>2, <2>3, OthersKeepStep DEF StepInv
<1>15. ASSUME NEW r \in Readers, Snapshot(r) PROVE StepInv'
  <2>1. r \in Procs /\ Goto(r, "idle")
    BY <1>15, ProcTyping DEF Snapshot
  <2>2. StepLock(step'[r], lock'[r])
    BY <1>15, <2>1, LockMoves, GotoMoves DEF Snapshot, Reading, StepLock
  <2>3. \A i \in Procs \ {r} :
          /\ step'[i] = step[i]
          /\ lock'[i] = lock[i] \/ (lock[i] = "rwait" /\ lock'[i] = "read")
    BY <1>15, <2>1, LockMoves, GotoMoves DEF Snapshot
  <2>. QED  BY <2>2, <2>3, OthersKeepStep DEF StepInv
<1>16. ASSUME NEW r \in Readers, DiagLogOnce(r) PROVE StepInv'
  <2>1. r \in Procs /\ Goto(r, "idle")
    BY <1>16, ProcTyping DEF DiagLogOnce
  <2>2. StepLock(step'[r], lock'[r])
    BY <1>16, <2>1, LockMoves, GotoMoves DEF DiagLogOnce, Writing, StepLock
  <2>3. \A i \in Procs \ {r} :
          /\ step'[i] = step[i]
          /\ lock'[i] = lock[i] \/ (lock[i] = "rwait" /\ lock'[i] = "read")
    BY <1>16, <2>1, LockMoves, GotoMoves DEF DiagLogOnce
  <2>. QED  BY <2>2, <2>3, OthersKeepStep DEF StepInv
<1>17. ASSUME NEW p \in Procs, WriterTurn(p) PROVE StepInv'
  BY <1>17, LockMoves DEF StepInv, StepLock, WriterTurn
<1>18. ASSUME NEW p \in Procs, WriterEnters(p) PROVE StepInv'
  BY <1>18, LockMoves DEF StepInv, StepLock, WriterEnters
<1>19. CASE UNCHANGED lvars
  BY <1>19 DEF StepInv, lvars
<1>. QED
  BY <1>1, <1>2, <1>3, <1>4, <1>5, <1>6, <1>7, <1>8, <1>9, <1>10, <1>11, <1>12, <1>13, <1>14, <1>15, <1>16, <1>17, <1>18, <1>19
  DEF Next, ParseStep, Call, ReaderStep

\* What the poller knows is not disturbed by the others.
LEMMA PollerStays ==
  ASSUME PollInv, step'[Poller] = step[Poller],
         UNCHANGED <<clock, delays, cancellations, additions, newCancels>>
  PROVE  PollInv'
BY DEF PollInv, Swapping

LEMMA PollInvNext == TypeOK /\ PollInv /\ [Next]_lvars => PollInv'
<1> SUFFICES ASSUME TypeOK, PollInv, [Next]_lvars PROVE PollInv'
  OBVIOUS
<1>1. CASE Poll
  <2>1. clock \in Nat /\ delays \in Nat /\ clock' = clock + 1 /\ step[Poller] = "idle"
    BY <1>1, PollTyping DEF Poll, TypeOK
  <2>2. step'[Poller] \in {"idle", "carry"}
    BY <1>1, GotoMoves, ProcTyping DEF Poll
  <2>. QED  BY <1>1, <2>1, <2>2 DEF Poll, PollInv, Swapping, store
<1>2. CASE CarryCancels
  <2>1. step'[Poller] = "decode" /\ step[Poller] = "carry"
    BY <1>2, GotoMoves, ProcTyping DEF CarryCancels, Reading
  <2>. QED  BY <1>2, <2>1 DEF CarryCancels, PollInv, Swapping, store
<1>3. CASE DecodeFeed
  <2>1. step'[Poller] \in {"idle", "swapDelays"} /\ step[Poller] = "decode"
    BY <1>3, GotoMoves, ProcTyping DEF DecodeFeed
  <2>2. UNCHANGED <<clock, delays, cancellations, additions>>
    BY <1>3 DEF DecodeFeed, store
  <2>3. step'[Poller] = "swapDelays" =>
          \E cancelled \in SUBSET Trips :
            newCancels' = Record(Carry(cancellations, clock), cancelled, clock)
    BY <1>3, <2>1, GotoMoves, ProcTyping DEF DecodeFeed, PollInv
  <2>. QED  BY <2>1, <2>2, <2>3 DEF PollInv, Swapping
<1>4. CASE SwapDelays
  <2>1. step'[Poller] = "swapCancels" /\ step[Poller] = "swapDelays"
    BY <1>4, GotoMoves, ProcTyping DEF SwapDelays, Writing
  <2>2. clock \in Nat /\ delays \in Nat
    BY PollTyping DEF TypeOK
  <2>. QED  BY <1>4, <2>1, <2>2 DEF SwapDelays, PollInv, Swapping, store
<1>5. CASE SwapCancels
  <2>1. step'[Poller] = "swapAdds" /\ step[Poller] = "swapCancels"
    BY <1>5, GotoMoves, ProcTyping DEF SwapCancels, Writing
  <2>. QED  BY <1>5, <2>1 DEF SwapCancels, PollInv, Swapping, store
<1>6. CASE SwapAdds
  <2>1. step'[Poller] = "parsed" /\ step[Poller] = "swapAdds"
    BY <1>6, GotoMoves, ProcTyping DEF SwapAdds, Writing
  <2>2. clock \in Nat /\ delays \in Nat
    BY PollTyping DEF TypeOK
  <2>. QED  BY <1>6, <2>1, <2>2 DEF SwapAdds, PollInv, Swapping, store
<1>7. CASE LockAgain
  <2>1. step'[Poller] = "stamp" /\ step[Poller] = "parsed"
    BY <1>7, GotoMoves, ProcTyping DEF LockAgain
  <2>. QED  BY <1>7, <2>1 DEF LockAgain, PollInv, Swapping, store
<1>8. CASE StampPollTime
  <2>1. step'[Poller] = "idle" /\ step[Poller] = "stamp"
    BY <1>8, GotoMoves, ProcTyping DEF StampPollTime, Writing
  <2>. QED  BY <1>8, <2>1 DEF StampPollTime, PollInv, Swapping, store
<1>9. ASSUME NEW r \in Readers, CallPollTime(r) PROVE PollInv'
  <2>1. Goto(r, "pollTime") /\ r \in Procs /\ r # Poller
    BY <1>9, ProcTyping DEF CallPollTime
  <2>2. step'[Poller] = step[Poller]
    BY <2>1, GotoMoves, ProcTyping
  <2>. QED  BY <1>9, <2>2, PollerStays DEF CallPollTime, store
<1>10. ASSUME NEW r \in Readers, CallSnapshot(r) PROVE PollInv'
  <2>1. Goto(r, "snapDelays") /\ r \in Procs /\ r # Poller
    BY <1>10, ProcTyping DEF CallSnapshot
  <2>2. step'[Poller] = step[Poller]
    BY <2>1, GotoMoves, ProcTyping
  <2>. QED  BY <1>10, <2>2, PollerStays DEF CallSnapshot, store
<1>11. ASSUME NEW r \in Readers, CallDiagLogOnce(r) PROVE PollInv'
  <2>1. Goto(r, "diag") /\ r \in Procs /\ r # Poller
    BY <1>11, ProcTyping DEF CallDiagLogOnce
  <2>2. step'[Poller] = step[Poller]
    BY <2>1, GotoMoves, ProcTyping
  <2>. QED  BY <1>11, <2>2, PollerStays DEF CallDiagLogOnce, store
<1>12. ASSUME NEW r \in Readers, PollTime(r) PROVE PollInv'
  <2>1. Goto(r, "idle") /\ r \in Procs /\ r # Poller
    BY <1>12, ProcTyping DEF PollTime
  <2>2. step'[Poller] = step[Poller]
    BY <2>1, GotoMoves, ProcTyping
  <2>. QED  BY <1>12, <2>2, PollerStays DEF PollTime, store
<1>13. ASSUME NEW r \in Readers, SnapDelays(r) PROVE PollInv'
  <2>1. Goto(r, "snapCancels") /\ r \in Procs /\ r # Poller
    BY <1>13, ProcTyping DEF SnapDelays
  <2>2. step'[Poller] = step[Poller]
    BY <2>1, GotoMoves, ProcTyping
  <2>. QED  BY <1>13, <2>2, PollerStays DEF SnapDelays, store
<1>14. ASSUME NEW r \in Readers, SnapCancels(r) PROVE PollInv'
  <2>1. Goto(r, "snapAdds") /\ r \in Procs /\ r # Poller
    BY <1>14, ProcTyping DEF SnapCancels
  <2>2. step'[Poller] = step[Poller]
    BY <2>1, GotoMoves, ProcTyping
  <2>. QED  BY <1>14, <2>2, PollerStays DEF SnapCancels, store
<1>15. ASSUME NEW r \in Readers, Snapshot(r) PROVE PollInv'
  <2>1. Goto(r, "idle") /\ r \in Procs /\ r # Poller
    BY <1>15, ProcTyping DEF Snapshot
  <2>2. step'[Poller] = step[Poller]
    BY <2>1, GotoMoves, ProcTyping
  <2>. QED  BY <1>15, <2>2, PollerStays DEF Snapshot, store
<1>16. ASSUME NEW r \in Readers, DiagLogOnce(r) PROVE PollInv'
  <2>1. Goto(r, "idle") /\ r \in Procs /\ r # Poller
    BY <1>16, ProcTyping DEF DiagLogOnce
  <2>2. step'[Poller] = step[Poller]
    BY <2>1, GotoMoves, ProcTyping
  <2>. QED  BY <1>16, <2>2, PollerStays DEF DiagLogOnce, store
<1>17. ASSUME NEW p \in Procs, WriterTurn(p) PROVE PollInv'
  BY <1>17, PollerStays DEF WriterTurn, store
<1>18. ASSUME NEW p \in Procs, WriterEnters(p) PROVE PollInv'
  BY <1>18, PollerStays DEF WriterEnters, store
<1>19. CASE UNCHANGED lvars
  BY <1>19, PollerStays DEF lvars, store
<1>. QED
  BY <1>1, <1>2, <1>3, <1>4, <1>5, <1>6, <1>7, <1>8, <1>9, <1>10, <1>11, <1>12, <1>13, <1>14, <1>15, <1>16, <1>17, <1>18, <1>19
  DEF Next, ParseStep, Call, ReaderStep

\* A snapshot is not disturbed by a step that leaves the maps alone.
LEMMA PartStays ==
  ASSUME PartInv, UNCHANGED <<delays, cancellations, part>>,
         \A r \in Readers : step'[r] = step[r] \/ step'[r] \notin {"snapCancels", "snapAdds"}
  PROVE  PartInv'
BY DEF PartInv

\* While the poller writes no snapshot is under way.
LEMMA NoSnapshot ==
  ASSUME TypeOK, LockInv, StepInv, lock[Poller] = "write"
  PROVE  \A r \in Readers : step[r] \notin {"snapCancels", "snapAdds"}
BY ProcTyping, WriterIsAlone DEF StepInv, StepLock

LEMMA PartInvNext == TypeOK /\ LockInv /\ StepInv /\ PartInv /\ [Next]_lvars => PartInv'
<1> SUFFICES ASSUME TypeOK, LockInv, StepInv, PartInv, [Next]_lvars PROVE PartInv'
  OBVIOUS
<1>1. CASE Poll
  <2>1. \A r \in Readers : step'[r] = step[r]
    BY <1>1, GotoMoves, ProcTyping DEF Poll
  <2>. QED  BY <1>1, <2>1, PartStays DEF Poll, store, local
<1>2. CASE CarryCancels
  <2>1. \A r \in Readers : step'[r] = step[r]
    BY <1>2, GotoMoves, ProcTyping DEF CarryCancels
  <2>. QED  BY <1>2, <2>1, PartStays DEF CarryCancels, store, local
<1>3. CASE DecodeFeed
  <2>1. \A r \in Readers : step'[r] = step[r]
    BY <1>3, GotoMoves, ProcTyping DEF DecodeFeed
  <2>. QED  BY <1>3, <2>1, PartStays DEF DecodeFeed, store, local
<1>4. CASE SwapDelays
  <2>1. \A r \in Readers : step'[r] = step[r]
    BY <1>4, GotoMoves, ProcTyping DEF SwapDelays
  <2>2. \A r \in Readers : step[r] \notin {"snapCancels", "snapAdds"}
    BY <1>4, NoSnapshot DEF SwapDelays, Writing
  <2>. QED  BY <2>1, <2>2 DEF PartInv
<1>5. CASE SwapCancels
  <2>1. \A r \in Readers : step'[r] = step[r]
    BY <1>5, GotoMoves, ProcTyping DEF SwapCancels
  <2>2. \A r \in Readers : step[r] \notin {"snapCancels", "snapAdds"}
    BY <1>5, NoSnapshot DEF SwapCancels, Writing
  <2>. QED  BY <2>1, <2>2 DEF PartInv
<1>6. CASE SwapAdds
  <2>1. \A r \in Readers : step'[r] = step[r]
    BY <1>6, GotoMoves, ProcTyping DEF SwapAdds
  <2>. QED  BY <1>6, <2>1, PartStays DEF SwapAdds, store, local
<1>7. CASE LockAgain
  <2>1. \A r \in Readers : step'[r] = step[r]
    BY <1>7, GotoMoves, ProcTyping DEF LockAgain
  <2>. QED  BY <1>7, <2>1, PartStays DEF LockAgain, store, local
<1>8. CASE StampPollTime
  <2>1. \A r \in Readers : step'[r] = step[r]
    BY <1>8, GotoMoves, ProcTyping DEF StampPollTime
  <2>. QED  BY <1>8, <2>1, PartStays DEF StampPollTime, store, local
<1>9. ASSUME NEW r \in Readers, CallPollTime(r) PROVE PartInv'
  <2>1. step'[r] = "pollTime" /\ \A q \in Readers \ {r} : step'[q] = step[q]
    BY <1>9, GotoMoves, ProcTyping DEF CallPollTime
  <2>. QED  BY <1>9, <2>1, PartStays DEF CallPollTime, store, local
<1>10. ASSUME NEW r \in Readers, CallSnapshot(r) PROVE PartInv'
  <2>1. step'[r] = "snapDelays" /\ \A q \in Readers \ {r} : step'[q] = step[q]
    BY <1>10, GotoMoves, ProcTyping DEF CallSnapshot
  <2>. QED  BY <1>10, <2>1, PartStays DEF CallSnapshot, store, local
<1>11. ASSUME NEW r \in Readers, CallDiagLogOnce(r) PROVE PartInv'
  <2>1. step'[r] = "diag" /\ \A q \in Readers \ {r} : step'[q] = step[q]
    BY <1>11, GotoMoves, ProcTyping DEF CallDiagLogOnce
  <2>. QED  BY <1>11, <2>1, PartStays DEF CallDiagLogOnce, store, local
<1>12. ASSUME NEW r \in Readers, PollTime(r) PROVE PartInv'
  <2>1. step'[r] = "idle" /\ \A q \in Readers \ {r} : step'[q] = step[q]
    BY <1>12, GotoMoves, ProcTyping DEF PollTime
  <2>. QED  BY <1>12, <2>1, PartStays DEF PollTime, store, local
<1>13. ASSUME NEW r \in Readers, SnapDelays(r) PROVE PartInv'
  <2>1. step'[r] = "snapCancels" /\ \A q \in Readers \ {r} : step'[q] = step[q]
    BY <1>13, GotoMoves, ProcTyping DEF SnapDelays
  <2>2. /\ part'[r].delays = delays
        /\ \A q \in Readers \ {r} : part'[q] = part[q]
    BY <1>13 DEF SnapDelays, TypeOK, View
  <2>3. UNCHANGED <<delays, cancellations>>
    BY <1>13 DEF SnapDelays, store
  <2>4. step[r] = "snapDelays"
    BY <1>13 DEF SnapDelays, Reading
  <2>. QED  BY <2>1, <2>2, <2>3, <2>4 DEF PartInv
<1>14. ASSUME NEW r \in Readers, SnapCancels(r) PROVE PartInv'
  <2>1. step'[r] = "snapAdds" /\ \A q \in Readers \ {r} : step'[q] = step[q]
    BY <1>14, GotoMoves, ProcTyping DEF SnapCancels
  <2>2. /\ part'[r].cancels = cancellations
        /\ part'[r].delays = part[r].delays
        /\ \A q \in Readers \ {r} : part'[q] = part[q]
    BY <1>14 DEF SnapCancels, TypeOK, View
  <2>3. UNCHANGED <<delays, cancellations>>
    BY <1>14 DEF SnapCancels, store
  <2>4. step[r] = "snapCancels"
    BY <1>14 DEF SnapCancels, Reading
  <2>. QED  BY <2>1, <2>2, <2>3, <2>4 DEF PartInv
<1>15. ASSUME NEW r \in Readers, Snapshot(r) PROVE PartInv'
  <2>1. step'[r] = "idle" /\ \A q \in Readers \ {r} : step'[q] = step[q]
    BY <1>15, GotoMoves, ProcTyping DEF Snapshot
  <2>2. \A q \in Readers \ {r} : part'[q] = part[q]
    BY <1>15 DEF Snapshot, TypeOK
  <2>3. UNCHANGED <<delays, cancellations>>
    BY <1>15 DEF Snapshot, store
  <2>. QED  BY <2>1, <2>2, <2>3 DEF PartInv
<1>16. ASSUME NEW r \in Readers, DiagLogOnce(r) PROVE PartInv'
  <2>1. step'[r] = "idle" /\ \A q \in Readers \ {r} : step'[q] = step[q]
    BY <1>16, GotoMoves, ProcTyping DEF DiagLogOnce
  <2>. QED  BY <1>16, <2>1, PartStays DEF DiagLogOnce, store, local
<1>17. ASSUME NEW p \in Procs, WriterTurn(p) PROVE PartInv'
  BY <1>17, PartStays DEF WriterTurn, store, local
<1>18. ASSUME NEW p \in Procs, WriterEnters(p) PROVE PartInv'
  BY <1>18, PartStays DEF WriterEnters, store, local
<1>19. CASE UNCHANGED lvars
  BY <1>19, PartStays DEF lvars, store, local
<1>. QED
  BY <1>1, <1>2, <1>3, <1>4, <1>5, <1>6, <1>7, <1>8, <1>9, <1>10, <1>11, <1>12, <1>13, <1>14, <1>15, <1>16, <1>17, <1>18, <1>19
  DEF Next, ParseStep, Call, ReaderStep

-----------------------------------------------------------------------------
LEMMA StoreInvInit == Init => StoreInv
<1> SUFFICES ASSUME Init PROVE StoreInv
  OBVIOUS
<1>1. LockInv /\ StepInv /\ PollInv /\ PartInv
  BY ProcTyping, PollTyping
     DEF Init, LockInv, StepInv, StepLock, PollInv, PartInv, Swapping
<1>. QED  BY <1>1, TypeOKInit DEF StoreInv

LEMMA StoreInvNext == StoreInv /\ [Next]_lvars => StoreInv'
BY TypeOKNext, StepsMoveLock, LockInvStep, StepInvNext, PollInvNext, PartInvNext DEF StoreInv

\* StoreInv holds in every state of LiveStore.
THEOREM StoreInvariant == Spec => []StoreInv
BY StoreInvInit, StoreInvNext, PTL DEF Spec

\* Every variable keeps its shape: TypeOK.
THEOREM StoreTypeCorrect == Spec => []TypeOK
<1>1. StoreInv => TypeOK
  BY DEF StoreInv
<1>. QED  BY <1>1, StoreInvariant, PTL

-----------------------------------------------------------------------------
\* The mapping: what is in effect changes when the poller writes its first field,
\* and a snapshot is taken when it has its last.

LEMMA InEffectStays ==
  ASSUME step'[Poller] = step[Poller] \/ (~Swapping /\ ~Swapping'),
         UNCHANGED <<clock, delays, cancellations, additions, newCancels>>
  PROVE  InEffect' = InEffect
BY DEF InEffect, Swapping

LEMMA PollerOnly ==
  ASSUME TypeOK, NEW r \in Readers, NEW s, Goto(r, s)
  PROVE  step'[Poller] = step[Poller]
BY GotoMoves, ProcTyping

LEMMA InitMaps == Init => Promise!Init
<1> SUFFICES ASSUME Init PROVE Promise!Init
  OBVIOUS
<1>1. ~Swapping
  BY ProcTyping DEF Init, Swapping
<1>. QED  BY <1>1 DEF Init, Promise!Init, InEffect, NoView, Promise!NoParse,
                     NoCancels, Promise!NoCancels

LEMMA NextMaps == StoreInv /\ [Next]_lvars => [Promise!Next]_(Promise!fvars)
<1> SUFFICES ASSUME StoreInv, [Next]_lvars PROVE [Promise!Next]_(Promise!fvars)
  OBVIOUS
<1>. TypeOK
  BY DEF StoreInv
<1>1. CASE Poll
  <2>1. step[Poller] = "idle" /\ step'[Poller] \in {"idle", "carry"}
    BY <1>1, GotoMoves, ProcTyping DEF Poll
  <2>2. InEffect' = InEffect
    BY <1>1, <2>1 DEF Poll, InEffect, Swapping, store
  <2>3. Promise!Begin
    BY <1>1, <2>2 DEF Poll, Promise!Begin, store, local
  <2>. QED  BY <2>3 DEF Promise!Next
<1>2. CASE CarryCancels
  <2>1. step[Poller] = "carry" /\ step'[Poller] \in {"decode"}
    BY <1>2, GotoMoves, ProcTyping DEF CarryCancels, Reading
  <2>. QED  BY <1>2, <2>1 DEF CarryCancels, InEffect, Swapping, store, local, Promise!fvars
<1>3. CASE DecodeFeed
  <2>1. step[Poller] = "decode" /\ step'[Poller] \in {"idle", "swapDelays"}
    BY <1>3, GotoMoves, ProcTyping DEF DecodeFeed
  <2>. QED  BY <1>3, <2>1 DEF DecodeFeed, InEffect, Swapping, store, local, Promise!fvars
<1>4. CASE SwapDelays
  <2>1. step[Poller] = "swapDelays" /\ step'[Poller] = "swapCancels"
    BY <1>4, GotoMoves, ProcTyping DEF SwapDelays, Writing
  <2>2. InEffect = [delays |-> delays, cancels |-> cancellations, adds |-> additions]
    BY <2>1 DEF InEffect, Swapping
  <2>3. InEffect' = [delays |-> clock, cancels |-> newCancels, adds |-> clock]
    BY <1>4, <2>1 DEF InEffect, Swapping, SwapDelays
  <2>4. PICK cancelled \in SUBSET Trips :
          newCancels = Record(Carry(cancellations, clock), cancelled, clock)
    BY <2>1 DEF StoreInv, PollInv
  <2>5. delays < clock
    BY <2>1 DEF StoreInv, PollInv
  <2>6. newCancels = Promise!Record(Promise!Carry(InEffect.cancels, clock), cancelled, clock)
    BY <2>2, <2>4 DEF Record, Carry, InForce, Promise!Record, Promise!Carry, Promise!InForce
  <2>7. Promise!Publish
    BY <1>4, <2>2, <2>3, <2>5, <2>6 DEF SwapDelays, Promise!Publish, local
  <2>. QED  BY <2>7 DEF Promise!Next
<1>5. CASE SwapCancels
  <2>1. step[Poller] = "swapCancels" /\ step'[Poller] = "swapAdds"
    BY <1>5, GotoMoves, ProcTyping DEF SwapCancels, Writing
  <2>. QED  BY <1>5, <2>1 DEF SwapCancels, InEffect, Swapping, local, Promise!fvars
<1>6. CASE SwapAdds
  <2>1. step[Poller] = "swapAdds" /\ step'[Poller] = "parsed"
    BY <1>6, GotoMoves, ProcTyping DEF SwapAdds, Writing
  <2>2. delays = clock /\ cancellations = newCancels
    BY <2>1 DEF StoreInv, PollInv
  <2>. QED  BY <1>6, <2>1, <2>2 DEF SwapAdds, InEffect, Swapping, local, Promise!fvars
<1>7. CASE LockAgain
  <2>1. step[Poller] = "parsed" /\ step'[Poller] \in {"stamp"}
    BY <1>7, GotoMoves, ProcTyping DEF LockAgain
  <2>. QED  BY <1>7, <2>1 DEF LockAgain, InEffect, Swapping, store, local, Promise!fvars
<1>8. CASE StampPollTime
  <2>1. step[Poller] = "stamp" /\ step'[Poller] = "idle"
    BY <1>8, GotoMoves, ProcTyping DEF StampPollTime, Writing
  <2>2. InEffect' = InEffect /\ InEffect.delays = clock
    BY <1>8, <2>1 DEF StampPollTime, InEffect, Swapping, StoreInv, PollInv
  <2>3. Promise!Stamp
    BY <1>8, <2>2 DEF StampPollTime, Promise!Stamp, local
  <2>. QED  BY <2>3 DEF Promise!Next
<1>9. ASSUME NEW r \in Readers, CallPollTime(r) PROVE [Promise!Next]_(Promise!fvars)
  BY <1>9, PollerOnly, InEffectStays DEF CallPollTime, store, local, Promise!fvars
<1>10. ASSUME NEW r \in Readers, CallSnapshot(r) PROVE [Promise!Next]_(Promise!fvars)
  BY <1>10, PollerOnly, InEffectStays DEF CallSnapshot, store, local, Promise!fvars
<1>11. ASSUME NEW r \in Readers, CallDiagLogOnce(r) PROVE [Promise!Next]_(Promise!fvars)
  BY <1>11, PollerOnly, InEffectStays DEF CallDiagLogOnce, store, local, Promise!fvars
<1>12. ASSUME NEW r \in Readers, PollTime(r) PROVE [Promise!Next]_(Promise!fvars)
  <2>1. InEffect' = InEffect
    BY <1>12, PollerOnly, InEffectStays DEF PollTime, store
  <2>2. Promise!ReadPollTime(r)
    BY <1>12, <2>1 DEF PollTime, Promise!ReadPollTime, store
  <2>. QED  BY <2>2 DEF Promise!Next
<1>13. ASSUME NEW r \in Readers, SnapDelays(r) PROVE [Promise!Next]_(Promise!fvars)
  BY <1>13, PollerOnly, InEffectStays DEF SnapDelays, store, local, Promise!fvars
<1>14. ASSUME NEW r \in Readers, SnapCancels(r) PROVE [Promise!Next]_(Promise!fvars)
  BY <1>14, PollerOnly, InEffectStays DEF SnapCancels, store, local, Promise!fvars
<1>15. ASSUME NEW r \in Readers, Snapshot(r) PROVE [Promise!Next]_(Promise!fvars)
  <2>1. InEffect' = InEffect
    BY <1>15, PollerOnly, InEffectStays DEF Snapshot, store
  <2>2. step[r] = "snapAdds" /\ lock[r] = "read" /\ r \in Procs
    BY <1>15, ProcTyping DEF Snapshot, Reading
  <2>3. ~Swapping
    BY <2>2, ProcTyping DEF StoreInv, LockInv, StepInv, StepLock, Swapping
  <2>4. part[r].delays = delays /\ part[r].cancels = cancellations
    BY <2>2 DEF StoreInv, PartInv
  <2>5. part'[r] = [delays |-> delays, cancels |-> cancellations, adds |-> additions]
    BY <1>15, <2>4 DEF Snapshot, StoreInv, TypeOK, View
  <2>6. part'[r] = InEffect
    BY <2>3, <2>5 DEF InEffect
  <2>7. Promise!TakeSnapshot(r)
    BY <1>15, <2>1, <2>6 DEF Snapshot, Promise!TakeSnapshot, store
  <2>. QED  BY <2>7 DEF Promise!Next
<1>16. ASSUME NEW r \in Readers, DiagLogOnce(r) PROVE [Promise!Next]_(Promise!fvars)
  BY <1>16, PollerOnly, InEffectStays DEF DiagLogOnce, store, local, Promise!fvars
<1>17. ASSUME NEW p \in Procs, WriterTurn(p) PROVE [Promise!Next]_(Promise!fvars)
  BY <1>17, InEffectStays DEF WriterTurn, store, local, Promise!fvars
<1>18. ASSUME NEW p \in Procs, WriterEnters(p) PROVE [Promise!Next]_(Promise!fvars)
  BY <1>18, InEffectStays DEF WriterEnters, store, local, Promise!fvars
<1>19. CASE UNCHANGED lvars
  BY <1>19 DEF lvars, store, local, Promise!fvars, InEffect, Swapping
<1>. QED
  BY <1>1, <1>2, <1>3, <1>4, <1>5, <1>6, <1>7, <1>8, <1>9, <1>10, <1>11, <1>12, <1>13, <1>14, <1>15, <1>16, <1>17, <1>18, <1>19
  DEF Next, ParseStep, Call, ReaderStep

\* The fields behind the lock implement the promise, KeepsPromise: parses take effect
\* whole and in order, and every snapshot is one of them.
THEOREM StoreKeepsPromise == Spec => KeepsPromise
BY StoreInvariant, InitMaps, NextMaps, PTL DEF Spec, KeepsPromise, Promise!Spec

\* What is proved of FeedStore holds of the snapshots that are really taken.
Proved == INSTANCE FeedStoreProofs WITH current <- InEffect, stamp <- lastPollTime

LEMMA SameOperators ==
  /\ Promise!fvars = Proved!fvars
  /\ Promise!NoParse = Proved!NoParse
  /\ \A cancels, now : Promise!Carry(cancels, now) = Proved!Carry(cancels, now)
  /\ \A cancels, cancelled, now :
       Promise!Record(cancels, cancelled, now) = Proved!Record(cancels, cancelled, now)
BY DEF Promise!fvars, Proved!fvars, Promise!NoParse, Proved!NoParse,
       Promise!NoCancels, Proved!NoCancels, Promise!Carry, Proved!Carry,
       Promise!Record, Proved!Record, Promise!InForce, Proved!InForce

LEMMA SamePromise == KeepsPromise => Proved!Spec
<1>1. Promise!Init => Proved!Init
  BY SameOperators DEF Promise!Init, Proved!Init
<1>2. Promise!Next => Proved!Next
  <2>1. Promise!Begin => Proved!Begin
    BY DEF Promise!Begin, Proved!Begin
  <2>2. Promise!Publish => Proved!Publish
    BY SameOperators DEF Promise!Publish, Proved!Publish
  <2>3. Promise!Stamp => Proved!Stamp
    BY DEF Promise!Stamp, Proved!Stamp
  <2>4. \A r \in Readers : Promise!TakeSnapshot(r) => Proved!TakeSnapshot(r)
    BY DEF Promise!TakeSnapshot, Proved!TakeSnapshot
  <2>5. \A r \in Readers : Promise!ReadPollTime(r) => Proved!ReadPollTime(r)
    BY DEF Promise!ReadPollTime, Proved!ReadPollTime
  <2>. QED  BY <2>1, <2>2, <2>3, <2>4, <2>5 DEF Promise!Next, Proved!Next
<1>3. UNCHANGED Promise!fvars => UNCHANGED Proved!fvars
  BY DEF Promise!fvars, Proved!fvars
<1>. QED  BY <1>1, <1>2, <1>3, PTL DEF KeepsPromise, Promise!Spec, Proved!Spec

\* SnapshotsGoForward: no goroutine sees the feed go back to an older parse.
THEOREM SnapshotsForward == Spec => SnapshotsGoForward
<1>1. Proved!Spec => Proved!SnapshotsGoForward
  BY Proved!FeedGoesForward, FeedAssumption, PTL
<1>. QED  BY <1>1, StoreKeepsPromise, SamePromise, PTL
             DEF SnapshotsGoForward, Promise!SnapshotsGoForward, Proved!SnapshotsGoForward

\* CancelledStaysCancelled: a cancellation holds in every later snapshot of its window.
THEOREM CancellationsStay == Spec => CancelledStaysCancelled
<1>1. Proved!Spec => Proved!CancelledStaysCancelled
  BY Proved!CancellationsHold, FeedAssumption, PTL
<1>. QED  BY <1>1, StoreKeepsPromise, SamePromise, PTL
             DEF CancelledStaysCancelled, Promise!CancelledStaysCancelled,
                 Proved!CancelledStaysCancelled, Promise!InForce, Proved!InForce

=============================================================================

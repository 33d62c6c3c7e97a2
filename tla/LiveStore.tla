----------------------------- MODULE LiveStore -----------------------------
(***************************************************************************)
(* LiveStore and the parse that fills it (src/gtfs/realtime.go), at the    *)
(* grain of the fields behind its RWMutex.  One goroutine polls: it copies *)
(* the cancellations under the read lock, decodes without the lock, writes *)
(* the fields one by one under the write lock, and takes the lock again to *)
(* set LastPollTime.  The others read, or log a diagnostic once per poll.  *)
(***************************************************************************)
EXTENDS Feed

CONSTANTS
  Poller,     \* the polling goroutine
  Drawing,    \* the readers that draw: the others only ask for PollTime
  Keys        \* keys of diagnostics

ASSUME PollerAssumption == Poller \notin Readers /\ Drawing \subseteq Readers

VARIABLES
  clock,          \* the poll that is being made, or was made last
  delays,         \* the poll whose Delays are in the store
  cancellations,  \* Cancellations: when each trip was cancelled
  additions,      \* the poll whose Additions and LastFeedTime are in the store
  lastPollTime,   \* LastPollTime
  diagLogged,     \* diagLogged: the keys logged since the last parse
  newCancels,     \* the poller's own: the cancellations it is about to store
  lock,           \* lock[p]: what the RWMutex is to goroutine p
  step,           \* step[p]: the next step of the call p is in
  part,           \* part[r]: the snapshot r is copying, field by field
  view,           \* view[r]: the last snapshot that snapshot() returned to r
  seen            \* seen[r]: the last answer of PollTime() to r

store == <<delays, cancellations, additions, lastPollTime, diagLogged>>
local == <<part, view, seen>>
lvars == <<clock, store, newCancels, lock, step, local>>

Procs == Readers \cup {Poller}
NoView == [delays |-> 0, cancels |-> NoCancels, adds |-> 0]

Init ==
  /\ clock = 0
  /\ delays = 0 /\ additions = 0 /\ lastPollTime = 0
  /\ cancellations = NoCancels /\ newCancels = NoCancels
  /\ diagLogged = {}
  /\ lock = [p \in Procs |-> "out"]
  /\ step = [p \in Procs |-> "idle"]
  /\ part = [r \in Readers |-> NoView]
  /\ view = [r \in Readers |-> NoView]
  /\ seen = [r \in Readers |-> 0]

Goto(p, s) == step' = [step EXCEPT ![p] = s]

-----------------------------------------------------------------------------
(***************************************************************************)
(* sync.RWMutex.  A writer that waits ("drain") already keeps new readers  *)
(* out; when it unlocks, the readers that came in the meantime go first.   *)
(***************************************************************************)
WriterIn == \E p \in Procs : lock[p] \in {"drain", "write"}

\* Mutant of RLock: the reader does not look for a writer.
RLockBarges(p) == lock' = [lock EXCEPT ![p] = "read"]

RLock(p) == lock' = [lock EXCEPT ![p] = IF WriterIn THEN "rwait" ELSE "read"]
RUnlock(p) == lock' = [lock EXCEPT ![p] = "out"]
Lock(p) == lock' = [lock EXCEPT ![p] = "wwait"]
Unlock(p) == lock' = [q \in Procs |-> IF q = p THEN "out"
                                      ELSE IF lock[q] = "rwait" THEN "read" ELSE lock[q]]

\* Lock(), after the call: first among the writers, then past the readers.
WriterTurn(p) ==
  /\ lock[p] = "wwait" /\ ~WriterIn
  /\ lock' = [lock EXCEPT ![p] = "drain"]
  /\ UNCHANGED <<clock, store, newCancels, step, local>>

WriterEnters(p) ==
  /\ lock[p] = "drain" /\ \A q \in Procs : lock[q] # "read"
  /\ lock' = [lock EXCEPT ![p] = "write"]
  /\ UNCHANGED <<clock, store, newCancels, step, local>>

Reading(p, s) == step[p] = s /\ lock[p] = "read"
Writing(p, s) == step[p] = s /\ lock[p] = "write"

-----------------------------------------------------------------------------
\* Poll: the fetch, whose failure ends it, then parse.

Poll ==
  /\ step[Poller] = "idle"
  /\ clock < MaxPolls
  /\ clock' = clock + 1
  /\ \/ UNCHANGED <<lock, step>>
     \/ Goto(Poller, "carry") /\ RLock(Poller)
  /\ UNCHANGED <<store, newCancels, local>>

CarryCancels ==
  /\ Reading(Poller, "carry")
  /\ newCancels' = Carry(cancellations, clock)
  /\ RUnlock(Poller)
  /\ Goto(Poller, "decode")
  /\ UNCHANGED <<clock, store, local>>

\* Mutant of DecodeFeed: a feed that cannot be decoded empties the store.
DecodeFeedClears ==
  /\ step[Poller] = "decode"
  /\ \/ /\ delays' = 0 /\ cancellations' = NoCancels /\ additions' = 0
        /\ Goto(Poller, "idle")
        /\ UNCHANGED <<lock, newCancels>>
     \/ /\ Lock(Poller) /\ Goto(Poller, "swapDelays")
        /\ UNCHANGED <<delays, cancellations, additions, newCancels>>
  /\ UNCHANGED <<clock, lastPollTime, diagLogged, local>>

\* decodeFeed works on maps of its own.  When it fails nothing is stored.
DecodeFeed ==
  /\ step[Poller] = "decode"
  /\ \/ Goto(Poller, "idle") /\ UNCHANGED <<lock, newCancels>>
     \/ /\ \E cancelled \in SUBSET Trips : newCancels' = Record(newCancels, cancelled, clock)
        /\ Lock(Poller)
        /\ Goto(Poller, "swapDelays")
  /\ UNCHANGED <<clock, store, local>>

SwapDelays ==
  /\ Writing(Poller, "swapDelays")
  /\ delays' = clock
  /\ Goto(Poller, "swapCancels")
  /\ UNCHANGED <<clock, cancellations, additions, lastPollTime, diagLogged, newCancels, lock, local>>

SwapCancels ==
  /\ Writing(Poller, "swapCancels")
  /\ cancellations' = newCancels
  /\ Goto(Poller, "swapAdds")
  /\ UNCHANGED <<clock, delays, additions, lastPollTime, diagLogged, newCancels, lock, local>>

SwapAdds ==
  /\ Writing(Poller, "swapAdds")
  /\ additions' = clock
  /\ diagLogged' = {}
  /\ Unlock(Poller)
  /\ Goto(Poller, "parsed")
  /\ UNCHANGED <<clock, delays, cancellations, lastPollTime, newCancels, local>>

LockAgain ==
  /\ step[Poller] = "parsed"
  /\ Lock(Poller)
  /\ Goto(Poller, "stamp")
  /\ UNCHANGED <<clock, store, newCancels, local>>

\* Mutant of StampPollTime: the unlock is missing.
StampKeepsLock ==
  /\ Writing(Poller, "stamp")
  /\ lastPollTime' = clock
  /\ Goto(Poller, "idle")
  /\ UNCHANGED <<clock, delays, cancellations, additions, diagLogged, newCancels, lock, local>>

StampPollTime ==
  /\ Writing(Poller, "stamp")
  /\ lastPollTime' = clock
  /\ Unlock(Poller)
  /\ Goto(Poller, "idle")
  /\ UNCHANGED <<clock, delays, cancellations, additions, diagLogged, newCancels, local>>

-----------------------------------------------------------------------------
\* PollTime, snapshot (GetDelay, IsCancelled and GetAdditions read one of its
\* fields the same way) and DiagLogOnce.

CallPollTime(r) ==
  /\ step[r] = "idle"
  /\ RLock(r) /\ Goto(r, "pollTime")
  /\ UNCHANGED <<clock, store, newCancels, local>>

PollTime(r) ==
  /\ Reading(r, "pollTime")
  /\ seen' = [seen EXCEPT ![r] = lastPollTime]
  /\ RUnlock(r) /\ Goto(r, "idle")
  /\ UNCHANGED <<clock, store, newCancels, part, view>>

CallSnapshot(r) ==
  /\ r \in Drawing /\ step[r] = "idle"
  /\ RLock(r) /\ Goto(r, "snapDelays")
  /\ UNCHANGED <<clock, store, newCancels, local>>

SnapDelays(r) ==
  /\ Reading(r, "snapDelays")
  /\ part' = [part EXCEPT ![r].delays = delays]
  /\ Goto(r, "snapCancels")
  /\ UNCHANGED <<clock, store, newCancels, lock, view, seen>>

SnapCancels(r) ==
  /\ Reading(r, "snapCancels")
  /\ part' = [part EXCEPT ![r].cancels = cancellations]
  /\ Goto(r, "snapAdds")
  /\ UNCHANGED <<clock, store, newCancels, lock, view, seen>>

Snapshot(r) ==
  /\ Reading(r, "snapAdds")
  /\ part' = [part EXCEPT ![r].adds = additions]
  /\ view' = [view EXCEPT ![r] = part'[r]]
  /\ RUnlock(r) /\ Goto(r, "idle")
  /\ UNCHANGED <<clock, store, newCancels, seen>>

CallDiagLogOnce(r) ==
  /\ r \in Drawing /\ step[r] = "idle"
  /\ Lock(r) /\ Goto(r, "diag")
  /\ UNCHANGED <<clock, store, newCancels, local>>

DiagLogOnce(r) ==
  /\ Writing(r, "diag")
  /\ \E key \in Keys : diagLogged' = diagLogged \cup {key}
  /\ Unlock(r) /\ Goto(r, "idle")
  /\ UNCHANGED <<clock, delays, cancellations, additions, lastPollTime, newCancels, local>>

-----------------------------------------------------------------------------
ParseStep ==
  \/ CarryCancels \/ DecodeFeed \/ SwapDelays \/ SwapCancels \/ SwapAdds
  \/ LockAgain \/ StampPollTime

Call(r) == CallPollTime(r) \/ CallSnapshot(r) \/ CallDiagLogOnce(r)

ReaderStep(r) ==
  PollTime(r) \/ SnapDelays(r) \/ SnapCancels(r) \/ Snapshot(r) \/ DiagLogOnce(r)

Next ==
  \/ Poll \/ ParseStep
  \/ \E r \in Readers : Call(r) \/ ReaderStep(r)
  \/ \E p \in Procs : WriterTurn(p) \/ WriterEnters(p)

Spec == Init /\ [][Next]_lvars

\* A goroutine inside a call goes on.  The mutex among writers hands itself over
\* in order to one that has waited long, hence the strong fairness.
FairSpec ==
  /\ Spec
  /\ WF_lvars(ParseStep)
  /\ \A r \in Readers : WF_lvars(ReaderStep(r))
  /\ \A p \in Procs : SF_lvars(WriterTurn(p)) /\ WF_lvars(WriterEnters(p))

-----------------------------------------------------------------------------
(***************************************************************************)
(* Properties.                                                             *)
(***************************************************************************)

LockStates == {"out", "rwait", "read", "wwait", "drain", "write"}
ReaderSteps == {"idle", "pollTime", "snapDelays", "snapCancels", "snapAdds", "diag"}
PollerSteps == {"idle", "carry", "decode", "swapDelays", "swapCancels", "swapAdds",
                "parsed", "stamp"}
View == [delays : Polls, cancels : [Trips -> Polls], adds : Polls]

\* Every variable keeps its shape.
TypeOK ==
  /\ clock \in Polls
  /\ delays \in Polls /\ additions \in Polls /\ lastPollTime \in Polls
  /\ cancellations \in [Trips -> Polls] /\ newCancels \in [Trips -> Polls]
  /\ diagLogged \subseteq Keys
  /\ lock \in [Procs -> LockStates]
  /\ step \in [Procs -> ReaderSteps \cup PollerSteps]
  /\ \A r \in Readers : step[r] \in ReaderSteps
  /\ step[Poller] \in PollerSteps
  /\ part \in [Readers -> View] /\ view \in [Readers -> View]
  /\ seen \in [Readers -> Polls]

\* The store as the others see it: the new parse from the first field written on.
Swapping == step[Poller] \in {"swapCancels", "swapAdds"}
InEffect ==
  IF Swapping
  THEN [delays |-> clock, cancels |-> newCancels, adds |-> clock]
  ELSE [delays |-> delays, cancels |-> cancellations, adds |-> additions]

Promise == INSTANCE FeedStore WITH current <- InEffect, stamp <- lastPollTime

\* The fields written and read one by one behind the lock, and the cancellations
\* copied under an earlier lock, amount to whole parses taking effect one by one.
KeepsPromise == Promise!Spec

\* Consequences that the board relies on, for the snapshots really taken.
SnapshotsGoForward == Promise!SnapshotsGoForward
CancelledStaysCancelled == Promise!CancelledStaysCancelled

\* Every call returns: nobody waits on the lock for ever, whoever holds it.
CallsReturn == \A p \in Procs : step[p] # "idle" ~> step[p] = "idle"

=============================================================================

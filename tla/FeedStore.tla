----------------------------- MODULE FeedStore -----------------------------
(***************************************************************************)
(* What LiveStore promises to the goroutines that share it: a parse takes  *)
(* effect at once ("Atomic swap"), on top of the one before it; a snapshot *)
(* is the whole result of one parse; the time of the last poll is moved    *)
(* only after its parse took effect, in a second step of its own.          *)
(***************************************************************************)
EXTENDS Feed

VARIABLES
  clock,      \* the poll that is being made, or was made last
  current,    \* the parse in effect: whose Delays, Cancellations and Additions
  stamp,      \* LastPollTime
  view,       \* view[r]: the last snapshot r took
  seen        \* seen[r]: the last PollTime r was given

fvars == <<clock, current, stamp, view, seen>>

Parse == [delays : Polls, cancels : [Trips -> Polls], adds : Polls]
NoParse == [delays |-> 0, cancels |-> NoCancels, adds |-> 0]

Init ==
  /\ clock = 0 /\ stamp = 0
  /\ current = NoParse
  /\ view = [r \in Readers |-> NoParse]
  /\ seen = [r \in Readers |-> 0]

\* A poll begins.  It may fail, and then nothing else happens.
Begin ==
  /\ clock < MaxPolls
  /\ clock' = clock + 1
  /\ UNCHANGED <<current, stamp, view, seen>>

Publish ==
  /\ current.delays < clock
  /\ \E cancelled \in SUBSET Trips :
       current' = [delays |-> clock, adds |-> clock,
                   cancels |-> Record(Carry(current.cancels, clock), cancelled, clock)]
  /\ UNCHANGED <<clock, stamp, view, seen>>

Stamp ==
  /\ current.delays = clock
  /\ stamp' = clock
  /\ UNCHANGED <<clock, current, view, seen>>

TakeSnapshot(r) ==
  /\ view' = [view EXCEPT ![r] = current]
  /\ UNCHANGED <<clock, current, stamp, seen>>

ReadPollTime(r) ==
  /\ seen' = [seen EXCEPT ![r] = stamp]
  /\ UNCHANGED <<clock, current, stamp, view>>

Next ==
  \/ Begin \/ Publish \/ Stamp
  \/ \E r \in Readers : TakeSnapshot(r) \/ ReadPollTime(r)

Spec == Init /\ [][Next]_fvars

-----------------------------------------------------------------------------
\* Every variable keeps its shape.
TypeOK ==
  /\ clock \in Polls /\ stamp \in Polls
  /\ current \in Parse
  /\ view \in [Readers -> Parse]
  /\ seen \in [Readers -> Polls]

\* A goroutine never sees the feed go back to an older parse.
SnapshotsGoForward ==
  [][\A r \in Readers : view'[r].delays >= view[r].delays]_view

\* A trip that one snapshot shows as cancelled is cancelled in every later one until
\* its 24 hours are over, however many feeds in between did not mention it.
CancelledStaysCancelled ==
  [][\A r \in Readers, t \in Trips :
        InForce(view[r].cancels[t], view'[r].delays) =>
          view'[r].cancels[t] >= view[r].cancels[t]]_view

=============================================================================

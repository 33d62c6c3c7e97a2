-------------------------- MODULE FeedStoreProofs --------------------------
(***************************************************************************)
(* Safety of FeedStore for any trips, readers, window and number of polls. *)
(* The invariant compares what each reader saw last with what is in effect *)
(* now: nothing newer, and no cancellation that is still in force forgotten. *)
(***************************************************************************)
EXTENDS FeedStore, TLAPS

Recent(parse) == \A t \in Trips : parse.cancels[t] <= parse.delays

\* The new parse extends the old one: later, and with every cancellation that is
\* still in force.
Extends(new, old) ==
  /\ new.delays >= old.delays
  /\ \A t \in Trips : InForce(old.cancels[t], new.delays) => new.cancels[t] >= old.cancels[t]

FeedInv ==
  /\ TypeOK
  /\ current.delays <= clock /\ stamp <= current.delays
  /\ Recent(current)
  /\ \A r \in Readers : Recent(view[r]) /\ Extends(current, view[r])

LEMMA ParseTyping ==
  ASSUME NEW p \in Parse
  PROVE  /\ p.delays \in Polls /\ p.adds \in Polls
         /\ \A t \in Trips : p.cancels[t] \in Polls
BY DEF Parse

LEMMA PollTyping ==
  /\ Polls \subseteq Nat /\ 0 \in Polls
  /\ NoParse \in Parse
BY FeedAssumption DEF Polls, NoParse, NoCancels, Parse

\* The parse that takes effect is typed, recent, and extends whatever the old one did.
LEMMA NextParse ==
  ASSUME NEW old \in Parse, Recent(old), NEW now \in Polls, old.delays < now,
         NEW cancelled \in SUBSET Trips, NEW new,
         new = [delays |-> now, adds |-> now,
                cancels |-> Record(Carry(old.cancels, now), cancelled, now)]
  PROVE  /\ new \in Parse /\ new.delays = now
         /\ Recent(new)
         /\ \A v \in Parse : Recent(v) /\ Extends(old, v) => Extends(new, v)
<1> DEFINE kept == Carry(old.cancels, now)
<1>1. /\ \A t \in Trips : kept[t] = IF InForce(old.cancels[t], now) THEN old.cancels[t] ELSE 0
      /\ \A t \in Trips : new.cancels[t] = IF t \in cancelled THEN now ELSE kept[t]
      /\ new.cancels = [t \in Trips |-> IF t \in cancelled THEN now ELSE kept[t]]
      /\ new.delays = now /\ new.adds = now
  BY DEF Carry, Record
<1>2. \A t \in Trips : old.cancels[t] \in Polls /\ old.cancels[t] <= old.delays
  BY ParseTyping DEF Recent
<1>3. old.delays \in Nat /\ now \in Nat /\ Window \in Nat
  BY ParseTyping, PollTyping, FeedAssumption
<1>4. \A t \in Trips : kept[t] \in Polls /\ kept[t] <= now
  <2> TAKE t \in Trips
  <2>0. old.cancels[t] \in Nat /\ old.cancels[t] <= old.delays
    BY <1>2, PollTyping
  <2>1. old.cancels[t] \in Nat /\ old.cancels[t] <= now
    <3> HIDE DEF kept
    <3>. QED  BY <1>3, <2>0
  <2>2. kept[t] \in {old.cancels[t], 0}
    BY <1>1
  <2>. HIDE DEF kept
  <2>. QED  BY <1>2, <1>3, <2>1, <2>2, PollTyping
<1>5. new \in Parse
  <2>1. new.cancels \in [Trips -> Polls]
    BY <1>1, <1>4
  <2>. HIDE DEF kept
  <2>2. new = [delays |-> now, adds |-> now, cancels |-> new.cancels]
    BY <1>1
  <2>. QED  BY <2>1, <2>2 DEF Parse
<1>6. Recent(new)
  <2> SUFFICES ASSUME NEW t \in Trips PROVE new.cancels[t] <= now
    BY <1>1 DEF Recent
  <2>1. new.cancels[t] \in {now, kept[t]} /\ kept[t] <= now
    BY <1>1, <1>4
  <2>. HIDE DEF kept
  <2>. QED  BY <1>3, <2>1
<1>7. ASSUME NEW v \in Parse, Recent(v), Extends(old, v)
      PROVE  Extends(new, v)
  <2>1. v.delays \in Nat /\ v.delays <= old.delays
    BY <1>3, <1>7, ParseTyping, PollTyping DEF Extends
  <2>2. ASSUME NEW t \in Trips, InForce(v.cancels[t], now)
        PROVE  new.cancels[t] >= v.cancels[t]
    <3>1. v.cancels[t] \in Nat /\ v.cancels[t] <= v.delays /\ v.cancels[t] # 0
      BY <1>7, <2>2, ParseTyping, PollTyping DEF Recent, InForce
    <3>2. InForce(v.cancels[t], old.delays)
      BY <1>3, <2>2, <3>1 DEF InForce
    <3>3. old.cancels[t] \in Nat /\ old.cancels[t] >= v.cancels[t]
      BY <1>2, <1>7, <3>2, PollTyping DEF Extends
    <3>4. InForce(old.cancels[t], now)
      BY <1>3, <2>2, <3>1, <3>3 DEF InForce
    <3>. QED  BY <1>1, <1>3, <2>1, <3>1, <3>3, <3>4
  <2>. QED  BY <1>1, <1>3, <2>1, <2>2 DEF Extends
<1>. QED  BY <1>1, <1>5, <1>6, <1>7

LEMMA ExtendsItself == ASSUME NEW p \in Parse PROVE Extends(p, p)
<1>1. p.delays \in Nat /\ \A t \in Trips : p.cancels[t] \in Nat
  BY ParseTyping, PollTyping
<1>. QED  BY <1>1 DEF Extends

LEMMA FeedInvInit == Init => FeedInv
<1> SUFFICES ASSUME Init PROVE FeedInv
  OBVIOUS
<1>1. TypeOK
  BY PollTyping DEF Init, TypeOK
<1>2. Recent(NoParse) /\ Extends(NoParse, NoParse)
  BY PollTyping, ExtendsItself DEF Recent, NoParse, NoCancels
<1>. QED  BY <1>1, <1>2, PollTyping DEF Init, FeedInv, NoParse

LEMMA FeedInvNext == FeedInv /\ [Next]_fvars => FeedInv'
<1> SUFFICES ASSUME FeedInv, [Next]_fvars PROVE FeedInv'
  OBVIOUS
<1> USE DEF FeedInv, TypeOK
<1>1. CASE Begin
  BY <1>1, FeedAssumption, ParseTyping, PollTyping DEF Begin, Polls
<1>2. CASE Publish
  <2>1. PICK cancelled \in SUBSET Trips :
          current' = [delays |-> clock, adds |-> clock,
                      cancels |-> Record(Carry(current.cancels, clock), cancelled, clock)]
    BY <1>2 DEF Publish
  <2>2. /\ current' \in Parse /\ current'.delays = clock /\ Recent(current')
        /\ \A v \in Parse : Recent(v) /\ Extends(current, v) => Extends(current', v)
    BY <1>2, <2>1, NextParse DEF Publish
  <2>3. UNCHANGED <<clock, stamp, view, seen>>
    BY <1>2 DEF Publish
  <2>4. stamp <= clock
    <3>1. stamp \in Nat /\ current.delays \in Nat /\ clock \in Nat
      BY ParseTyping, PollTyping
    <3>. QED  BY <3>1
  <2>5. \A r \in Readers : view[r] \in Parse
    OBVIOUS
  <2>. QED  BY <2>2, <2>3, <2>4, <2>5, PollTyping
<1>3. CASE Stamp
  BY <1>3, ParseTyping, PollTyping DEF Stamp
<1>4. ASSUME NEW r \in Readers, TakeSnapshot(r) PROVE FeedInv'
  <2>1. view' \in [Readers -> Parse]
    BY <1>4 DEF TakeSnapshot
  <2>2. \A q \in Readers : view'[q] \in {view[q], current}
    BY <1>4 DEF TakeSnapshot
  <2>3. Extends(current, current)
    BY ExtendsItself
  <2>4. UNCHANGED <<clock, current, stamp, seen>>
    BY <1>4 DEF TakeSnapshot
  <2>. QED  BY <2>1, <2>2, <2>3, <2>4
<1>5. ASSUME NEW r \in Readers, ReadPollTime(r) PROVE FeedInv'
  BY <1>5 DEF ReadPollTime
<1>6. CASE UNCHANGED fvars
  BY <1>6 DEF fvars
<1>. QED  BY <1>1, <1>2, <1>3, <1>4, <1>5, <1>6 DEF Next

\* FeedInv holds in every state of FeedStore.
THEOREM FeedInvariant == Spec => []FeedInv
BY FeedInvInit, FeedInvNext, PTL DEF Spec

LEMMA SnapshotStep ==
  ASSUME FeedInv, [Next]_fvars, view' # view
  PROVE  /\ view' \in [Readers -> Parse]
         /\ \A r \in Readers : view'[r] = view[r] \/ view'[r] = current
<1>1. PICK r \in Readers : TakeSnapshot(r)
  BY DEF Next, fvars, Begin, Publish, Stamp, ReadPollTime
<1>. QED  BY <1>1 DEF TakeSnapshot, FeedInv, TypeOK

\* No goroutine ever sees the feed go back: SnapshotsGoForward.
THEOREM FeedGoesForward == Spec => SnapshotsGoForward
<1>1. FeedInv /\ [Next]_fvars => [\A r \in Readers : view'[r].delays >= view[r].delays]_view
  <2> SUFFICES ASSUME FeedInv, [Next]_fvars, view' # view, NEW r \in Readers
               PROVE  view'[r].delays >= view[r].delays
    OBVIOUS
  <2>1. view[r] \in Parse /\ Extends(current, view[r])
    BY DEF FeedInv, TypeOK
  <2>2. Extends(view[r], view[r])
    BY <2>1, ExtendsItself
  <2>. QED  BY <2>1, <2>2, SnapshotStep DEF Extends
<1>. QED  BY <1>1, FeedInvariant, PTL DEF Spec, SnapshotsGoForward

\* A cancellation once shown is shown until its window is over:
\* CancelledStaysCancelled.
THEOREM CancellationsHold == Spec => CancelledStaysCancelled
<1>1. FeedInv /\ [Next]_fvars =>
        [\A r \in Readers, t \in Trips :
            InForce(view[r].cancels[t], view'[r].delays) =>
              view'[r].cancels[t] >= view[r].cancels[t]]_view
  <2> SUFFICES ASSUME FeedInv, [Next]_fvars, view' # view, NEW r \in Readers, NEW t \in Trips,
                      InForce(view[r].cancels[t], view'[r].delays)
               PROVE  view'[r].cancels[t] >= view[r].cancels[t]
    OBVIOUS
  <2>1. view[r] \in Parse /\ Extends(current, view[r])
    BY DEF FeedInv, TypeOK
  <2>2. Extends(view[r], view[r])
    BY <2>1, ExtendsItself
  <2>. QED  BY <2>1, <2>2, SnapshotStep DEF Extends
<1>. QED  BY <1>1, FeedInvariant, PTL DEF Spec, CancelledStaysCancelled

=============================================================================

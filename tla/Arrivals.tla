------------------------------ MODULE Arrivals ------------------------------
(***************************************************************************)
(* The query behind a page of the board (src/gtfs/arrivals.go): what       *)
(* QueryArrivals makes of the timetable and a snapshot of the live store   *)
(* for one stop.  Time 0 is a midnight; the clock is local, without a      *)
(* change to or from summer time.                                          *)
(***************************************************************************)
EXTENDS FeedDecode

LookbackHours == 3

Date(t) == t \div Day
TimeOfDay(t) == t % Day
Hour(t) == TimeOfDay(t) \div PerHour
Weekday(t) == Date(t) % 7

IsServiceActive(db, service, t) ==
  IF <<service, Date(t)>> \in DOMAIN db.exceptions
  THEN db.exceptions[<<service, Date(t)>>] = 1
  ELSE /\ service \in DOMAIN db.services
       /\ Date(t) \in db.services[service].start .. db.services[service].end
       /\ Weekday(t) \in db.services[service].days

\* One turn of the binary search for a stop in the delays, which ascend by stop.  An exact
\* match ends the search.
Narrow(delays, sequence, s) ==
  LET mid == (s.lo + s.hi) \div 2 IN
  IF s.lo > s.hi THEN s
  ELSE IF delays[mid + 1].seq < sequence THEN [lo |-> mid + 1, hi |-> s.hi]
  ELSE IF delays[mid + 1].seq > sequence THEN [lo |-> s.lo, hi |-> mid - 1]
  ELSE [lo |-> mid + 1, hi |-> mid]

\* How many of the delays are at or before the stop: the last of these applies.
SearchDelay(delays, sequence) ==
  LET search[turn \in 0..Len(delays)] ==
        IF turn = 0 THEN [lo |-> 0, hi |-> Len(delays) - 1]
        ELSE Narrow(delays, sequence, search[turn - 1])
  IN search[Len(delays)].lo

\* Mutant of TryHours: no look-back.
NoLookback(now, q) == [i \in 1..(q.max \div PerHour + 3) |-> (Hour(now) + i - 1) % 24]

\* The hours of the day whose stop times are looked at, each once, from the earliest on.
TryHours(now, q) ==
  LET extraHours == q.max \div PerHour + 2
  IN [i \in 1..Min({24, LookbackHours + extraHours + 2}) |-> (Hour(now) - LookbackHours + i - 1) % 24]

Bucket(db, stop, hour) ==
  IF stop \in DOMAIN db.stopTimes /\ hour \in DOMAIN db.stopTimes[stop]
  THEN db.stopTimes[stop][hour] ELSE <<>>

\* The places of the stop times of those hours: the hour's number and the row's.  They are
\* looked at in this order.
Scanned(db, now, q) ==
  UNION {{<<k, i>> : i \in DOMAIN Bucket(db, q.stop, TryHours(now, q)[k])} : k \in DOMAIN TryHours(now, q)}
StopTimeAt(db, now, q, p) == Bucket(db, q.stop, TryHours(now, q)[p[1]])[p[2]]
Earlier(o, p) == o[1] < p[1] \/ (o[1] = p[1] /\ o[2] < p[2])

\* The 12-hour rule: a time more than half a day ago belongs to tomorrow.
ScheduledTime(now, secs) ==
  Date(now) * Day + (IF TimeOfDay(now) - 12 * PerHour > secs THEN secs + Day ELSE secs)

\* The arrival by the delays of its trip, if any: an absolute time, or the schedule and a delay.
RealtimeTime(delays, st, scheduled) ==
  LET n == IF st.trip \in DOMAIN delays THEN SearchDelay(delays[st.trip], st.seq) ELSE 0
  IN IF n = 0 THEN scheduled
     ELSE IF delays[st.trip][n].abs # 0 THEN delays[st.trip][n].abs
     ELSE scheduled + delays[st.trip][n].delay

IsCancelled(snap, trip) == trip \in DOMAIN snap.cancels /\ snap.now - snap.cancels[trip] < Day

\* What a rider who is max ticks ahead, and min ticks on foot, wants to see.
Upcoming(scheduled, effective, now, q) ==
  /\ effective > now \/ scheduled > now
  /\ effective <= now + q.max \/ scheduled <= now + q.max
  /\ q.min > 0 => effective >= now + q.min

Wanted(q, route) == q.routes = {} \/ route \in q.routes

\* A stop time as an arrival, and whether it is one to show.
FromStopTime(db, snap, st) ==
  LET scheduled == ScheduledTime(snap.now, st.secs)
  IN [route |-> db.trips[st.trip].route, scheduled |-> scheduled,
      effective |-> RealtimeTime(snap.delays, st, scheduled), trip |-> st.trip, added |-> FALSE]

IsCandidate(db, snap, q, st) ==
  /\ st.trip \in DOMAIN db.trips /\ Wanted(q, db.trips[st.trip].route)
  /\ ~IsCancelled(snap, st.trip)
  /\ LET a == FromStopTime(db, snap, st)
     IN /\ IsServiceActive(db, db.trips[st.trip].service, a.scheduled)
        /\ Upcoming(a.scheduled, a.effective, snap.now, q)

FromAddition(a) ==
  [route |-> a.route, scheduled |-> a.time, effective |-> a.time, trip |-> "none", added |-> TRUE]

IsAdditionToShow(a, now, q) ==
  /\ a.resolved => Wanted(q, a.route)
  /\ a.time \in now .. (now + q.max)
  /\ q.min > 0 => a.time >= now + q.min

\* Same route, same scheduled time: the first one is kept, stop times before additions.
Same(a, b) == a.route = b.route /\ a.scheduled = b.scheduled

\* The arrivals shown, which the page lists by effective time.
QueryArrivals(db, snap, q) ==
  LET Arrival(p) == FromStopTime(db, snap, StopTimeAt(db, snap.now, q, p))
      found == {p \in Scanned(db, snap.now, q) : IsCandidate(db, snap, q, StopTimeAt(db, snap.now, q, p))}
      IsFirst(p) == \A o \in found : Earlier(o, p) => ~Same(Arrival(o), Arrival(p))
      kept == {Arrival(p) : p \in {o \in found : IsFirst(o)}}
      additions == {FromAddition(a) : a \in {b \in snap.adds[q.stop] : IsAdditionToShow(b, snap.now, q)}}
  IN kept \cup {a \in additions : \A k \in kept : ~Same(a, k)}

=============================================================================

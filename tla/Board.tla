------------------------------- MODULE Board -------------------------------
(***************************************************************************)
(* What the board shows: the clock, the feeds that are parsed into the     *)
(* live store (src/gtfs/realtime.go), the dataset that the refresher       *)
(* replaces under way (src/gtfs/db.go) and the query of a page             *)
(* (src/gtfs/arrivals.go), for GTFS editions and feeds given as constants. *)
(* The query is a function of the state; it is compared here with a        *)
(* definition of what is due that knows no hour buckets, no 12-hour rule,  *)
(* no built dataset and no store: only the rows of GTFS and the feed.      *)
(***************************************************************************)
EXTENDS Arrivals

CONSTANTS
  Editions,     \* the GTFS ZIPs, in the order they are published
  Filter,       \* the stops of the configuration
  Queries,      \* the pages: stop, window, walking time and routes
  Feeds(_),     \* the feeds that may arrive at a time
  Start, End,   \* bounds of the clock
  MaxPolls      \* bound on the polls

ASSUME BoardAssumption ==
  /\ Start \in Nat /\ End \in Nat /\ MaxPolls \in Nat
  /\ Day <= Start /\ Start <= End
  /\ Editions \in Seq(Range(Editions)) /\ Editions # <<>> /\ DatesParse(Editions[1])
  /\ Filter # {} /\ "" \notin Filter
  /\ \A q \in Queries : q.stop \in StopNumbers \cap Filter /\ q.max \in Nat /\ q.min \in Nat

\* The rows of stop_times.txt at a stop.
AtStop(zip, n) ==
  {r \in Range(zip.stopTimes) :
     r.time # Malformed /\ \E s \in Range(zip.stops) : s.id = r.stop /\ StopCode(s) = n}

\* What the files of an edition are by the rules of GTFS: ids are unique, every trip has a
\* route.
WellFormed(zip) ==
  /\ zip.stops \in Seq(Range(zip.stops)) /\ zip.routes \in Seq(Range(zip.routes))
  /\ zip.trips \in Seq(Range(zip.trips)) /\ zip.stopTimes \in Seq(Range(zip.stopTimes))
  /\ zip.calendar \in Seq(Range(zip.calendar)) /\ zip.dates \in Seq(Range(zip.dates))
  /\ \A r, s \in Range(zip.stops) : r.id = s.id => r = s
  /\ \A r, s \in Range(zip.routes) : r.id = s.id => r = s
  /\ \A r, s \in Range(zip.trips) : r.id = s.id => r = s
  /\ \A r, s \in Range(zip.calendar) : r.service = s.service => r = s
  /\ \A r, s \in Range(zip.dates) : r.service = s.service /\ r.date = s.date => r = s
  /\ \A t \in Range(zip.trips) : \E r \in Range(zip.routes) : r.id = t.route
  /\ \A r \in Range(zip.stopTimes) : r.time \in Int /\ r.seq \in Int

ASSUME EditionsAssumption == \A e \in DOMAIN Editions : WellFormed(Editions[e])

\* An update of a scheduled trip's stop that counts.
Plausible(s) == ~s.skipped /\ (s.arr # 0 \/ s.delay \in -MaxDelay..MaxDelay)

\* What the fields of a feed that arrives at a time are: no header is from the future, and a
\* trip update has one update for a stop.
IsField(m, t) ==
  \/ m.kind = "junk"
  \/ m.kind = "header" /\ m.timestamp \in 0..t
  \/ /\ m.kind = "entity" /\ m.rel \in {"scheduled", "cancelled", "added"}
     /\ m.stops \in Seq(Range(m.stops))
     /\ \A s \in Range(m.stops) : {s.arr, s.dep, s.seq, s.delay} \subseteq Int
     /\ \A s, u \in Range(m.stops) : Plausible(s) /\ Plausible(u) /\ s.seq = u.seq => s = u
IsFeed(f, t) == f \in Seq(Range(f)) /\ \A m \in Range(f) : IsField(m, t)

ASSUME FeedsAssumption == \A t \in Start..End : \A f \in Feeds(t) : IsFeed(f, t)

VARIABLES
  now,      \* the clock
  db,       \* the edition whose dataset the holder has
  live,     \* LiveStore: delays, cancels and adds
  parsing,  \* the parse under way: the dataset it loaded, what it kept, the feed;
            \* history: the edition that was in the holder when it began
  polls,
  feed,     \* history: the feed in effect
  by,       \* history: the edition in use when its parse began
  heard     \* history: per trip, the time stamp of the last feed that cancelled it

vars == <<now, db, live, parsing, polls, feed, by, heard>>

Datasets == [e \in DOMAIN Editions |-> BuildFromZIPFile(Editions[e], Filter)]
TripIDs == UNION {DOMAIN Datasets[e].trips : e \in DOMAIN Editions}

NotParsing == <<>>

Init ==
  /\ now = Start
  /\ db = 1
  /\ live = [delays |-> [t \in {} |-> <<>>], cancels |-> [t \in {} |-> 0],
             adds |-> [n \in StopNumbers |-> {}]]
  /\ parsing = NotParsing /\ polls = 0
  /\ feed = <<>> /\ by = 1
  /\ heard = [t \in TripIDs |-> 0]

\* The cancellations that are still in force when a feed is parsed.
Preserved ==
  [t \in {u \in DOMAIN live.cancels : now - live.cancels[u] < Day} |-> live.cancels[t]]

\* The stamp under which the i-th field of a feed is decoded.
Stamp(f, i) ==
  LET headers == {j \in 1..i : f[j].kind = "header"}
  IN IF headers = {} THEN 0 ELSE f[Max(headers)].timestamp

Names(f, i, rel, t) == f[i].kind = "entity" /\ f[i].rel = rel /\ f[i].trip = t

\* Mutant of PollBegins: the poller keeps the dataset that it was created with.
PollWithFirst ==
  /\ parsing = NotParsing /\ polls < MaxPolls
  /\ polls' = polls + 1
  /\ \E f \in Feeds(now) : parsing' = [db |-> 1, began |-> db, kept |-> Preserved, feed |-> f]
  /\ UNCHANGED <<now, db, live, feed, by, heard>>

\* A feed has been fetched: parse loads the dataset, once, and the old cancellations.
PollBegins ==
  /\ parsing = NotParsing /\ polls < MaxPolls
  /\ polls' = polls + 1
  /\ \E f \in Feeds(now) : parsing' = [db |-> db, began |-> db, kept |-> Preserved, feed |-> f]
  /\ UNCHANGED <<now, db, live, feed, by, heard>>

\* The feed is decoded and stored; one that is malformed changes nothing.
PollEnds ==
  /\ parsing # NotParsing
  /\ parsing' = NotParsing
  /\ LET f == parsing.feed
         d == DecodeFeed(Datasets[parsing.db], parsing.kept, f) IN
     IF d.ok
     THEN /\ live' = [delays |-> d.delays, cancels |-> d.cancels, adds |-> d.adds]
          /\ feed' = f /\ by' = parsing.began
          /\ heard' = [t \in TripIDs |->
               LET at == {i \in DOMAIN f : Names(f, i, "cancelled", t)}
               IN IF at = {} \/ t \notin DOMAIN Datasets[parsing.began].trips THEN heard[t]
                  ELSE Stamp(f, Max(at))]
     ELSE UNCHANGED <<live, feed, by, heard>>
  /\ UNCHANGED <<now, db, polls>>

\* The refresher stores the dataset of a newer edition, if it can be built.
Refresh ==
  /\ \E e \in db + 1 .. Len(Editions) : DatesParse(Editions[e]) /\ db' = e
  /\ UNCHANGED <<now, live, parsing, polls, feed, by, heard>>

\* A parse takes less than a tick.
Tick ==
  /\ now < End /\ parsing = NotParsing
  /\ now' = now + 1
  /\ UNCHANGED <<db, live, parsing, polls, feed, by, heard>>

Next == PollBegins \/ PollEnds \/ Refresh \/ Tick

Spec == Init /\ [][Next]_vars

Snapshot ==
  [delays |-> live.delays, cancels |-> live.cancels, adds |-> live.adds, now |-> now]
Page(q) == QueryArrivals(Datasets[db], Snapshot, q)

-----------------------------------------------------------------------------
(***************************************************************************)
(* The reference: the runs of the edition in use on their dates, by the    *)
(* rows of its files, and what the feed in effect says of them.            *)
(***************************************************************************)
Gtfs == Editions[db]

\* The row of a trip.
TripRow(t) == CHOOSE r \in Range(Gtfs.trips) : r.id = t
Route(t) == LET id == TripRow(t).route IN (CHOOSE r \in Range(Gtfs.routes) : r.id = id).short

\* Whether the feed's trip is one of a watched stop, for the edition that was in use; if that
\* serves none of them, it may be any of its trips.
Known(t) ==
  /\ \E r \in Range(Editions[by].trips) : r.id = t
  /\ \/ \E n \in Filter : \E r \in AtStop(Editions[by], n) : r.trip = t
     \/ \A n \in Filter : AtStop(Editions[by], n) = {}

\* calendar_dates.txt goes before calendar.txt.
RunsOn(service, date) ==
  LET exceptions == {r \in Range(Gtfs.dates) : r.service = service /\ r.date = date}
  IN \/ \E r \in exceptions : r.type = 1
     \/ exceptions = {} /\ \E r \in Range(Gtfs.calendar) :
          r.service = service /\ date \in r.start .. r.end /\ date % 7 \in r.days

\* The updates of the feed for a scheduled trip that count: those of its last entity
\* that has any.
Updates(t) ==
  LET at == {i \in DOMAIN feed :
               Names(feed, i, "scheduled", t) /\ \E s \in Range(feed[i].stops) : Plausible(s)}
  IN IF at = {} \/ ~Known(t) THEN {} ELSE {s \in Range(feed[Max(at)].stops) : Plausible(s)}

\* When a run scheduled for a time is expected: by the last update at or before its stop.
Expected(r, scheduled) ==
  LET before == {s \in Updates(r.trip) : s.seq <= r.seq}
      s == CHOOSE u \in before : \A v \in before : v.seq <= u.seq
  IN IF before = {} THEN scheduled ELSE IF s.arr # 0 THEN s.arr ELSE scheduled + s.delay

Cancelled(t) == now - heard[t] < Day

\* The run of a stop-time row on a service day: its time counts on over midnight.
RunTime(r, date) == date * Day + r.time
ServiceOf(r) == TripRow(r.trip).service

\* A run that a page is to show if its service runs: wanted, not cancelled, in the window.
Comes(q, r, date) ==
  LET time == RunTime(r, date)
  IN /\ \E t \in Range(Gtfs.trips) : t.id = r.trip
     /\ Wanted(q, Route(r.trip)) /\ ~Cancelled(r.trip)
     /\ Upcoming(time, Expected(r, time), now, q)

\* By GTFS a service runs or not on the service day, whatever the date of the arrival is.
IsDue(q, r, date) == Comes(q, r, date) /\ RunsOn(ServiceOf(r), date)

\* A run that leaves its service day, and whether its service runs on the date it arrives on:
\* that is the date at which QueryArrivals looks in the calendar (arrivals.go:193-197).
OverMidnight(r) == r.time \div Day # 0
RunsWhenItArrives(r, date) == RunsOn(ServiceOf(r), Date(RunTime(r, date)))

Days == {Date(now), Date(now) + 1}

-----------------------------------------------------------------------------
\* The store keeps its shape, and cancellations are never from the future.
TypeOK ==
  /\ now \in Start..End /\ polls \in 0..MaxPolls
  /\ db \in DOMAIN Editions /\ by \in 1..db
  /\ parsing # NotParsing => {parsing.db, parsing.began} \subseteq by..db
  /\ \A t \in DOMAIN live.delays : t \in TripIDs /\ live.delays[t] # <<>>
  /\ \A t \in DOMAIN live.cancels : t \in TripIDs /\ live.cancels[t] <= now
  /\ \A n \in StopNumbers : \A a \in live.adds[n] : a.time # 0 /\ a.resolved \in BOOLEAN
  /\ heard \in [TripIDs -> 0..End]

\* Every run of today's and tomorrow's service day that is due by the files of GTFS is shown
\* under its route and scheduled time, late by up to the three hours of the look-back or early
\* by up to two: the build, the hour buckets and the 12-hour rule miss none, across a new
\* edition (static.go:320-370, arrivals.go:150-195).  What the code does miss is left out by
\* name: a run over midnight whose service does not run on the date of its arrival.
ShowsWhatIsDue ==
  \A q \in Queries :
    LET page == Page(q) IN
    \A r \in AtStop(Gtfs, q.stop), date \in Days :
      LET time == RunTime(r, date) IN
      /\ time \in now - LookbackHours * PerHour .. now + q.max + 2 * PerHour
      /\ IsDue(q, r, date)
      /\ OverMidnight(r) => RunsWhenItArrives(r, date)
      => \E a \in page : a.route = Route(r.trip) /\ a.scheduled = time

\* Every arrival shown is a run of the edition in use that is due, at the time the feed gives
\* it, or an addition of the feed: never a cancelled or a departed run, never one of an edition
\* that has been replaced, and one of a service day that does not run only over midnight, when
\* its service runs on the date of its arrival.
ShowsOnlyWhatIsDue ==
  \A q \in Queries : \A a \in Page(q) :
    \/ \E r \in AtStop(Gtfs, q.stop), date \in Days :
         /\ r.trip = a.trip /\ a.scheduled = RunTime(r, date)
         /\ a.effective = Expected(r, a.scheduled)
         /\ \/ IsDue(q, r, date)
            \/ OverMidnight(r) /\ Comes(q, r, date) /\ RunsWhenItArrives(r, date)
    \/ a.added /\ \E i \in DOMAIN feed :
         /\ feed[i].kind = "entity" /\ feed[i].rel = "added"
         /\ \E s \in Range(feed[i].stops) : a.effective = IF s.arr # 0 THEN s.arr ELSE s.dep

\* Of the added buses of a route at a stop the last is never lost, in whatever order the
\* feed lists them: a page whose window it falls into shows it, or a run of that time
\* (realtime_decode.go:317-331).
LastAdditionShown ==
  \A q \in Queries, i \in DOMAIN feed :
    feed[i].kind = "entity" /\ feed[i].rel = "added" =>
      \A s \in Range(feed[i].stops) :
        LET time == IF s.arr # 0 THEN s.arr ELSE s.dep
            short == RouteShortName(Datasets[by], feed[i].route)
            last == \A a \in live.adds[q.stop] : a.route = short.name => a.time <= time
        IN /\ time # 0 /\ q.stop \in ResolveWatchedStop(Datasets[by], s.stop) /\ last
           /\ IsAdditionToShow([route |-> short.name, time |-> time, resolved |-> short.resolved], now, q)
           => \E a \in Page(q) : a.route = short.name /\ a.scheduled = time

\* A bus that is shown and still to come stays on the page while no feed says otherwise.
NoBusVanishes ==
  [][feed' = feed /\ heard' = heard /\ db' = db =>
       \A q \in Queries : \A a \in Page(q) :
         a.effective > now' + q.min =>
           \E b \in Page(q)' : b.route = a.route /\ b.effective = a.effective]_vars

=============================================================================

------------------------------ MODULE MCBoard ------------------------------
\* A stop served by a handful of trips, in half-hours: a weekday and a daily service,
\* night buses before and after midnight, one of them of a service that runs on a single day,
\* two trips of one route at the same time.
EXTENDS Board

Time(h, halves) == 2 * h + halves
St(trip, stop, time, seq) == [trip |-> trip, stop |-> stop, time |-> time, seq |-> seq]
Trip(id, route, service) == [id |-> id, route |-> route, service |-> service]

\* s1 goes by its code, s2 by its id.  One row has no time, one no trip, one no known stop.
First == [
  stops |-> <<[id |-> "raw1", code |-> "s1"], [id |-> "s2", code |-> "0"]>>,
  routes |-> <<[id |-> "r7", short |-> "7"], [id |-> "r88", short |-> "88N"],
              [id |-> "r15", short |-> "15N"]>>,
  calendar |-> <<[service |-> "daily", start |-> 0, end |-> 3, days |-> 0..6],
                 [service |-> "weekday", start |-> 1, end |-> 9, days |-> {2}],
                 [service |-> "friday", start |-> 2, end |-> 2, days |-> 0..6]>>,
  dates |-> <<[service |-> "daily", date |-> 3, type |-> 2], [service |-> "weekday", date |-> 1, type |-> 1]>>,
  stopTimes |-> <<
    St("late", "raw1", Time(23, 1), 2), St("early", "raw1", Time(0, 1), 2),
    St("morning", "raw1", Time(9, 0), 2), St("elsewhere", "s2", Time(9, 1), 1),
    St("branch", "raw1", Time(9, 0), 3), St("noon", "raw1", Time(12, 1), 2),
    St("unknown", "raw1", Time(9, 1), 1), St("early", "raw1", Malformed, 4),
    St("noon", "nowhere", Time(13, 0), 3), St("night", "raw1", Time(24, 1), 5),
    St("last", "raw1", Time(25, 0), 5)>>,
  trips |-> <<
    Trip("early", "r88", "daily"), Trip("late", "r88", "daily"), Trip("noon", "r7", "weekday"),
    Trip("morning", "r7", "daily"), Trip("branch", "r7", "daily"), Trip("elsewhere", "r7", "daily"),
    Trip("night", "r15", "daily"), Trip("last", "r15", "friday")>>]

\* The next edition has a bad date; the one after has new trips, and an old one at a new time.
Bad == [First EXCEPT !.calendar = Append(@, [service |-> "odd", start |-> 0, end |-> Malformed, days |-> {}])]
Second == [First EXCEPT
  !.stopTimes = <<St("late", "raw1", Time(22, 1), 2), St("early2", "raw1", Time(0, 1), 1),
                  St("morning2", "raw1", Time(9, 0), 2), St("noon", "raw1", Time(12, 1), 2)>>,
  !.trips = <<Trip("early2", "r88", "daily"), Trip("late", "r88", "daily"),
              Trip("noon", "r7", "weekday"), Trip("morning2", "r7", "daily")>>]

MCEditions == <<First, Bad, Second>>

OneEdition == <<First>>

Query(max, min, routes) == [stop |-> "s1", max |-> max, min |-> min, routes |-> routes]
MCQueries == {Query(3, 0, {}), Query(4, 1, {"7"})}
OnePage == {Query(3, 0, {})}

Header(t) == [kind |-> "header", timestamp |-> t]
Junk == [kind |-> "junk"]
Entity(rel, trip, route, stops) ==
  [kind |-> "entity", rel |-> rel, trip |-> trip, route |-> route, stops |-> stops]
Update(seq, arr, delay) ==
  [seq |-> seq, skipped |-> FALSE, arr |-> arr, delay |-> delay, dep |-> 0, stop |-> "s1"]
Skipped(seq) == [Update(seq, 0, 6) EXCEPT !.skipped = TRUE]
At(stop, arr, dep) == [Update(1, arr, 0) EXCEPT !.dep = dep, !.stop = stop]

Cancelling(t) == Entity("cancelled", t, "", <<>>)
Scheduled(t, stops) == Entity("scheduled", t, "", stops)
Added(route, stop, arr, dep) == Entity("added", "extra", route, <<At(stop, arr, dep)>>)

Delays(t) == {
  <<Scheduled("morning", <<Update(3, 0, 9), Update(1, 0, 4)>>)>>,
  <<Scheduled("early", <<Update(2, 0, -1)>>), Scheduled("noon", <<Update(3, 0, 2)>>)>>,
  <<Scheduled("noon", <<Update(1, t + 1, 0), Update(2, 0, 8 * Day), Skipped(2)>>),
    Scheduled("noon", <<Skipped(1)>>), Scheduled("branch", <<Update(3, 0, 0), Update(2, 0, 7)>>)>> }
Cancellations == {
  <<Cancelling("morning"), Cancelling("early"), Cancelling("morning2"), Cancelling("elsewhere")>>,
  <<Cancelling("late")>> }
Additions(t) == {
  <<Added("r7", "s1", t + 1, 0), Added("r7", "raw1", 0, t + 2), Added("r9", "s2", t + 1, 0)>>,
  <<Added("r7", "s1", t + 2, 0), Added("r7", "s1", t + 1, 0), Added("r9", "s1", t + 3, 0)>> }

\* A feed every three and a half hours.
MCFeeds(t) == IF t % 7 # 0 THEN {} ELSE
  {<<Header(t)>> \o f : f \in Delays(t) \cup Cancellations \cup Additions(t)}
  \cup {<<Cancelling("morning"), Header(t)>>, <<Header(t), Cancelling("late"), Junk>>, <<Header(t)>>}
NoFeeds(t) == {}

=============================================================================

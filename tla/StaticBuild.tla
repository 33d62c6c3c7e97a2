---------------------------- MODULE StaticBuild ----------------------------
(***************************************************************************)
(* The build of the static dataset (src/gtfs/static.go): what the rows of  *)
(* a GTFS ZIP become for the stops that are watched.  A ZIP is a record of *)
(* the rows of its files; a file that is missing has none.  Times are in   *)
(* ticks, PerHour to the hour; dates are days.                             *)
(***************************************************************************)
EXTENDS Integers, Sequences, SequencesExt

CONSTANTS
  PerHour       \* ticks in an hour

ASSUME PerHourAssumption == PerHour \in Nat \ {0}

\* A date or a time of day that does not parse.
Malformed == -1

\* The map that the rows kept make, one entry after the other: the last row of a key counts.
MapOf(rows, Keeps(_), Key(_), Value(_)) ==
  LET kept == {i \in DOMAIN rows : Keeps(rows[i])}
      LastOf(key) == Max({i \in kept : Key(rows[i]) = key})
  IN [key \in {Key(rows[i]) : i \in kept} |-> Value(rows[LastOf(key)])]
Every(row) == TRUE

IsWatched(filter, n) == filter = {} \/ n \in filter

\* A stop is known by its code, and by its id if it has none.
StopCode(row) == IF row.code \in {"", "0"} THEN row.id ELSE row.code
StopIDToNumber(zip) == MapOf(zip.stops, Every, LAMBDA r : r.id, StopCode)

\* The stop number of a stop_id; none, "", for one that stops.txt does not list.
NumberOf(zip, id) ==
  LET numbers == StopIDToNumber(zip) IN IF id \in DOMAIN numbers THEN numbers[id] ELSE ""

\* The ids the feed may use for a watched stop in place of its number.
StopIDsKept(zip, filter) ==
  MapOf(zip.stops, LAMBDA r : r.id # StopCode(r) /\ IsWatched(filter, StopCode(r)),
        LAMBDA r : r.id, StopCode)

Services(zip) ==
  MapOf(zip.calendar, Every, LAMBDA r : r.service, LAMBDA r : [start |-> r.start, end |-> r.end, days |-> r.days])
Exceptions(zip) == MapOf(zip.dates, Every, LAMBDA r : <<r.service, r.date>>, LAMBDA r : r.type)
RouteShortNames(zip) == MapOf(zip.routes, Every, LAMBDA r : r.id, LAMBDA r : r.short)

\* The rows of stop_times.txt for watched stops.  A malformed time drops its row.
StopTimesKept(zip, filter) ==
  {i \in DOMAIN zip.stopTimes :
     /\ IsWatched(filter, NumberOf(zip, zip.stopTimes[i].stop))
     /\ zip.stopTimes[i].time # Malformed}

HourBucket(secs) == (secs \div PerHour) % 24

\* Per stop number and hour of the day, the stop times under their rows, so in the order of
\* the file.
StopTimes(zip, filter) ==
  LET kept == StopTimesKept(zip, filter)
      Number(i) == NumberOf(zip, zip.stopTimes[i].stop)
      HourOf(i) == HourBucket(zip.stopTimes[i].time)
      Entry(r) == [trip |-> r.trip, secs |-> r.time, seq |-> r.seq]
  IN [n \in {Number(i) : i \in kept} |->
       [h \in {HourOf(i) : i \in kept} |->
         [i \in {j \in kept : Number(j) = n /\ HourOf(j) = h} |-> Entry(zip.stopTimes[i])]]]

\* The trips that serve a watched stop, and all of them when no stop time is kept.
IsTripKept(zip, filter, trip) ==
  LET serving == {zip.stopTimes[i].trip : i \in StopTimesKept(zip, filter)}
  IN serving = {} \/ trip \in serving

Trips(zip, filter) ==
  LET names == RouteShortNames(zip)
      Short(id) == IF id \in DOMAIN names THEN names[id] ELSE ""
  IN MapOf(zip.trips, LAMBDA r : IsTripKept(zip, filter, r.id), LAMBDA r : r.id,
           LAMBDA r : [route |-> Short(r.route), service |-> r.service])

\* A malformed date, unlike a malformed time, fails the build.
DatesParse(zip) ==
  /\ \A r \in Range(zip.calendar) : Malformed \notin {r.start, r.end}
  /\ \A r \in Range(zip.dates) : r.date # Malformed

BuildFromZIPFile(zip, filter) ==
  [stopTimes |-> StopTimes(zip, filter), trips |-> Trips(zip, filter),
   services |-> Services(zip), exceptions |-> Exceptions(zip),
   stopNames |-> {StopCode(r) : r \in Range(zip.stops)},
   idToNumber |-> StopIDsKept(zip, filter), routeNames |-> RouteShortNames(zip), filter |-> filter]

=============================================================================

----------------------------- MODULE FeedDecode -----------------------------
(***************************************************************************)
(* The decoder of the GTFS-realtime feed (src/gtfs/realtime_decode.go): a  *)
(* feed is the sequence of its top-level fields, decoded in wire order     *)
(* into what parse stores.  Times are in ticks, PerHour to the hour.       *)
(***************************************************************************)
EXTENDS StaticBuild

CONSTANTS
  StopNumbers   \* the stop numbers that additions are filed under

Day == 24 * PerHour
MaxDelay == 7 * Day

\* The decoder's state: ok is FALSE once malformed data has made it return an error.
Decoder(db, kept) ==
  [db |-> db, ok |-> TRUE, feedTime |-> 0, cancels |-> kept,
   delays |-> [t \in {} |-> <<>>], adds |-> [n \in StopNumbers |-> {}]]

\* The stop number of a stop_id in the feed, as a set with no element if it is not
\* watched.  Without a filter every stop is.
ResolveWatchedStop(db, id) ==
  LET watched == {n \in StopNumbers : db.filter = {} \/ n \in db.filter}
  IN IF id \in DOMAIN db.idToNumber /\ id \notin db.stopNames
     THEN {db.idToNumber[id]}
     ELSE watched \cap {id}

\* The short name of a route, and whether the static data has it.
RouteShortName(db, route) ==
  IF route \in DOMAIN db.routeNames
  THEN [name |-> db.routeNames[route], resolved |-> TRUE]
  ELSE [name |-> route, resolved |-> FALSE]

\* The members of a finite set one after the other, in ascending order of their stops.
Ascending(delays) ==
  CHOOSE q \in [1..Cardinality(delays) -> delays] :
    Range(q) = delays /\ \A i \in DOMAIN q : \A j \in 1..i : q[j].seq <= q[i].seq

\* The updates of a scheduled trip that are stored, in ascending order of their stops:
\* an absolute time if there is one, else a delay that is plausible.
StopDelays(stops) ==
  LET stored == {s \in Range(stops) : ~s.skipped /\ (s.arr # 0 \/ s.delay \in -MaxDelay..MaxDelay)}
      Value(s) == [seq |-> s.seq, abs |-> s.arr, delay |-> IF s.arr # 0 THEN 0 ELSE s.delay]
  IN Ascending({Value(s) : s \in stored})

\* Mutant of AddStop: an addition gives way to any other of its route.
AddFirst(d, route, s) ==
  LET time == IF s.arr # 0 THEN s.arr ELSE s.dep
      short == RouteShortName(d.db, route)
      new == [route |-> short.name, time |-> time, resolved |-> short.resolved]
      at == ResolveWatchedStop(d.db, s.stop)
  IN IF time = 0 THEN d
     ELSE [d EXCEPT !.adds = [n \in StopNumbers |->
             IF n \in at /\ \A a \in @[n] : a.route # new.route THEN @[n] \cup {new} ELSE @[n]]]

\* One stop of an added trip: earlier additions of the same route at the stop go.
AddStop(d, route, s) ==
  LET time == IF s.arr # 0 THEN s.arr ELSE s.dep
      short == RouteShortName(d.db, route)
      new == [route |-> short.name, time |-> time, resolved |-> short.resolved]
      Stays(a) == ~(a.route = new.route /\ a.time < new.time)
      at == ResolveWatchedStop(d.db, s.stop)
  IN IF time = 0 THEN d
     ELSE [d EXCEPT !.adds = [n \in StopNumbers |->
             IF n \in at THEN {a \in @[n] : Stays(a)} \cup {new} ELSE @[n]]]

\* The stops of an added trip, one after the other.
HandleAdded(d, tu) ==
  LET added[i \in 0..Len(tu.stops)] ==
        IF i = 0 THEN d ELSE AddStop(added[i - 1], tu.route, tu.stops[i])
  IN added[Len(tu.stops)]

\* The map m with a value under key.
Put(m, key, value) == [k \in DOMAIN m \cup {key} |-> IF k = key THEN value ELSE m[k]]

\* With a filter, cancellations are kept for the trips of the static data only.
Cancel(d, tu) ==
  IF d.db.filter # {} /\ tu.trip \notin DOMAIN d.db.trips THEN d
  ELSE [d EXCEPT !.cancels = Put(@, tu.trip, d.feedTime)]

\* Mutant of Delay: a trip without a stored update is not left out.
DelayOrNone(d, tu) ==
  IF tu.trip \notin DOMAIN d.db.trips THEN d
  ELSE [d EXCEPT !.delays = Put(@, tu.trip, StopDelays(tu.stops))]

Delay(d, tu) ==
  LET delays == StopDelays(tu.stops)
  IN IF tu.trip \notin DOMAIN d.db.trips \/ delays = <<>> THEN d
     ELSE [d EXCEPT !.delays = Put(@, tu.trip, delays)]

DecodeTripUpdate(d, tu) ==
  CASE tu.rel = "cancelled" -> Cancel(d, tu)
    [] tu.rel = "added"     -> HandleAdded(d, tu)
    [] OTHER                -> Delay(d, tu)

DecodeHeader(d, header) == [d EXCEPT !.feedTime = header.timestamp]

DecodeField(d, f) ==
  IF ~d.ok THEN d
  ELSE CASE f.kind = "junk"   -> [d EXCEPT !.ok = FALSE]
         [] f.kind = "header" -> DecodeHeader(d, f)
         [] f.kind = "entity" -> DecodeTripUpdate(d, f)

\* The cancellations kept from before, and what the fields of the feed say, one after the
\* other.
DecodeFeed(db, kept, feed) ==
  LET decoded[i \in 0..Len(feed)] ==
        IF i = 0 THEN Decoder(db, kept) ELSE DecodeField(decoded[i - 1], feed[i])
  IN decoded[Len(feed)]

=============================================================================

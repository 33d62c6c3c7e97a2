---------------------------- MODULE BoardProofs ----------------------------
(***************************************************************************)
(* What the board shows is what is due: for every GTFS edition that is     *)
(* well-formed, every sequence of feeds, every page and any number of      *)
(* polls.  BoardInv, the inductive invariant, says what the live store is  *)
(* of the feed in effect: its delays and additions are those of the feed,  *)
(* read with the dataset of its parse, and a cancellation is kept as it    *)
(* was last heard until its time is over.  The recursions of the decoder,  *)
(* the sort and the binary search are followed turn by turn (a least       *)
(* number of turns at which something fails is refuted); the build, the    *)
(* calendar, the hour buckets and the 12-hour rule are compared with the   *)
(* rows of GTFS, with one exception by name: over midnight the query looks *)
(* in the calendar at the date of the arrival, not at the service day.     *)
(***************************************************************************)
EXTENDS Board, FiniteSetTheorems, WellFoundedInduction, TLAPS

\* A set of natural numbers that is not empty has a least member.
LEMMA LeastNatural ==
  ASSUME NEW T, T \subseteq Nat, T # {}
  PROVE  \E x \in T : \A y \in T : x <= y
<1>1. PICK R : R = OpToRel(<, Nat)
  OBVIOUS
<1>2. IsWellFoundedOn(R, Nat)
  BY <1>1, NatLessThanWellFounded
<1>3. \A y \in Nat, x \in Nat : y < x => <<y, x>> \in R
  BY <1>1 DEF OpToRel
<1>4. PICK x \in T : \A y \in T : ~(<<y, x>> \in R)
  BY <1>2, WFMin
<1>5. \A y \in T : ~(y < x)
  BY <1>3, <1>4
<1>6. \A y \in T : x <= y
  <2>1. TAKE y \in T
  <2>2. x \in Nat /\ y \in Nat /\ ~(y < x)
    BY <1>5
  <2> HIDE <1>1
  <2> QED BY <2>2
<1> QED BY <1>6

\* A bounded set of natural numbers that is not empty has a maximum.
LEMMA MaxOf ==
  ASSUME NEW T, NEW n \in Nat, T \subseteq 0..n, T # {}
  PROVE  Max(T) \in T /\ \A y \in T : y <= Max(T)
<1> DEFINE U == {m \in Nat : \A y \in T : y <= m}
<1>1. n \in U /\ U \subseteq Nat
  OBVIOUS
<1>2. PICK m \in U : \A y \in U : m <= y
  <2> HIDE DEF U
  <2> QED BY <1>1, LeastNatural
<1>3. m \in T
  <2>1. SUFFICES ASSUME m \notin T PROVE FALSE
    OBVIOUS
  <2>2. PICK y \in T : TRUE
    OBVIOUS
  <2>3. m - 1 \in Nat /\ \A z \in T : z <= m - 1
    BY <1>2, <2>1, <2>2
  <2>4. m - 1 \in U
    BY <2>3
  <2> QED BY <2>4, <1>2
<1>4. \E x \in T : \A y \in T : x >= y
  BY <1>2, <1>3
<1>5. Max(T) \in T /\ \A y \in T : Max(T) >= y
  BY <1>4 DEF Max
<1> QED BY <1>5

\* A member that bounds the set is its maximum.
LEMMA MaxIs ==
  ASSUME NEW T, T \subseteq Int, NEW m \in T, \A y \in T : y <= m
  PROVE  Max(T) = m
<1>1. \E x \in T : \A y \in T : x >= y
  OBVIOUS
<1>2. Max(T) \in T /\ \A y \in T : Max(T) >= y
  BY <1>1 DEF Max
<1>3. Max(T) \in Int /\ m \in Int /\ Max(T) >= m /\ Max(T) <= m
  BY <1>2
<1> HIDE DEF Max
<1> QED BY <1>3

\* Induction along 0..n, of the set of the steps at which something holds.
LEMMA StepByStep ==
  ASSUME NEW n \in Nat, NEW S, 0 \in S, \A i \in 1..n : i - 1 \in S => i \in S
  PROVE  0..n \subseteq S
<1> DEFINE Bad == {i \in 0..n : i \notin S}
<1> SUFFICES ASSUME Bad # {} PROVE FALSE
  OBVIOUS
<1>1. PICK i \in Bad : \A j \in Bad : i <= j
  <2>1. Bad \subseteq Nat
    OBVIOUS
  <2> HIDE DEF Bad
  <2> QED BY <2>1, LeastNatural
<1>2. i \in 1..n /\ i - 1 \in 0..n
  BY <1>1
<1>3. i - 1 \in S
  BY <1>1, <1>2
<1> QED BY <1>1, <1>2, <1>3

-----------------------------------------------------------------------------
(***************************************************************************)
(* The recursions of the decoder, as sequences of states.                  *)
(***************************************************************************)

\* g holds the decoder's states after 0 to n fields of a feed.
DecodedTo(g, base, f, n) ==
  g = [i \in 0..n |-> IF i = 0 THEN base ELSE DecodeField(g[i - 1], f[i])]

\* There are such states, for any number of fields.
LEMMA DecodingExists ==
  ASSUME NEW base, NEW f
  PROVE  \A n \in Nat : \E g : DecodedTo(g, base, f, n)
<1> DEFINE Bad == {n \in Nat : ~\E g : DecodedTo(g, base, f, n)}
<1> SUFFICES ASSUME Bad # {} PROVE FALSE
  OBVIOUS
<1>1. PICK n \in Bad : \A m \in Bad : n <= m
  <2>1. Bad \subseteq Nat
    OBVIOUS
  <2> HIDE DEF Bad
  <2> QED BY <2>1, LeastNatural
<1>2. n # 0
  <2>1. DecodedTo([i \in 0..0 |-> base], base, f, 0)
    BY DEF DecodedTo
  <2> QED BY <2>1, <1>1
<1>3. PICK g : DecodedTo(g, base, f, n - 1)
  BY <1>1, <1>2
<1> DEFINE h == [i \in 0..n |-> IF i = n THEN DecodeField(g[n - 1], f[n]) ELSE g[i]]
<1>4. \A i \in 0..n : h[i] = IF i = 0 THEN base ELSE DecodeField(h[i - 1], f[i])
  BY <1>1, <1>2, <1>3 DEF DecodedTo
<1>5. DecodedTo(h, base, f, n)
  BY <1>4 DEF DecodedTo
<1> QED BY <1>5, <1>1

\* DecodeFeed is the last of them.
LEMMA DecodeFeedSteps ==
  ASSUME NEW ds, NEW kept, NEW f, Len(f) \in Nat
  PROVE  \E g : /\ g[0] = Decoder(ds, kept)
                /\ \A i \in 1..Len(f) : g[i] = DecodeField(g[i - 1], f[i])
                /\ DecodeFeed(ds, kept, f) = g[Len(f)]
<1> DEFINE g == CHOOSE x : DecodedTo(x, Decoder(ds, kept), f, Len(f))
<1>1. DecodedTo(g, Decoder(ds, kept), f, Len(f))
  BY DecodingExists
<1>2. DecodeFeed(ds, kept, f) = g[Len(f)]
  BY DEF DecodeFeed, DecodedTo
<1>3. g[0] = Decoder(ds, kept) /\ \A i \in 1..Len(f) : g[i] = DecodeField(g[i - 1], f[i])
  <2> HIDE DEF g
  <2> QED BY <1>1 DEF DecodedTo
<1> QED BY <1>2, <1>3

\* g holds the decoder's states after 0 to n stops of an added trip.
AddedTo(g, d, tu, n) ==
  g = [i \in 0..n |-> IF i = 0 THEN d ELSE AddStop(g[i - 1], tu.route, tu.stops[i])]

\* There are such states, for any number of stops.
LEMMA AddingExists ==
  ASSUME NEW d, NEW tu
  PROVE  \A n \in Nat : \E g : AddedTo(g, d, tu, n)
<1> DEFINE Bad == {n \in Nat : ~\E g : AddedTo(g, d, tu, n)}
<1> SUFFICES ASSUME Bad # {} PROVE FALSE
  OBVIOUS
<1>1. PICK n \in Bad : \A m \in Bad : n <= m
  <2>1. Bad \subseteq Nat
    OBVIOUS
  <2> HIDE DEF Bad
  <2> QED BY <2>1, LeastNatural
<1>2. n # 0
  <2>1. AddedTo([i \in 0..0 |-> d], d, tu, 0)
    BY DEF AddedTo
  <2> QED BY <2>1, <1>1
<1>3. PICK g : AddedTo(g, d, tu, n - 1)
  BY <1>1, <1>2
<1> DEFINE h == [i \in 0..n |-> IF i = n THEN AddStop(g[n - 1], tu.route, tu.stops[n]) ELSE g[i]]
<1>4. \A i \in 0..n : h[i] = IF i = 0 THEN d ELSE AddStop(h[i - 1], tu.route, tu.stops[i])
  BY <1>1, <1>2, <1>3 DEF AddedTo
<1>5. AddedTo(h, d, tu, n)
  BY <1>4 DEF AddedTo
<1> QED BY <1>5, <1>1

\* HandleAdded is the last of them.
LEMMA HandleAddedSteps ==
  ASSUME NEW d, NEW tu, Len(tu.stops) \in Nat
  PROVE  \E g : /\ g[0] = d
                /\ \A i \in 1..Len(tu.stops) : g[i] = AddStop(g[i - 1], tu.route, tu.stops[i])
                /\ HandleAdded(d, tu) = g[Len(tu.stops)]
<1> DEFINE g == CHOOSE x : AddedTo(x, d, tu, Len(tu.stops))
<1>1. AddedTo(g, d, tu, Len(tu.stops))
  BY AddingExists
<1>2. HandleAdded(d, tu) = g[Len(tu.stops)]
  BY DEF HandleAdded, AddedTo
<1>3. g[0] = d /\ \A i \in 1..Len(tu.stops) : g[i] = AddStop(g[i - 1], tu.route, tu.stops[i])
  <2> DEFINE n == Len(tu.stops)
  <2>1. AddedTo(g, d, tu, n) /\ n \in Nat
    BY <1>1
  <2> HIDE DEF g, n
  <2>2. g[0] = d /\ \A i \in 1..n : g[i] = AddStop(g[i - 1], tu.route, tu.stops[i])
    BY <2>1 DEF AddedTo
  <2> QED BY <2>2 DEF n
<1> QED BY <1>2, <1>3

-----------------------------------------------------------------------------

\* The shape of the decoder's state.
IsDecoder(d) ==
  d = [db |-> d.db, ok |-> d.ok, feedTime |-> d.feedTime, cancels |-> d.cancels,
       delays |-> d.delays, adds |-> [n \in StopNumbers |-> d.adds[n]]]

\* The time of an added stop, and the addition that is made of it.
TimeOf(s) == IF s.arr # 0 THEN s.arr ELSE s.dep
NewAddition(ds, route, s) ==
  [route |-> RouteShortName(ds, route).name, time |-> TimeOf(s),
   resolved |-> RouteShortName(ds, route).resolved]
\* The additions of a stop have this one, or a later one of its route.
Holds(adds, new) == new \in adds \/ \E a \in adds : a.route = new.route /\ a.time > new.time
TimesOf(adds) == \A n \in StopNumbers : \A a \in adds[n] : a.time \in Int
\* From d to e nothing but the additions has changed.
OnlyAddsChange(d, e) ==
  /\ IsDecoder(e) /\ e.db = d.db /\ e.ok = d.ok /\ e.feedTime = d.feedTime
  /\ e.cancels = d.cancels /\ e.delays = d.delays

\* What one stop of an added trip does: the addition it makes is in, or one that is later, and
\* what was in is still in or has been replaced by a later one.
StopAdded(d, e, s, new) ==
  /\ OnlyAddsChange(d, e)
  /\ \A n \in StopNumbers : \A a \in e.adds[n] : a \in d.adds[n] \/ (a = new /\ TimeOf(s) # 0)
  /\ \A n \in StopNumbers : \A x : x.time \in Int /\ Holds(d.adds[n], x) => Holds(e.adds[n], x)
  /\ TimeOf(s) # 0 => \A n \in StopNumbers \cap ResolveWatchedStop(d.db, s.stop) : Holds(e.adds[n], new)

\* AddStop does that.
LEMMA AddStopStep ==
  ASSUME NEW d, IsDecoder(d), TimesOf(d.adds), NEW route, NEW s, TimeOf(s) \in Int
  PROVE  StopAdded(d, AddStop(d, route, s), s, NewAddition(d.db, route, s))
<1> DEFINE e == AddStop(d, route, s)
           new == NewAddition(d.db, route, s)
           at == ResolveWatchedStop(d.db, s.stop)
<1>1. CASE TimeOf(s) = 0
  <2>1. e = d
    BY <1>1 DEF AddStop, TimeOf
  <2> QED BY <2>1, <1>1 DEF StopAdded, OnlyAddsChange
<1>2. CASE TimeOf(s) # 0
  <2> DEFINE next(n) == IF n \in at THEN {a \in d.adds[n] : ~(a.route = new.route /\ a.time < new.time)} \cup {new}
                        ELSE d.adds[n]
  <2>1. e = [d EXCEPT !.adds = [n \in StopNumbers |-> next(n)]]
    BY <1>2 DEF AddStop, TimeOf, NewAddition
  <2>2. e.adds = [n \in StopNumbers |-> next(n)] /\ OnlyAddsChange(d, e)
    <3> HIDE DEF next, e
    <3> QED BY <2>1 DEF IsDecoder, OnlyAddsChange
  <2>3. new.time = TimeOf(s) /\ new.time \in Int
    BY DEF NewAddition
  <2>4. \A n \in StopNumbers : e.adds[n] = next(n)
    BY <2>2
  <2> HIDE DEF e, new, at
  <2>5. \A n \in StopNumbers : \A a \in e.adds[n] : a \in d.adds[n] \/ (a = new /\ TimeOf(s) # 0)
    BY <1>2, <2>4
  <2>6. ASSUME NEW n \in StopNumbers, NEW x, x.time \in Int, Holds(d.adds[n], x)
        PROVE  Holds(e.adds[n], x)
    <3>1. PICK y \in d.adds[n] : y = x \/ (y.route = x.route /\ y.time > x.time)
      BY <2>6 DEF Holds
    <3>2. y.time \in Int
      BY DEF TimesOf
    <3>3. y \in e.adds[n] \/ (new \in e.adds[n] /\ y.route = new.route /\ y.time < new.time)
      BY <2>4
    <3> QED BY <2>6, <3>1, <3>2, <3>3, <2>3 DEF Holds
  <2>7. \A n \in StopNumbers \cap at : Holds(e.adds[n], new)
    BY <2>4 DEF Holds
  <2>8. StopAdded(d, e, s, new)
    BY <2>2, <2>5, <2>6, <2>7 DEF StopAdded, at
  <2> QED BY <2>8 DEF e, new
<1> QED BY <1>1, <1>2

\* What all stops of an added trip do.
AddedFrom(d, e, route, stops) ==
  /\ OnlyAddsChange(d, e)
  /\ \A n \in StopNumbers : \A a \in e.adds[n] :
       a \in d.adds[n] \/ \E s \in stops : a = NewAddition(d.db, route, s) /\ TimeOf(s) # 0
  /\ \A n \in StopNumbers : \A x : x.time \in Int /\ Holds(d.adds[n], x) => Holds(e.adds[n], x)
  /\ \A s \in stops : TimeOf(s) # 0 =>
       \A n \in StopNumbers \cap ResolveWatchedStop(d.db, s.stop) :
         Holds(e.adds[n], NewAddition(d.db, route, s))

\* HandleAdded does that.
LEMMA HandleAddedStep ==
  ASSUME NEW d, IsDecoder(d), TimesOf(d.adds), NEW tu, tu.stops \in Seq(Range(tu.stops)),
         \A s \in Range(tu.stops) : TimeOf(s) \in Int
  PROVE  AddedFrom(d, HandleAdded(d, tu), tu.route, Range(tu.stops))
<1> DEFINE n == Len(tu.stops)
           some(i) == {tu.stops[j] : j \in 1..i}
<1>1. n \in Nat /\ DOMAIN tu.stops = 1..n
  OBVIOUS
<1>2. PICK g : /\ g[0] = d
               /\ \A i \in 1..n : g[i] = AddStop(g[i - 1], tu.route, tu.stops[i])
               /\ HandleAdded(d, tu) = g[n]
  BY <1>1, HandleAddedSteps
<1> DEFINE S == {i \in 0..n : AddedFrom(d, g[i], tu.route, some(i))}
<1> HIDE DEF n
<1>3. 0 \in S
  BY <1>1, <1>2 DEF AddedFrom, OnlyAddsChange
<1>4. ASSUME NEW i \in 1..n, i - 1 \in S
      PROVE  i \in S
  <2> DEFINE c == g[i - 1]
             e == g[i]
             s == tu.stops[i]
             new == NewAddition(d.db, tu.route, s)
  <2>1. AddedFrom(d, c, tu.route, some(i - 1))
    BY <1>4
  <2>2. s \in Range(tu.stops) /\ TimeOf(s) \in Int
    BY <1>1 DEF Range
  <2>3. \A u \in some(i - 1) : TimeOf(u) \in Int
    <3>1. \A j \in 1..(i - 1) : tu.stops[j] \in Range(tu.stops)
      BY <1>1 DEF Range
    <3> QED BY <3>1
  <2>4. IsDecoder(c) /\ TimesOf(c.adds) /\ c.db = d.db
    BY <2>1, <2>3 DEF AddedFrom, OnlyAddsChange, TimesOf, NewAddition
  <2>5. /\ OnlyAddsChange(c, e)
        /\ \A m \in StopNumbers : \A a \in e.adds[m] : a \in c.adds[m] \/ (a = new /\ TimeOf(s) # 0)
        /\ \A m \in StopNumbers : \A x : x.time \in Int /\ Holds(c.adds[m], x) => Holds(e.adds[m], x)
        /\ TimeOf(s) # 0 => \A m \in StopNumbers \cap ResolveWatchedStop(d.db, s.stop) : Holds(e.adds[m], new)
    <3>1. e = AddStop(c, tu.route, s)
      BY <1>2
    <3> HIDE DEF c, s, e, new
    <3>2. StopAdded(c, AddStop(c, tu.route, s), s, NewAddition(c.db, tu.route, s))
      BY <2>2, <2>4, AddStopStep
    <3>3. StopAdded(c, e, s, new)
      BY <3>1, <3>2, <2>4 DEF new
    <3> QED BY <3>3, <2>4 DEF StopAdded
  <2>6. some(i) = some(i - 1) \cup {s}
    <3>1. 1..i = (1..(i - 1)) \cup {i}
      OBVIOUS
    <3> QED BY <3>1
  <2>7. \A u : NewAddition(d.db, tu.route, u).time = TimeOf(u)
    BY DEF NewAddition
  <2> HIDE DEF c, e, s, some, new
  <2>8. OnlyAddsChange(d, e)
    BY <2>1, <2>5 DEF AddedFrom, OnlyAddsChange
  <2>9. \A m \in StopNumbers : \A a \in e.adds[m] :
          a \in d.adds[m] \/ \E u \in some(i) : a = NewAddition(d.db, tu.route, u) /\ TimeOf(u) # 0
    BY <2>1, <2>5, <2>6 DEF AddedFrom, new
  <2>10. \A m \in StopNumbers : \A x : x.time \in Int /\ Holds(d.adds[m], x) => Holds(e.adds[m], x)
    BY <2>1, <2>5 DEF AddedFrom
  <2>11. ASSUME NEW u \in some(i), TimeOf(u) # 0, NEW m \in StopNumbers \cap ResolveWatchedStop(d.db, u.stop)
         PROVE  Holds(e.adds[m], NewAddition(d.db, tu.route, u))
    <3>1. CASE u = s
      BY <3>1, <2>5, <2>11 DEF new
    <3>2. CASE u \in some(i - 1)
      BY <3>2, <2>1, <2>3, <2>5, <2>7, <2>11 DEF AddedFrom
    <3> QED BY <3>1, <3>2, <2>6
  <2>12. AddedFrom(d, e, tu.route, some(i))
    BY <2>8, <2>9, <2>10, <2>11 DEF AddedFrom
  <2> QED BY <2>12 DEF e
<1>5. n \in S
  <2> HIDE DEF S
  <2>1. 0..n \subseteq S
    BY <1>1, <1>3, <1>4, StepByStep
  <2> QED BY <2>1, <1>1
<1>6. some(n) = Range(tu.stops)
  BY <1>1 DEF Range
<1> QED BY <1>2, <1>5, <1>6

-----------------------------------------------------------------------------
(***************************************************************************)
(* The updates of a trip, in the order of its stops, and the search among  *)
(* them.                                                                   *)
(***************************************************************************)

\* q has the entries of D, in ascending order of their stops.
Sorts(q, D) ==
  Range(q) = D /\ \A i \in DOMAIN q : \A j \in 1..i : q[j].seq <= q[i].seq

\* One of finitely many entries is the last by its stop.
LEMMA LatestExists ==
  ASSUME NEW D, IsFiniteSet(D), D # {}, \A x \in D : x.seq \in Int
  PROVE  \E m \in D : \A y \in D : y.seq <= m.seq
<1> DEFINE Fails(E) == /\ IsFiniteSet(E) /\ E # {} /\ \A x \in E : x.seq \in Int
                       /\ ~\E m \in E : \A y \in E : y.seq <= m.seq
           Bad == {n \in Nat : \E E : Fails(E) /\ Cardinality(E) = n}
<1> SUFFICES ASSUME Fails(D) PROVE FALSE
  OBVIOUS
<1>1. Cardinality(D) \in Bad /\ Bad \subseteq Nat
  BY FS_CardinalityType
<1>2. PICK n \in Bad : \A k \in Bad : n <= k
  <2> HIDE DEF Bad
  <2> QED BY <1>1, LeastNatural
<1>3. PICK E : Fails(E) /\ Cardinality(E) = n
  BY <1>2
<1>4. PICK x \in E : TRUE
  BY <1>3
<1>5. IsFiniteSet(E \ {x}) /\ Cardinality(E \ {x}) = n - 1 /\ n \in Nat
  BY <1>3, <1>2, <1>1, FS_RemoveElement
<1>6. ~Fails(E \ {x})
  <2>1. n - 1 \in Nat
    BY <1>5, FS_CardinalityType
  <2>2. n - 1 \notin Bad
    <3> HIDE DEF Bad
    <3> QED BY <1>2, <2>1, <1>5
  <2> HIDE DEF Fails
  <2> QED BY <2>1, <2>2, <1>5
<1>7. CASE E \ {x} = {}
  <2>1. E = {x}
    BY <1>7, <1>4
  <2> QED BY <2>1, <1>3
<1>8. CASE E \ {x} # {}
  <2>1. PICK m \in E \ {x} : \A y \in E \ {x} : y.seq <= m.seq
    BY <1>3, <1>5, <1>6, <1>8
  <2>2. x.seq \in Int /\ m.seq \in Int /\ \A y \in E : y.seq \in Int
    BY <1>3, <1>4
  <2>3. CASE x.seq <= m.seq
    BY <2>1, <2>3, <1>3
  <2>4. CASE m.seq < x.seq
    <3>1. \A y \in E : y.seq <= x.seq
      BY <2>1, <2>2, <2>4
    <3> QED BY <3>1, <1>3, <1>4
  <2> QED BY <2>2, <2>3, <2>4
<1> QED BY <1>7, <1>8

\* Finitely many entries can be sorted.
LEMMA SortingExists ==
  ASSUME NEW D, IsFiniteSet(D), \A x \in D : x.seq \in Int
  PROVE  \E q \in [1..Cardinality(D) -> D] : Sorts(q, D)
<1> DEFINE Fails(E) == /\ IsFiniteSet(E) /\ \A x \in E : x.seq \in Int
                       /\ ~\E q \in [1..Cardinality(E) -> E] : Sorts(q, E)
           Bad == {n \in Nat : \E E : Fails(E) /\ Cardinality(E) = n}
<1> SUFFICES ASSUME Fails(D) PROVE FALSE
  OBVIOUS
<1>1. Cardinality(D) \in Bad /\ Bad \subseteq Nat
  BY FS_CardinalityType
<1>2. PICK n \in Bad : \A k \in Bad : n <= k
  <2> HIDE DEF Bad
  <2> QED BY <1>1, LeastNatural
<1>3. PICK E : Fails(E) /\ Cardinality(E) = n
  BY <1>2
<1>4. CASE E = {}
  <2>1. n = 0 /\ 1..n = {}
    BY <1>3, <1>4, FS_EmptySet
  <2>2. <<>> \in [1..n -> E] /\ Sorts(<<>>, E)
    BY <2>1, <1>4 DEF Sorts, Range
  <2> QED BY <2>2, <1>3
<1>5. CASE E # {}
  <2>1. PICK m \in E : \A y \in E : y.seq <= m.seq
    BY <1>3, <1>5, LatestExists
  <2>2. IsFiniteSet(E \ {m}) /\ Cardinality(E \ {m}) = n - 1 /\ n \in Nat
    BY <1>3, <1>2, <1>1, FS_RemoveElement
  <2>3. n - 1 \in Nat
    BY <2>2, FS_CardinalityType
  <2>4. ~Fails(E \ {m})
    <3>1. n - 1 \notin Bad
      <4> HIDE DEF Bad
      <4> QED BY <1>2, <2>3, <2>2
    <3> HIDE DEF Fails
    <3> QED BY <3>1, <2>2, <2>3
  <2>5. PICK p \in [1..(n - 1) -> E \ {m}] : Sorts(p, E \ {m})
    BY <1>3, <2>2, <2>4
  <2> DEFINE q == [i \in 1..n |-> IF i = n THEN m ELSE p[i]]
  <2>6. q \in [1..n -> E]
    BY <2>3, <2>5
  <2>7. Range(q) = E
    <3>1. \A x \in E \ {m} : \E i \in 1..(n - 1) : q[i] = x
      BY <2>3, <2>5 DEF Sorts, Range
    <3>2. n \in 1..n /\ q[n] = m /\ 1..(n - 1) \subseteq 1..n
      BY <2>3
    <3> HIDE DEF q
    <3>3. \A x \in E : \E i \in 1..n : q[i] = x
      BY <3>1, <3>2
    <3> QED BY <2>6, <3>3 DEF Range
  <2>8. \A i \in 1..n : \A j \in 1..i : q[j].seq <= q[i].seq
    <3>1. TAKE i \in 1..n
    <3>2. TAKE j \in 1..i
    <3>3. CASE i = n
      <4>1. q[j] \in E /\ q[i] = m
        BY <3>3, <2>6
      <4> QED BY <4>1, <2>1
    <3>4. CASE i # n
      <4>1. i \in 1..(n - 1) /\ j \in 1..(n - 1) /\ q[i] = p[i] /\ q[j] = p[j]
        BY <3>4, <2>3
      <4>2. DOMAIN p = 1..(n - 1)
        BY <2>5
      <4> QED BY <4>1, <4>2, <2>5 DEF Sorts
    <3> QED BY <3>3, <3>4
  <2>9. DOMAIN q = 1..n
    OBVIOUS
  <2>10. Sorts(q, E)
    <3> HIDE DEF q
    <3> QED BY <2>7, <2>8, <2>9 DEF Sorts
  <2> QED BY <2>6, <2>10, <1>3
<1> QED BY <1>4, <1>5

\* So Ascending sorts them, and loses none.
LEMMA AscendingSorts ==
  ASSUME NEW D, IsFiniteSet(D), \A x \in D : x.seq \in Int
  PROVE  /\ Ascending(D) \in [1..Cardinality(D) -> D] /\ Cardinality(D) \in Nat
         /\ Sorts(Ascending(D), D)
<1>1. \E q \in [1..Cardinality(D) -> D] :
         Range(q) = D /\ \A i \in DOMAIN q : \A j \in 1..i : q[j].seq <= q[i].seq
  BY SortingExists DEF Sorts
<1> QED BY <1>1, FS_CardinalityType DEF Ascending, Sorts

\* A sequence has finitely many members.
LEMMA RangeIsFinite ==
  ASSUME NEW f, f \in Seq(Range(f))
  PROVE  IsFiniteSet(Range(f))
<1>1. PICK n \in Nat : DOMAIN f = 1..n
  OBVIOUS
<1>2. f \in Surjection(1..n, Range(f))
  BY <1>1 DEF Surjection, Range
<1> QED BY <1>1, <1>2, FS_Interval, FS_Surjection

\* What is stored of the updates of a trip: an entry for every plausible one, in ascending
\* order of their stops.
Entry(s) == [seq |-> s.seq, abs |-> s.arr, delay |-> IF s.arr # 0 THEN 0 ELSE s.delay]

\* StopDelays has the entries of the plausible updates, sorted.
LEMMA StopDelaysAre ==
  ASSUME NEW stops, stops \in Seq(Range(stops)), \A s \in Range(stops) : s.seq \in Int
  PROVE  LET D == {Entry(s) : s \in {u \in Range(stops) : Plausible(u)}}
             q == StopDelays(stops)
         IN /\ Cardinality(D) \in Nat /\ q \in [1..Cardinality(D) -> D] /\ Sorts(q, D)
            /\ q = <<>> <=> ~\E s \in Range(stops) : Plausible(s)
            /\ \A i \in DOMAIN q : q[i].seq \in Int
<1> DEFINE P == {u \in Range(stops) : Plausible(u)}
           D == {Entry(s) : s \in P}
           q == StopDelays(stops)
<1>1. IsFiniteSet(P)
  BY RangeIsFinite, FS_Subset
<1>2. IsFiniteSet(D)
  <2>1. [s \in P |-> Entry(s)] \in Surjection(P, D)
    BY DEF Surjection
  <2> HIDE DEF P, D
  <2> QED BY <1>1, <2>1, FS_Surjection
<1>3. \A x \in D : x.seq \in Int
  BY DEF Entry
<1>4. q = Ascending(D)
  BY DEF StopDelays, Entry, Plausible
<1>5. q \in [1..Cardinality(D) -> D] /\ Cardinality(D) \in Nat /\ Sorts(q, D)
  <2> HIDE DEF D, q
  <2> QED BY <1>2, <1>3, <1>4, AscendingSorts
<1>6. q = <<>> <=> D = {}
  <2> HIDE DEF D, q
  <2>1. D = {} => Cardinality(D) = 0
    BY FS_EmptySet
  <2> QED BY <2>1, <1>5 DEF Sorts, Range
<1>7. \A i \in DOMAIN q : q[i].seq \in Int
  <2> HIDE DEF D, q
  <2> QED BY <1>3, <1>5
<1> QED BY <1>5, <1>6, <1>7

\* The turns of the binary search.
SearchedTo(g, delays, sequence, n) ==
  g = [i \in 0..n |-> IF i = 0 THEN [lo |-> 0, hi |-> Len(delays) - 1]
                      ELSE Narrow(delays, sequence, g[i - 1])]

\* There are such turns, for any number of them.
LEMMA SearchingExists ==
  ASSUME NEW delays, NEW sequence
  PROVE  \A n \in Nat : \E g : SearchedTo(g, delays, sequence, n)
<1> DEFINE base == [lo |-> 0, hi |-> Len(delays) - 1]
           Bad == {n \in Nat : ~\E g : SearchedTo(g, delays, sequence, n)}
<1> SUFFICES ASSUME Bad # {} PROVE FALSE
  OBVIOUS
<1>1. PICK n \in Bad : \A m \in Bad : n <= m
  <2>1. Bad \subseteq Nat
    OBVIOUS
  <2> HIDE DEF Bad
  <2> QED BY <2>1, LeastNatural
<1>2. n # 0
  <2>1. SearchedTo([i \in 0..0 |-> base], delays, sequence, 0)
    BY DEF SearchedTo
  <2> QED BY <2>1, <1>1
<1>3. PICK g : SearchedTo(g, delays, sequence, n - 1)
  BY <1>1, <1>2
<1> DEFINE h == [i \in 0..n |-> IF i = n THEN Narrow(delays, sequence, g[n - 1]) ELSE g[i]]
<1>4. \A i \in 0..n : h[i] = IF i = 0 THEN base ELSE Narrow(delays, sequence, h[i - 1])
  BY <1>1, <1>2, <1>3 DEF SearchedTo
<1>5. SearchedTo(h, delays, sequence, n)
  BY <1>4 DEF SearchedTo
<1> QED BY <1>5, <1>1

\* The middle lies between the ends.
LEMMA MiddleLies ==
  ASSUME NEW lo \in Int, NEW hi \in Int, lo <= hi
  PROVE  (lo + hi) \div 2 \in lo..hi
  OBVIOUS

\* The search finds the last update at or before the stop, if there is one.
Finds(delays, sequence, n) ==
  \/ n = 0 /\ \A j \in DOMAIN delays : delays[j].seq > sequence
  \/ /\ n \in DOMAIN delays /\ delays[n].seq <= sequence
     /\ \A j \in DOMAIN delays : delays[j].seq <= sequence => delays[j].seq <= delays[n].seq

\* SearchDelay does: as many turns as there are delays are enough, and it never reads outside them.
THEOREM SearchFinds ==
  ASSUME NEW delays, NEW L \in Nat, DOMAIN delays = 1..L, Len(delays) = L,
         \A i \in 1..L : delays[i].seq \in Int,
         \A i \in 1..L : \A j \in 1..i : delays[j].seq <= delays[i].seq,
         NEW sequence \in Int
  PROVE  Finds(delays, sequence, SearchDelay(delays, sequence))
<1> DEFINE g == CHOOSE x : SearchedTo(x, delays, sequence, L)
<1>1. SearchedTo(g, delays, sequence, L)
  BY SearchingExists
<1>2. SearchDelay(delays, sequence) = g[L].lo
  BY DEF SearchDelay, SearchedTo
<1> HIDE DEF g
<1>3. g[0] = [lo |-> 0, hi |-> L - 1] /\ \A i \in 1..L : g[i] = Narrow(delays, sequence, g[i - 1])
  BY <1>1 DEF SearchedTo
<1> DEFINE Between(lo, hi) == /\ \A j \in 1..lo : delays[j].seq < sequence
                              /\ \A j \in (hi + 2)..L : delays[j].seq > sequence
           Exact(lo, hi) == lo = hi + 1 /\ lo > 0 /\ delays[lo].seq = sequence
           Bounds(lo, hi, i) == /\ lo \in 0..L /\ hi \in -1..(L - 1) /\ lo <= hi + 1
                                /\ hi + 1 - lo <= L - i
           Fits(lo, hi, i) == Bounds(lo, hi, i) /\ (Between(lo, hi) \/ Exact(lo, hi))
           S == {i \in 0..L : Fits(g[i].lo, g[i].hi, i)}
<1>4. 0 \in S
  BY <1>3
<1>5. ASSUME NEW i \in 1..L, i - 1 \in S PROVE i \in S
  <2> DEFINE s == g[i - 1]
             mid == (s.lo + s.hi) \div 2
             Turned(lo, hi) == g[i].lo = lo /\ g[i].hi = hi
  <2>1. /\ Bounds(s.lo, s.hi, i - 1) /\ (Between(s.lo, s.hi) \/ Exact(s.lo, s.hi))
        /\ g[i] = Narrow(delays, sequence, s)
    BY <1>5, <1>3
  <2> HIDE DEF s
  <2> SUFFICES \E lo, hi : Turned(lo, hi) /\ Fits(lo, hi, i)
    <3> HIDE DEF Fits
    <3> QED OBVIOUS
  <2>0. Bounds(s.lo, s.hi, i - 1)
    BY <2>1
  <2>2. CASE s.lo > s.hi
    <3>1. Turned(s.lo, s.hi)
      BY <2>1, <2>2 DEF Narrow
    <3>2. Bounds(s.lo, s.hi, i)
      BY <2>1, <2>2
    <3> QED BY <2>1, <3>1, <3>2
  <2>3. CASE s.lo <= s.hi
    <3>1. mid \in s.lo..s.hi
      BY <2>1, <2>3, MiddleLies
    <3>2. g[i] = IF delays[mid + 1].seq < sequence THEN [lo |-> mid + 1, hi |-> s.hi]
                 ELSE IF delays[mid + 1].seq > sequence THEN [lo |-> s.lo, hi |-> mid - 1]
                 ELSE [lo |-> mid + 1, hi |-> mid]
      BY <2>1, <2>3 DEF Narrow
    <3> HIDE DEF mid
    <3>3. mid + 1 \in 1..L /\ mid \in 0..(L - 1) /\ delays[mid + 1].seq \in Int
      BY <3>1, <2>1, <2>3
    <3>4. Between(s.lo, s.hi)
      BY <2>1, <2>3
    <3>5. CASE delays[mid + 1].seq < sequence
      <4>1. \A j \in 1..(mid + 1) : delays[j].seq < sequence
        BY <3>3, <3>5
      <4>2. Turned(mid + 1, s.hi)
        BY <3>2, <3>5
      <4>3. Bounds(mid + 1, s.hi, i)
        <5>1. \A lo \in 0..L, hi \in -1..(L - 1) : \A m \in lo..hi : Bounds(lo, hi, i - 1) => Bounds(m + 1, hi, i)
          OBVIOUS
        <5> HIDE DEF Bounds
        <5>2. s.lo \in 0..L /\ s.hi \in -1..(L - 1)
          BY <2>0 DEF Bounds
        <5> QED BY <2>0, <3>1, <5>1, <5>2
      <4> QED BY <3>4, <4>1, <4>2, <4>3
    <3>6. CASE delays[mid + 1].seq > sequence
      <4>1. \A j \in (mid + 1)..L : delays[j].seq > sequence
        <5>1. TAKE j \in (mid + 1)..L
        <5>2. j \in 1..L /\ mid + 1 \in 1..j
          BY <3>3
        <5>3. delays[mid + 1].seq <= delays[j].seq /\ delays[j].seq \in Int
          BY <5>2
        <5> QED BY <5>3, <3>3, <3>6
      <4>2. Turned(s.lo, mid - 1)
        BY <3>2, <3>3, <3>6
      <4>3. Bounds(s.lo, mid - 1, i)
        BY <2>0, <3>1
      <4>4. Between(s.lo, mid - 1)
        <5>1. (mid - 1) + 2 = mid + 1
          BY <3>3
        <5> QED BY <3>4, <4>1, <5>1
      <4> QED BY <4>2, <4>3, <4>4
    <3>7. CASE delays[mid + 1].seq = sequence
      <4>1. Turned(mid + 1, mid)
        BY <3>2, <3>3, <3>7
      <4>2. Bounds(mid + 1, mid, i) /\ Exact(mid + 1, mid)
        BY <3>1, <3>3, <3>7, <2>0
      <4> QED BY <4>1, <4>2
    <3> QED BY <3>3, <3>5, <3>6, <3>7
  <2> QED BY <2>1, <2>2, <2>3
<1>6. L \in S
  <2> HIDE DEF S
  <2>1. 0..L \subseteq S
    BY <1>4, <1>5, StepByStep
  <2> QED BY <2>1
<1> DEFINE lo == g[L].lo
           hi == g[L].hi
<1>7. /\ lo \in 0..L
      /\ \/ \A j \in 1..L : IF j <= lo THEN delays[j].seq < sequence ELSE delays[j].seq > sequence
         \/ lo > 0 /\ delays[lo].seq = sequence
  <2>1. Fits(lo, hi, L)
    BY <1>6
  <2> HIDE DEF lo, hi
  <2>2. lo \in 0..L /\ hi = lo - 1
    BY <2>1
  <2>3. CASE Between(lo, hi)
    <3>1. \A j \in 1..L : j <= lo \/ j \in (hi + 2)..L
      BY <2>2
    <3> QED BY <2>2, <2>3, <3>1
  <2> QED BY <2>1, <2>2, <2>3
<1> HIDE DEF lo
<1>8. Finds(delays, sequence, lo)
  <2>1. CASE lo > 0 /\ delays[lo].seq = sequence
    BY <1>7, <2>1 DEF Finds
  <2>2. CASE \A j \in 1..L : IF j <= lo THEN delays[j].seq < sequence ELSE delays[j].seq > sequence
    <3>1. CASE lo = 0
      BY <2>2, <3>1 DEF Finds
    <3>2. CASE lo # 0
      <4>1. lo \in 1..L
        BY <1>7, <3>2
      <4>2. \A j \in 1..L : delays[j].seq <= sequence => delays[j].seq <= delays[lo].seq
        BY <2>2, <4>1
      <4> QED BY <4>1, <4>2, <2>2 DEF Finds
    <3> QED BY <3>1, <3>2
  <2> QED BY <1>7, <2>1, <2>2
<1> QED BY <1>2, <1>8 DEF lo

-----------------------------------------------------------------------------
(***************************************************************************)
(* What the fields of a feed are decoded into.                             *)
(***************************************************************************)

IsHeader(m) == m.kind = "header"
IsOf(m, rel) == m.kind = "entity" /\ m.rel = rel
HasPlausible(m) == \E s \in Range(m.stops) : Plausible(s)

\* What a field changes from d to e.
FieldDecoded(d, e, m) ==
  /\ IsDecoder(e) /\ e.db = d.db
  /\ e.feedTime = IF IsHeader(m) THEN m.timestamp ELSE d.feedTime
  /\ e.cancels = IF IsOf(m, "cancelled") /\ m.trip \in DOMAIN d.db.trips
                 THEN Put(d.cancels, m.trip, d.feedTime) ELSE d.cancels
  /\ e.delays = IF IsOf(m, "scheduled") /\ m.trip \in DOMAIN d.db.trips /\ HasPlausible(m)
                THEN Put(d.delays, m.trip, StopDelays(m.stops)) ELSE d.delays
  /\ IF IsOf(m, "added") THEN AddedFrom(d, e, m.route, Range(m.stops)) ELSE e.adds = d.adds

\* DecodeField makes that change, unless the field is malformed.
LEMMA DecodeFieldStep ==
  ASSUME NEW d, IsDecoder(d), TimesOf(d.adds), d.db.filter # {}, NEW t, NEW m, IsField(m, t),
         DecodeField(d, m).ok
  PROVE  d.ok /\ FieldDecoded(d, DecodeField(d, m), m)
<1> DEFINE e == DecodeField(d, m)
<1>1. d.ok
  BY DEF DecodeField
<1>2. m.kind # "junk"
  <2>1. SUFFICES ASSUME m.kind = "junk" PROVE FALSE
    OBVIOUS
  <2>2. e = [d EXCEPT !.ok = FALSE]
    BY <1>1, <2>1 DEF DecodeField
  <2>3. e.ok = FALSE
    BY <2>2 DEF IsDecoder
  <2> QED BY <2>3
<1>3. CASE IsHeader(m)
  <2>1. e = [d EXCEPT !.feedTime = m.timestamp]
    BY <1>1, <1>3 DEF DecodeField, DecodeHeader, IsHeader
  <2>2. IsDecoder(e) /\ e.db = d.db /\ e.feedTime = m.timestamp /\ e.cancels = d.cancels
        /\ e.delays = d.delays /\ e.adds = d.adds
    <3> HIDE DEF e
    <3> QED BY <2>1 DEF IsDecoder
  <2> QED BY <1>1, <1>3, <2>2 DEF FieldDecoded, IsHeader, IsOf
<1>4. CASE IsOf(m, "cancelled")
  <2>1. e = Cancel(d, m)
    BY <1>1, <1>4 DEF DecodeField, DecodeTripUpdate, IsOf
  <2>2. CASE m.trip \notin DOMAIN d.db.trips
    <3>1. e = d
      BY <2>1, <2>2 DEF Cancel
    <3> HIDE DEF e
    <3> QED BY <3>1, <2>2, <1>1, <1>4 DEF FieldDecoded, IsHeader, IsOf, e
  <2>3. CASE m.trip \in DOMAIN d.db.trips
    <3>1. e = [d EXCEPT !.cancels = Put(d.cancels, m.trip, d.feedTime)]
      BY <2>1, <2>3 DEF Cancel
    <3>2. IsDecoder(e) /\ e.db = d.db /\ e.feedTime = d.feedTime
          /\ e.cancels = Put(d.cancels, m.trip, d.feedTime) /\ e.delays = d.delays /\ e.adds = d.adds
      <4> HIDE DEF e
      <4> QED BY <3>1 DEF IsDecoder
    <3> QED BY <1>1, <1>4, <2>3, <3>2 DEF FieldDecoded, IsHeader, IsOf
  <2> QED BY <2>2, <2>3
<1>5. CASE IsOf(m, "added")
  <2>1. e = HandleAdded(d, m)
    BY <1>1, <1>5 DEF DecodeField, DecodeTripUpdate, IsOf
  <2>2. m.stops \in Seq(Range(m.stops)) /\ \A s \in Range(m.stops) : TimeOf(s) \in Int
    BY <1>5 DEF IsField, IsOf, TimeOf
  <2>3. AddedFrom(d, e, m.route, Range(m.stops))
    <3> HIDE DEF e
    <3> QED BY <2>1, <2>2, HandleAddedStep
  <2> HIDE DEF e
  <2>4. OnlyAddsChange(d, e)
    BY <2>3 DEF AddedFrom
  <2>5. FieldDecoded(d, e, m)
    BY <1>5, <2>3, <2>4 DEF FieldDecoded, OnlyAddsChange, IsHeader, IsOf
  <2> QED BY <1>1, <2>5 DEF e
<1>6. CASE IsOf(m, "scheduled")
  <2>1. e = Delay(d, m)
    BY <1>1, <1>6 DEF DecodeField, DecodeTripUpdate, IsOf
  <2>2. StopDelays(m.stops) = <<>> <=> ~HasPlausible(m)
    <3>1. m.stops \in Seq(Range(m.stops)) /\ \A s \in Range(m.stops) : s.seq \in Int
      BY <1>6 DEF IsField, IsOf
    <3> QED BY <3>1, StopDelaysAre DEF HasPlausible
  <2>3. CASE m.trip \notin DOMAIN d.db.trips \/ ~HasPlausible(m)
    <3>1. e = d
      BY <2>1, <2>2, <2>3 DEF Delay
    <3> HIDE DEF e
    <3> QED BY <3>1, <2>3, <1>1, <1>6 DEF FieldDecoded, IsHeader, IsOf, e
  <2>4. CASE m.trip \in DOMAIN d.db.trips /\ HasPlausible(m)
    <3>1. e = [d EXCEPT !.delays = Put(d.delays, m.trip, StopDelays(m.stops))]
      BY <2>1, <2>2, <2>4 DEF Delay
    <3>2. IsDecoder(e) /\ e.db = d.db /\ e.feedTime = d.feedTime /\ e.cancels = d.cancels
          /\ e.delays = Put(d.delays, m.trip, StopDelays(m.stops)) /\ e.adds = d.adds
      <4> HIDE DEF e
      <4> QED BY <3>1 DEF IsDecoder
    <3> QED BY <1>1, <1>6, <2>4, <3>2 DEF FieldDecoded, IsHeader, IsOf
  <2> QED BY <2>3, <2>4
<1> QED BY <1>2, <1>3, <1>4, <1>5, <1>6 DEF IsField, IsHeader, IsOf

-----------------------------------------------------------------------------

\* The first i fields of a feed that cancel a trip, and those that update it.
CancelsBy(f, i, t) == {j \in 1..i : Names(f, j, "cancelled", t)}
UpdatesBy(f, i, t) == {j \in 1..i : Names(f, j, "scheduled", t) /\ HasPlausible(f[j])}

\* The cancellations, delays and additions after i fields, by the feed alone: the last entity of
\* a trip decides, and a cancellation that is not renewed is kept as it was.
CancelsAre(ds, kept, f, d, i) ==
  \A t : LET at == CancelsBy(f, i, t) IN
    IF t \in DOMAIN ds.trips /\ at # {}
    THEN t \in DOMAIN d.cancels /\ d.cancels[t] = Stamp(f, Max(at))
    ELSE (t \in DOMAIN d.cancels <=> t \in DOMAIN kept) /\ (t \in DOMAIN kept => d.cancels[t] = kept[t])

DelaysAre(ds, f, d, i) ==
  \A t : LET at == UpdatesBy(f, i, t) IN
    IF t \in DOMAIN ds.trips /\ at # {}
    THEN t \in DOMAIN d.delays /\ d.delays[t] = StopDelays(f[Max(at)].stops)
    ELSE t \notin DOMAIN d.delays

AddsAre(ds, f, d, i) ==
  /\ \A n \in StopNumbers : \A a \in d.adds[n] : \E j \in 1..i :
       IsOf(f[j], "added") /\ \E s \in Range(f[j].stops) : a = NewAddition(ds, f[j].route, s) /\ TimeOf(s) # 0
  /\ \A j \in 1..i : IsOf(f[j], "added") => \A s \in Range(f[j].stops) : TimeOf(s) # 0 =>
       \A n \in StopNumbers \cap ResolveWatchedStop(ds, s.stop) : Holds(d.adds[n], NewAddition(ds, f[j].route, s))

\* The decoder's state after i fields.
DecodedSoFar(ds, kept, f, d, i) ==
  /\ IsDecoder(d) /\ d.db = ds /\ TimesOf(d.adds)
  /\ d.feedTime = Stamp(f, i)
  /\ CancelsAre(ds, kept, f, d, i)
  /\ DelaysAre(ds, f, d, i)
  /\ AddsAre(ds, f, d, i)

\* How the stamp changes with one field more.
LEMMA StampStep ==
  ASSUME NEW f, NEW i \in Nat, i # 0
  PROVE  Stamp(f, i) = IF IsHeader(f[i]) THEN f[i].timestamp ELSE Stamp(f, i - 1)
<1> DEFINE headers(k) == {j \in 1..k : f[j].kind = "header"}
<1>1. CASE IsHeader(f[i])
  <2>1. i \in headers(i) /\ \A j \in headers(i) : j <= i
    BY <1>1 DEF IsHeader
  <2>2. headers(i) \subseteq Int
    OBVIOUS
  <2> HIDE DEF headers
  <2>3. Max(headers(i)) = i /\ headers(i) # {}
    BY <2>1, <2>2, MaxIs
  <2> QED BY <2>3, <1>1 DEF Stamp, headers
<1>2. CASE ~IsHeader(f[i])
  <2>1. headers(i) = headers(i - 1)
    BY <1>2 DEF IsHeader
  <2> QED BY <2>1, <1>2 DEF Stamp
<1> QED BY <1>1, <1>2

\* How the last cancellation of a trip changes with one field more.
LEMMA CancelsStep ==
  ASSUME NEW f, NEW i \in Nat, i # 0, NEW t
  PROVE  IF Names(f, i, "cancelled", t)
         THEN CancelsBy(f, i, t) # {} /\ Max(CancelsBy(f, i, t)) = i
         ELSE CancelsBy(f, i, t) = CancelsBy(f, i - 1, t)
<1>1. CASE Names(f, i, "cancelled", t)
  <2>1. i \in CancelsBy(f, i, t) /\ CancelsBy(f, i, t) \subseteq Int /\ \A j \in CancelsBy(f, i, t) : j <= i
    BY <1>1 DEF CancelsBy
  <2> QED BY <1>1, <2>1, MaxIs
<1>2. CASE ~Names(f, i, "cancelled", t)
  BY <1>2 DEF CancelsBy
<1> QED BY <1>1, <1>2

\* How the last update of a trip that counts changes with one field more.
LEMMA UpdatesStep ==
  ASSUME NEW f, NEW i \in Nat, i # 0, NEW t
  PROVE  IF Names(f, i, "scheduled", t) /\ HasPlausible(f[i])
         THEN UpdatesBy(f, i, t) # {} /\ Max(UpdatesBy(f, i, t)) = i
         ELSE UpdatesBy(f, i, t) = UpdatesBy(f, i - 1, t)
<1>1. CASE Names(f, i, "scheduled", t) /\ HasPlausible(f[i])
  <2>1. i \in UpdatesBy(f, i, t) /\ UpdatesBy(f, i, t) \subseteq Int /\ \A j \in UpdatesBy(f, i, t) : j <= i
    BY <1>1 DEF UpdatesBy
  <2> QED BY <1>1, <2>1, MaxIs
<1>2. CASE ~(Names(f, i, "scheduled", t) /\ HasPlausible(f[i]))
  BY <1>2 DEF UpdatesBy
<1> QED BY <1>1, <1>2

\* A field more is decoded as the feed has it.
LEMMA DecodingStep ==
  ASSUME NEW ds, ds.filter # {}, NEW kept, NEW f, NEW i \in Nat, i # 0, NEW t,
         \A j \in 1..i : IsField(f[j], t),
         NEW d, DecodedSoFar(ds, kept, f, d, i - 1), DecodeField(d, f[i]).ok
  PROVE  DecodedSoFar(ds, kept, f, DecodeField(d, f[i]), i)
<1> DEFINE e == DecodeField(d, f[i])
           m == f[i]
<1>1. FieldDecoded(d, e, m)
  <2>1. IsField(m, t)
    OBVIOUS
  <2> QED BY <2>1, DecodeFieldStep DEF DecodedSoFar
<1>2. IsDecoder(d) /\ d.db = ds /\ TimesOf(d.adds) /\ d.feedTime = Stamp(f, i - 1)
      /\ CancelsAre(ds, kept, f, d, i - 1) /\ DelaysAre(ds, f, d, i - 1) /\ AddsAre(ds, f, d, i - 1)
  BY DEF DecodedSoFar
<1> HIDE DEF e
<1>3. IsDecoder(e) /\ e.db = ds
  BY <1>1, <1>2 DEF FieldDecoded
<1>4. e.feedTime = Stamp(f, i)
  BY <1>1, <1>2, StampStep DEF FieldDecoded
<1>5. CancelsAre(ds, kept, f, e, i)
  <2> SUFFICES ASSUME NEW u
               PROVE  LET at == CancelsBy(f, i, u) IN
                      IF u \in DOMAIN ds.trips /\ at # {}
                      THEN u \in DOMAIN e.cancels /\ e.cancels[u] = Stamp(f, Max(at))
                      ELSE /\ u \in DOMAIN e.cancels <=> u \in DOMAIN kept
                           /\ u \in DOMAIN kept => e.cancels[u] = kept[u]
    BY DEF CancelsAre
  <2>1. e.cancels = IF IsOf(m, "cancelled") /\ m.trip \in DOMAIN ds.trips
                    THEN Put(d.cancels, m.trip, d.feedTime) ELSE d.cancels
    BY <1>1, <1>2 DEF FieldDecoded
  <2>2. CASE Names(f, i, "cancelled", u)
    <3>1. IsOf(m, "cancelled") /\ m.trip = u /\ ~IsHeader(m)
      BY <2>2 DEF Names, IsOf, IsHeader
    <3>2. CancelsBy(f, i, u) # {} /\ Max(CancelsBy(f, i, u)) = i
      BY <2>2, CancelsStep
    <3>3. CASE u \in DOMAIN ds.trips
      <4>1. e.cancels = Put(d.cancels, u, Stamp(f, i - 1)) /\ Stamp(f, i) = Stamp(f, i - 1)
        BY <2>1, <3>1, <3>3, <1>2, StampStep
      <4> QED BY <4>1, <3>2, <3>3 DEF Put
    <3>4. CASE u \notin DOMAIN ds.trips
      <4>1. e.cancels = d.cancels
        BY <2>1, <3>1, <3>4
      <4> QED BY <4>1, <3>4, <1>2 DEF CancelsAre
    <3> QED BY <3>3, <3>4
  <2>3. CASE ~Names(f, i, "cancelled", u)
    <3>1. CancelsBy(f, i, u) = CancelsBy(f, i - 1, u)
      BY <2>3, CancelsStep
    <3>2. ~(IsOf(m, "cancelled") /\ m.trip = u)
      BY <2>3 DEF Names, IsOf
    <3>3. /\ u \in DOMAIN e.cancels <=> u \in DOMAIN d.cancels
          /\ u \in DOMAIN d.cancels => e.cancels[u] = d.cancels[u]
      BY <2>1, <3>2 DEF Put
    <3>4. LET at == CancelsBy(f, i - 1, u) IN
            IF u \in DOMAIN ds.trips /\ at # {}
            THEN u \in DOMAIN d.cancels /\ d.cancels[u] = Stamp(f, Max(at))
            ELSE /\ u \in DOMAIN d.cancels <=> u \in DOMAIN kept
                 /\ u \in DOMAIN kept => d.cancels[u] = kept[u]
      BY <1>2 DEF CancelsAre
    <3> QED BY <3>1, <3>3, <3>4
  <2> QED BY <2>2, <2>3
<1>6. DelaysAre(ds, f, e, i)
  <2> SUFFICES ASSUME NEW u
               PROVE  LET at == UpdatesBy(f, i, u) IN
                      IF u \in DOMAIN ds.trips /\ at # {}
                      THEN u \in DOMAIN e.delays /\ e.delays[u] = StopDelays(f[Max(at)].stops)
                      ELSE u \notin DOMAIN e.delays
    BY DEF DelaysAre
  <2>1. e.delays = IF IsOf(m, "scheduled") /\ m.trip \in DOMAIN ds.trips /\ HasPlausible(m)
                   THEN Put(d.delays, m.trip, StopDelays(m.stops)) ELSE d.delays
    BY <1>1, <1>2 DEF FieldDecoded
  <2>0. LET at == UpdatesBy(f, i - 1, u) IN
          IF u \in DOMAIN ds.trips /\ at # {}
          THEN u \in DOMAIN d.delays /\ d.delays[u] = StopDelays(f[Max(at)].stops)
          ELSE u \notin DOMAIN d.delays
    BY <1>2 DEF DelaysAre
  <2>2. CASE Names(f, i, "scheduled", u) /\ HasPlausible(m)
    <3>1. IsOf(m, "scheduled") /\ m.trip = u
      BY <2>2 DEF Names, IsOf
    <3>2. UpdatesBy(f, i, u) # {} /\ Max(UpdatesBy(f, i, u)) = i
      BY <2>2, UpdatesStep
    <3>3. CASE u \in DOMAIN ds.trips
      <4>1. e.delays = Put(d.delays, u, StopDelays(m.stops))
        BY <2>1, <2>2, <3>1, <3>3
      <4> QED BY <4>1, <3>2, <3>3 DEF Put
    <3>4. CASE u \notin DOMAIN ds.trips
      <4>1. e.delays = d.delays
        BY <2>1, <3>1, <3>4
      <4> QED BY <4>1, <3>4, <2>0
    <3> QED BY <3>3, <3>4
  <2>3. CASE ~(Names(f, i, "scheduled", u) /\ HasPlausible(m))
    <3>1. UpdatesBy(f, i, u) = UpdatesBy(f, i - 1, u)
      BY <2>3, UpdatesStep
    <3>2. ~(IsOf(m, "scheduled") /\ m.trip = u /\ HasPlausible(m))
      BY <2>3 DEF Names, IsOf
    <3>3. /\ u \in DOMAIN e.delays <=> u \in DOMAIN d.delays
          /\ u \in DOMAIN d.delays => e.delays[u] = d.delays[u]
      BY <2>1, <3>2 DEF Put
    <3> QED BY <3>1, <3>3, <2>0
  <2> QED BY <2>2, <2>3
<1>7. AddsAre(ds, f, e, i) /\ TimesOf(e.adds)
  <2>1. 1..i = (1..(i - 1)) \cup {i}
    OBVIOUS
  <2>2. CASE ~IsOf(m, "added")
    <3>1. e.adds = d.adds
      BY <1>1, <2>2 DEF FieldDecoded
    <3> QED BY <1>2, <2>1, <2>2, <3>1 DEF AddsAre
  <2>3. CASE IsOf(m, "added")
    <3>1. AddedFrom(d, e, m.route, Range(m.stops))
      BY <1>1, <2>3 DEF FieldDecoded
    <3>2. \A n \in StopNumbers : \A a \in e.adds[n] : \E j \in 1..i :
            IsOf(f[j], "added") /\ \E s \in Range(f[j].stops) : a = NewAddition(ds, f[j].route, s) /\ TimeOf(s) # 0
      BY <1>2, <2>1, <2>3, <3>1 DEF AddsAre, AddedFrom
    <3>3. \A s \in Range(m.stops) : TimeOf(s) \in Int
      BY <2>3 DEF IsField, IsOf, TimeOf
    <3>4. TimesOf(e.adds)
      <4>1. \A n \in StopNumbers : \A a \in e.adds[n] :
              a \in d.adds[n] \/ \E s \in Range(m.stops) : a.time = TimeOf(s)
        BY <3>1 DEF AddedFrom, NewAddition
      <4> QED BY <4>1, <3>3, <1>2 DEF TimesOf
    <3>5. ASSUME NEW j \in 1..i, IsOf(f[j], "added"), NEW s \in Range(f[j].stops), TimeOf(s) # 0,
                 NEW n \in StopNumbers \cap ResolveWatchedStop(ds, s.stop)
          PROVE  Holds(e.adds[n], NewAddition(ds, f[j].route, s))
      <4>1. CASE j = i
        BY <4>1, <3>1, <3>5, <1>2 DEF AddedFrom
      <4>2. CASE j \in 1..(i - 1)
        <5> DEFINE x == NewAddition(ds, f[j].route, s)
        <5>1. Holds(d.adds[n], x)
          BY <4>2, <3>5, <1>2 DEF AddsAre
        <5>2. x.time \in Int
          BY <3>5 DEF NewAddition, IsField, IsOf, TimeOf
        <5> HIDE DEF x
        <5>3. Holds(e.adds[n], x)
          BY <5>1, <5>2, <3>1 DEF AddedFrom
        <5> QED BY <5>3 DEF x
      <4> QED BY <4>1, <4>2, <2>1
    <3> QED BY <3>2, <3>4, <3>5 DEF AddsAre
  <2> QED BY <2>2, <2>3
<1>8. DecodedSoFar(ds, kept, f, e, i)
  BY <1>2, <1>3, <1>4, <1>5, <1>6, <1>7 DEF DecodedSoFar
<1> QED BY <1>8 DEF e

\* So is the whole feed, if none of its fields is malformed.
LEMMA DecodeFeedIs ==
  ASSUME NEW ds, ds.filter # {}, NEW kept, NEW t, NEW f, IsFeed(f, t), DecodeFeed(ds, kept, f).ok
  PROVE  DecodedSoFar(ds, kept, f, DecodeFeed(ds, kept, f), Len(f))
<1> DEFINE L == Len(f)
<1>1. L \in Nat /\ DOMAIN f = 1..L
  BY DEF IsFeed, IsField
<1>2. PICK g : /\ g[0] = Decoder(ds, kept)
               /\ \A i \in 1..L : g[i] = DecodeField(g[i - 1], f[i])
               /\ DecodeFeed(ds, kept, f) = g[L]
  BY <1>1, DecodeFeedSteps
<1>3. \A i \in 1..L : IsField(f[i], t)
  BY <1>1 DEF IsFeed, IsField, Range
<1> HIDE DEF L
<1> DEFINE S == {i \in 0..L : g[i].ok => DecodedSoFar(ds, kept, f, g[i], i)}
<1>4. 0 \in S
  <2> DEFINE d == Decoder(ds, kept)
  <2>1. /\ d.db = ds /\ d.feedTime = 0 /\ d.cancels = kept /\ d.delays = [u \in {} |-> <<>>]
        /\ d.adds = [n \in StopNumbers |-> {}] /\ IsDecoder(d)
    BY DEF Decoder, IsDecoder
  <2>2. Stamp(f, 0) = 0
    BY DEF Stamp
  <2>3. \A u : CancelsBy(f, 0, u) = {} /\ UpdatesBy(f, 0, u) = {}
    BY DEF CancelsBy, UpdatesBy
  <2> HIDE DEF d
  <2>4. CancelsAre(ds, kept, f, d, 0) /\ DelaysAre(ds, f, d, 0) /\ AddsAre(ds, f, d, 0) /\ TimesOf(d.adds)
    <3>1. CancelsAre(ds, kept, f, d, 0)
      BY <2>1, <2>3 DEF CancelsAre
    <3>2. DelaysAre(ds, f, d, 0)
      BY <2>1, <2>3 DEF DelaysAre
    <3>3. AddsAre(ds, f, d, 0) /\ TimesOf(d.adds)
      BY <2>1 DEF AddsAre, TimesOf
    <3> QED BY <3>1, <3>2, <3>3
  <2>5. DecodedSoFar(ds, kept, f, d, 0)
    BY <2>1, <2>2, <2>4 DEF DecodedSoFar
  <2> QED BY <1>1, <1>2, <2>5 DEF d
<1>5. ASSUME NEW i \in 1..L, i - 1 \in S PROVE i \in S
  <2>1. SUFFICES ASSUME g[i].ok PROVE DecodedSoFar(ds, kept, f, g[i], i)
    OBVIOUS
  <2>2. g[i] = DecodeField(g[i - 1], f[i])
    BY <1>2
  <2>3. g[i - 1].ok
    BY <2>1, <2>2 DEF DecodeField
  <2>4. DecodedSoFar(ds, kept, f, g[i - 1], i - 1)
    BY <1>5, <2>3
  <2>5. i \in Nat /\ i # 0 /\ \A j \in 1..i : IsField(f[j], t)
    BY <1>1, <1>3
  <2>6. DecodedSoFar(ds, kept, f, DecodeField(g[i - 1], f[i]), i)
    BY <2>1, <2>2, <2>4, <2>5, DecodingStep
  <2> QED BY <2>2, <2>6
<1>6. L \in S
  <2> HIDE DEF S
  <2>1. 0..L \subseteq S
    BY <1>1, <1>4, <1>5, StepByStep
  <2> QED BY <2>1, <1>1
<1> QED BY <1>2, <1>6 DEF L

-----------------------------------------------------------------------------
(***************************************************************************)
(* The board's inductive invariant.                                        *)
(***************************************************************************)

\* What the assumptions on the constants say, without their quantifiers.
LEMMA EditionsAre ==
  /\ Len(Editions) \in Nat /\ DOMAIN Editions = 1..Len(Editions) /\ 1 \in DOMAIN Editions
  /\ \A e \in DOMAIN Editions :
       /\ Datasets[e] = BuildFromZIPFile(Editions[e], Filter)
       /\ Datasets[e].filter = Filter /\ Filter # {}
       /\ DOMAIN Datasets[e].trips \subseteq TripIDs
<1>0. Editions \in Seq(Range(Editions)) /\ Editions # <<>> /\ Filter # {}
  BY BoardAssumption
<1>1. Len(Editions) \in Nat /\ DOMAIN Editions = 1..Len(Editions)
  BY <1>0
<1>2. Len(Editions) # 0
  BY <1>0
<1>3. \A e \in DOMAIN Editions :
        Datasets[e] = BuildFromZIPFile(Editions[e], Filter) /\ Datasets[e].filter = Filter
  BY DEF Datasets, BuildFromZIPFile
<1>4. \A e \in DOMAIN Editions : DOMAIN Datasets[e].trips \subseteq TripIDs
  BY DEF TripIDs
<1>5. 1 \in DOMAIN Editions
  BY <1>1, <1>2
<1> QED BY <1>0, <1>1, <1>3, <1>4, <1>5

\* What they say of the numbers among the constants.
LEMMA BoundsAre ==
  /\ Start \in Nat /\ End \in Nat /\ MaxPolls \in Nat /\ Day \in Nat
  /\ Day <= Start /\ Start <= End
<1>1. Day \in Nat
  BY PerHourAssumption DEF Day
<1> QED BY <1>1, BoardAssumption

\* What TypeOK says of the numbers.
LEMMA TypesAre ==
  ASSUME TypeOK
  PROVE  /\ now \in Nat /\ now \in Start..End /\ polls \in 0..MaxPolls
         /\ db \in 1..Len(Editions) /\ by \in 1..db /\ Len(Editions) \in Nat
         /\ \A t \in TripIDs : heard[t] \in 0..End
<1>1. now \in Start..End /\ polls \in 0..MaxPolls /\ db \in DOMAIN Editions /\ by \in 1..db
      /\ \A t \in TripIDs : heard[t] \in 0..End
  BY DEF TypeOK
<1> QED BY <1>1, BoundsAre, EditionsAre

\* A feed is never stamped in the future.
LEMMA StampBounds ==
  ASSUME NEW t \in Nat, NEW f, IsFeed(f, t), NEW i \in 0..Len(f)
  PROVE  Stamp(f, i) \in 0..t
<1> DEFINE headers == {j \in 1..i : f[j].kind = "header"}
<1>1. Len(f) \in Nat /\ DOMAIN f = 1..Len(f)
  BY DEF IsFeed, IsField
<1>2. CASE headers = {}
  BY <1>2 DEF Stamp
<1>3. CASE headers # {}
  <2>1. headers \subseteq 0..i /\ i \in Nat
    BY <1>1
  <2>2. Max(headers) \in headers
    <3> HIDE DEF headers
    <3> QED BY <2>1, <1>3, MaxOf
  <2>3. f[Max(headers)] \in Range(f) /\ f[Max(headers)].kind = "header"
    <3>1. Max(headers) \in DOMAIN f /\ f[Max(headers)].kind = "header"
      <4> HIDE DEF Max
      <4> QED BY <1>1, <2>2
    <3> QED BY <3>1 DEF Range
  <2>4. f[Max(headers)].timestamp \in 0..t
    BY <2>3 DEF IsFeed, IsField
  <2> QED BY <2>4, <1>3 DEF Stamp
<1> QED BY <1>2, <1>3

\* The parse under way has the dataset that was in use and the cancellations of the store.
ParsingFits ==
  parsing # NotParsing =>
    parsing.db = parsing.began /\ parsing.kept = Preserved /\ IsFeed(parsing.feed, now)

\* The delays and additions are those of the feed in effect, by the dataset of its parse.
StoreIsOfFeed ==
  /\ \E t \in Nat : IsFeed(feed, t)
  /\ DelaysAre(Datasets[by], feed, live, Len(feed))
  /\ AddsAre(Datasets[by], feed, live, Len(feed))

\* A cancellation is kept as it was last heard, and lost when it is no longer in force only.
CancelsAreHeard ==
  \A t \in TripIDs : IF t \in DOMAIN live.cancels THEN live.cancels[t] = heard[t]
                     ELSE now - heard[t] >= Day

\* The inductive invariant.
BoardInv == TypeOK /\ ParsingFits /\ StoreIsOfFeed /\ CancelsAreHeard

\* It holds at first: the store is that of a feed without fields.
LEMMA BoardInit == Init => BoardInv
<1> SUFFICES ASSUME Init PROVE BoardInv
  OBVIOUS
<1>1. TypeOK
  <2>1. now \in Start..End /\ polls \in 0..MaxPolls /\ db \in DOMAIN Editions /\ by \in 1..db
    BY BoundsAre, EditionsAre DEF Init
  <2>2. heard \in [TripIDs -> 0..End]
    BY BoundsAre DEF Init
  <2>3. DOMAIN live.delays = {} /\ DOMAIN live.cancels = {} /\ \A n \in StopNumbers : live.adds[n] = {}
    BY DEF Init
  <2>4. parsing = NotParsing
    BY DEF Init
  <2> QED BY <2>1, <2>2, <2>3, <2>4 DEF TypeOK
<1>2. ParsingFits
  BY DEF Init, ParsingFits
<1>3. IsFeed(<<>>, 0) /\ Len(<<>>) = 0
  BY DEF IsFeed, IsField, Range
<1>4. StoreIsOfFeed
  <2>1. \A t : UpdatesBy(<<>>, 0, t) = {}
    BY DEF UpdatesBy
  <2>2. DelaysAre(Datasets[by], feed, live, Len(feed))
    BY <1>3, <2>1 DEF Init, DelaysAre
  <2>3. AddsAre(Datasets[by], feed, live, Len(feed))
    BY <1>3 DEF Init, AddsAre
  <2> QED BY <1>3, <2>2, <2>3 DEF StoreIsOfFeed, Init
<1>5. CancelsAreHeard
  <2>1. DOMAIN live.cancels = {} /\ now = Start /\ \A t \in TripIDs : heard[t] = 0
    BY DEF Init
  <2> QED BY BoundsAre, <2>1 DEF CancelsAreHeard
<1> QED BY <1>1, <1>2, <1>4, <1>5 DEF BoardInv

\* A poll that begins keeps it: the dataset it takes is the one in use.
LEMMA PollBeginsStep == BoardInv /\ PollBegins => BoardInv'
<1> SUFFICES ASSUME BoardInv, PollBegins PROVE BoardInv'
  OBVIOUS
<1>1. PICK f \in Feeds(now) : parsing' = [db |-> db, began |-> db, kept |-> Preserved, feed |-> f]
  BY DEF PollBegins
<1>2. IsFeed(f, now)
  BY FeedsAssumption DEF BoardInv, TypeOK
<1>3. Preserved' = Preserved
  BY DEF PollBegins, Preserved
<1>4. TypeOK'
  <2>1. {parsing'.db, parsing'.began} \subseteq by..db
    BY <1>1, EditionsAre DEF BoardInv, TypeOK
  <2>2. polls' \in 0..MaxPolls
    <3>1. polls \in 0..MaxPolls /\ polls < MaxPolls /\ polls' = polls + 1
      BY DEF BoardInv, TypeOK, PollBegins
    <3> QED BY <3>1, BoundsAre
  <2> QED BY <2>1, <2>2 DEF BoardInv, TypeOK, PollBegins
<1>5. ParsingFits'
  BY <1>1, <1>2, <1>3 DEF ParsingFits, PollBegins
<1>6. StoreIsOfFeed' /\ CancelsAreHeard'
  BY DEF BoardInv, StoreIsOfFeed, CancelsAreHeard, PollBegins
<1> QED BY <1>4, <1>5, <1>6 DEF BoardInv

\* A new edition keeps it: the store is still that of the edition before.
LEMMA RefreshStep == BoardInv /\ Refresh => BoardInv'
<1> SUFFICES ASSUME BoardInv, Refresh PROVE BoardInv'
  OBVIOUS
<1>1. PICK e \in db + 1 .. Len(Editions) : db' = e
  BY DEF Refresh
<1>2. db \in 1..Len(Editions) /\ db' \in 1..Len(Editions) /\ db < db'
  BY <1>1, EditionsAre DEF BoardInv, TypeOK
<1>3. TypeOK'
  BY <1>2, EditionsAre DEF BoardInv, TypeOK, Refresh
<1>4. ParsingFits' /\ StoreIsOfFeed' /\ CancelsAreHeard'
  BY DEF BoardInv, ParsingFits, StoreIsOfFeed, CancelsAreHeard, Refresh, Preserved
<1> QED BY <1>3, <1>4 DEF BoardInv

\* A tick keeps it: a cancellation is over a day after it was last heard.
LEMMA TickStep == BoardInv /\ Tick => BoardInv'
<1> SUFFICES ASSUME BoardInv, Tick PROVE BoardInv'
  OBVIOUS
<1>1. now \in Int /\ now' = now + 1 /\ now' \in Start..End
  <2>1. now \in Start..End /\ now < End /\ now' = now + 1
    BY DEF BoardInv, TypeOK, Tick
  <2> QED BY <2>1, BoundsAre
<1>2. TypeOK'
  <2>1. \A t \in DOMAIN live.cancels : live.cancels[t] = heard[t] /\ heard[t] \in 0..End
    BY DEF BoardInv, TypeOK, CancelsAreHeard
  <2>2. \A t \in DOMAIN live.cancels : live.cancels[t] <= now'
    <3>1. \A t \in DOMAIN live.cancels : live.cancels[t] \in Int /\ live.cancels[t] <= now
      BY <2>1, BoundsAre DEF BoardInv, TypeOK
    <3> QED BY <1>1, <3>1
  <2> QED BY <1>1, <2>2 DEF BoardInv, TypeOK, Tick
<1>3. ParsingFits'
  BY DEF ParsingFits, Tick
<1>4. StoreIsOfFeed'
  BY DEF BoardInv, StoreIsOfFeed, Tick
<1>5. CancelsAreHeard'
  <2>1. \A t \in TripIDs : heard[t] \in 0..End
    BY DEF BoardInv, TypeOK
  <2>2. \A t \in TripIDs : now - heard[t] >= Day => now' - heard[t] >= Day
    BY <1>1, <2>1, BoundsAre
  <2>3. live' = live /\ heard' = heard
    BY DEF Tick
  <2>4. CancelsAreHeard
    BY DEF BoardInv
  <2> QED BY <2>2, <2>3, <2>4 DEF CancelsAreHeard
<1> QED BY <1>2, <1>3, <1>4, <1>5 DEF BoardInv

\* A poll that ends keeps it: the store is that of its feed, or what it was before.
LEMMA PollEndsStep == BoardInv /\ PollEnds => BoardInv'
<1> SUFFICES ASSUME BoardInv, PollEnds PROVE BoardInv'
  OBVIOUS
<1> DEFINE f == parsing.feed
           ds == Datasets[parsing.db]
           d == DecodeFeed(ds, parsing.kept, f)
<1>1. /\ parsing # NotParsing /\ parsing' = NotParsing /\ now' = now /\ db' = db /\ polls' = polls
      /\ parsing.db = parsing.began /\ parsing.kept = Preserved /\ IsFeed(f, now)
  BY DEF BoardInv, PollEnds, ParsingFits
<1>2. ParsingFits'
  BY <1>1 DEF ParsingFits
<1>3. CASE ~d.ok
  <2>1. UNCHANGED <<live, feed, by, heard>>
    BY <1>3 DEF PollEnds
  <2>2. TypeOK'
    BY <1>1, <2>1 DEF BoardInv, TypeOK
  <2>3. StoreIsOfFeed' /\ CancelsAreHeard'
    BY <1>1, <2>1 DEF BoardInv, StoreIsOfFeed, CancelsAreHeard
  <2> QED BY <1>2, <2>2, <2>3 DEF BoardInv
<1>4. CASE d.ok
  <2>1. /\ live' = [delays |-> d.delays, cancels |-> d.cancels, adds |-> d.adds]
        /\ feed' = f /\ by' = parsing.began
        /\ heard' = [t \in TripIDs |->
             LET at == {i \in DOMAIN f : Names(f, i, "cancelled", t)}
             IN IF at = {} \/ t \notin DOMAIN Datasets[parsing.began].trips THEN heard[t]
                ELSE Stamp(f, Max(at))]
    BY <1>4 DEF PollEnds
  <2>2. /\ parsing.db \in DOMAIN Editions /\ parsing.db \in 1..db /\ now \in Nat /\ now \in Start..End
        /\ by' = parsing.db
    <3>1. TypeOK
      BY DEF BoardInv
    <3>2. {parsing.db, parsing.began} \subseteq by..db
      BY <1>1, <3>1 DEF TypeOK
    <3>3. by' = parsing.db
      BY <1>1, <2>1
    <3> QED BY <3>1, <3>2, <3>3, TypesAre, EditionsAre
  <2>3. ds.filter # {} /\ DOMAIN ds.trips \subseteq TripIDs
    BY <2>2, EditionsAre
  <2> DEFINE L == Len(f)
  <2>4. L \in Nat /\ DOMAIN f = 1..L
    BY <1>1 DEF IsFeed, IsField
  <2>5. DecodedSoFar(ds, parsing.kept, f, d, L)
    <3> HIDE DEF ds, f
    <3> QED BY <1>1, <1>4, <2>3, DecodeFeedIs
  <2> HIDE DEF d, L
  <2>6. CancelsAre(ds, parsing.kept, f, d, L) /\ DelaysAre(ds, f, d, L) /\ AddsAre(ds, f, d, L)
    BY <2>5 DEF DecodedSoFar
  <2>7. live'.delays = d.delays /\ live'.cancels = d.cancels /\ live'.adds = d.adds
    BY <2>1
  <2>8. StoreIsOfFeed'
    <3>1. DelaysAre(ds, f, live', L)
      BY <2>6, <2>7 DEF DelaysAre
    <3>2. AddsAre(ds, f, live', L)
      BY <2>6, <2>7 DEF AddsAre
    <3>3. Datasets[by'] = ds /\ feed' = f /\ Len(feed') = L
      BY <2>1, <2>2 DEF L
    <3>4. \E t \in Nat : IsFeed(feed', t)
      BY <1>1, <2>2, <3>3
    <3> HIDE DEF ds, f
    <3>5. DelaysAre(Datasets[by'], feed', live', Len(feed')) /\ AddsAre(Datasets[by'], feed', live', Len(feed'))
      BY <3>1, <3>2, <3>3
    <3> QED BY <3>4, <3>5 DEF StoreIsOfFeed
  <2>9. \A t \in TripIDs : LET at == CancelsBy(f, L, t) IN
          /\ heard'[t] = IF t \in DOMAIN ds.trips /\ at # {} THEN Stamp(f, Max(at)) ELSE heard[t]
          /\ at # {} => Stamp(f, Max(at)) \in 0..now
    <3> TAKE t \in TripIDs
    <3> DEFINE at == CancelsBy(f, L, t)
    <3>1. at = {i \in DOMAIN f : Names(f, i, "cancelled", t)}
      BY <2>4 DEF CancelsBy
    <3>2. heard'[t] = IF t \in DOMAIN ds.trips /\ at # {} THEN Stamp(f, Max(at)) ELSE heard[t]
      BY <1>1, <2>1, <3>1
    <3>3. ASSUME at # {} PROVE Stamp(f, Max(at)) \in 0..now
      <4>1. at \subseteq 0..L
        BY <2>4 DEF CancelsBy
      <4>2. Max(at) \in 0..L
        <5> HIDE DEF at
        <5> QED BY <4>1, <3>3, <2>4, MaxOf
      <4> HIDE DEF at, f
      <4> QED BY <4>2, <1>1, <2>2, StampBounds DEF L
    <3> QED BY <3>2, <3>3
  <2>10. heard' \in [TripIDs -> 0..End]
    <3>1. heard' = [t \in TripIDs |-> heard'[t]]
      BY <2>1
    <3>2. \A t \in TripIDs : heard[t] \in 0..End
      BY TypesAre DEF BoardInv
    <3>3. \A t \in TripIDs : heard'[t] \in 0..End
      <4>1. 0..now \subseteq 0..End
        BY <2>2, BoundsAre
      <4> QED BY <2>9, <3>2, <4>1
    <3> QED BY <3>1, <3>3
  <2>11. /\ DOMAIN parsing.kept \subseteq DOMAIN live.cancels
         /\ \A t \in DOMAIN live.cancels : t \in DOMAIN parsing.kept <=> now - live.cancels[t] < Day
         /\ \A t \in DOMAIN parsing.kept : parsing.kept[t] = live.cancels[t]
    BY <1>1 DEF Preserved
  <2>12. \A t : LET at == CancelsBy(f, L, t) IN
           IF t \in DOMAIN ds.trips /\ at # {}
           THEN t \in DOMAIN live'.cancels /\ live'.cancels[t] = Stamp(f, Max(at))
           ELSE /\ t \in DOMAIN live'.cancels <=> t \in DOMAIN parsing.kept
                /\ t \in DOMAIN parsing.kept => live'.cancels[t] = parsing.kept[t]
    BY <2>6, <2>7 DEF CancelsAre
  <2> HIDE DEF ds, f
  <2>13. CancelsAreHeard'
    <3> SUFFICES ASSUME NEW t \in TripIDs
                 PROVE  IF t \in DOMAIN live'.cancels THEN live'.cancels[t] = heard'[t] ELSE now - heard'[t] >= Day
      BY <1>1 DEF CancelsAreHeard
    <3>1. CASE t \in DOMAIN ds.trips /\ CancelsBy(f, L, t) # {}
      BY <3>1, <2>9, <2>12
    <3>2. CASE ~(t \in DOMAIN ds.trips /\ CancelsBy(f, L, t) # {})
      <4>1. heard'[t] = heard[t]
        BY <3>2, <2>9
      <4>2. IF t \in DOMAIN live.cancels THEN live.cancels[t] = heard[t] ELSE now - heard[t] >= Day
        BY DEF BoardInv, CancelsAreHeard
      <4>3. heard[t] \in Int /\ now \in Int /\ Day \in Int
        BY <2>2, TypesAre, BoundsAre DEF BoardInv
      <4> QED BY <4>1, <4>2, <4>3, <3>2, <2>11, <2>12
    <3> QED BY <3>1, <3>2
  <2>14. ASSUME NEW t \in DOMAIN live'.delays PROVE t \in TripIDs /\ live'.delays[t] # <<>>
    <3> DEFINE at == UpdatesBy(f, L, t)
    <3>1. t \in DOMAIN ds.trips /\ at # {} /\ live'.delays[t] = StopDelays(f[Max(at)].stops)
      BY <2>6, <2>7, <2>14 DEF DelaysAre
    <3>2. at \subseteq 0..L
      BY <2>4 DEF UpdatesBy
    <3>3. Max(at) \in at
      <4> HIDE DEF at
      <4> QED BY <3>1, <3>2, <2>4, MaxOf
    <3>4. f[Max(at)] \in Range(f) /\ f[Max(at)].kind = "entity" /\ HasPlausible(f[Max(at)])
      BY <3>3, <2>4 DEF UpdatesBy, Names, Range
    <3> DEFINE m == f[Max(at)]
    <3> HIDE DEF m
    <3>5. m.stops \in Seq(Range(m.stops)) /\ \A s \in Range(m.stops) : s.seq \in Int
      BY <3>4, <1>1 DEF IsFeed, IsField, m
    <3>6. StopDelays(m.stops) # <<>>
      BY <3>4, <3>5, StopDelaysAre DEF HasPlausible, m
    <3> QED BY <3>1, <3>6, <2>3 DEF m
  <2>15. ASSUME NEW t \in DOMAIN live'.cancels PROVE t \in TripIDs /\ live'.cancels[t] <= now
    <3>1. t \in TripIDs
      BY <2>3, <2>11, <2>12, <2>15 DEF BoardInv, TypeOK
    <3>2. CASE t \in DOMAIN ds.trips /\ CancelsBy(f, L, t) # {}
      <4>1. live'.cancels[t] \in 0..now
        BY <3>1, <3>2, <2>9, <2>12
      <4> QED BY <3>1, <4>1
    <3>3. CASE ~(t \in DOMAIN ds.trips /\ CancelsBy(f, L, t) # {})
      <4>1. t \in DOMAIN live.cancels /\ live'.cancels[t] = live.cancels[t]
        BY <3>3, <2>11, <2>12, <2>15
      <4> QED BY <3>1, <4>1 DEF BoardInv, TypeOK
    <3> QED BY <3>2, <3>3
  <2>16. ASSUME NEW n \in StopNumbers, NEW a \in live'.adds[n] PROVE a.time # 0 /\ a.resolved \in BOOLEAN
    <3>1. \E j \in 1..L : \E s \in Range(f[j].stops) : a = NewAddition(ds, f[j].route, s) /\ TimeOf(s) # 0
      BY <2>6, <2>7 DEF AddsAre
    <3> QED BY <3>1 DEF NewAddition, RouteShortName
  <2>17. TypeOK'
    BY <1>1, <2>2, <2>10, <2>14, <2>15, <2>16 DEF BoardInv, TypeOK
  <2> QED BY <1>2, <2>8, <2>13, <2>17 DEF BoardInv
<1> QED BY <1>3, <1>4

\* So does every step.
LEMMA BoardStep == BoardInv /\ [Next]_vars => BoardInv'
<1>1. BoardInv /\ UNCHANGED vars => BoardInv'
  BY DEF BoardInv, TypeOK, ParsingFits, StoreIsOfFeed, CancelsAreHeard, Preserved, vars
<1> QED BY <1>1, PollBeginsStep, PollEndsStep, RefreshStep, TickStep DEF Next

\* The store keeps its shape: delays are of known trips and never empty, cancellations never
\* from the future, whatever feeds and editions come (realtime.go:395-450).
THEOREM BoardTyped == Spec => []TypeOK
<1>1. Spec => []BoardInv
  BY BoardInit, BoardStep, PTL DEF Spec
<1>2. BoardInv => TypeOK
  BY DEF BoardInv
<1> QED BY <1>1, <1>2, PTL

-----------------------------------------------------------------------------
(***************************************************************************)
(* The dataset and the rows that it is built from.                         *)
(***************************************************************************)

\* The first of the rows' numbers may be left out: every row but one of a key is the last.
LEMMA LastRow ==
  ASSUME NEW rows, rows \in Seq(Range(rows)), NEW T, T \subseteq DOMAIN rows, T # {}
  PROVE  Max(T) \in T
<1>1. Len(rows) \in Nat /\ DOMAIN rows = 1..Len(rows)
  OBVIOUS
<1>2. T \subseteq 0..Len(rows)
  BY <1>1
<1> QED BY <1>1, <1>2, MaxOf

\* The number of a stop is its code, by the one row of its id.
LEMMA NumberOfIs ==
  ASSUME NEW zip, WellFormed(zip), NEW id
  PROVE  /\ \A s \in Range(zip.stops) : s.id = id => NumberOf(zip, id) = StopCode(s)
         /\ NumberOf(zip, id) # "" => \E s \in Range(zip.stops) : s.id = id
<1> DEFINE rows == zip.stops
           same == {i \in DOMAIN rows : rows[i].id = id}
<1>1. rows \in Seq(Range(rows)) /\ \A r, s \in Range(rows) : r.id = s.id => r = s
  BY DEF WellFormed
<1>2. id \in DOMAIN StopIDToNumber(zip) <=> same # {}
  BY DEF StopIDToNumber, MapOf, Every
<1>3. same # {} => StopIDToNumber(zip)[id] = StopCode(rows[Max(same)])
  BY DEF StopIDToNumber, MapOf, Every
<1>4. same # {} => Max(same) \in same
  BY <1>1, LastRow
<1>5. ASSUME NEW s \in Range(rows), s.id = id PROVE NumberOf(zip, id) = StopCode(s)
  <2>1. same # {}
    BY <1>5 DEF Range
  <2>2. rows[Max(same)] \in Range(rows) /\ rows[Max(same)].id = id
    BY <1>4, <2>1 DEF Range
  <2>3. rows[Max(same)] = s
    BY <1>1, <1>5, <2>2
  <2> HIDE DEF same
  <2> QED BY <1>2, <1>3, <2>1, <2>3 DEF NumberOf
<1>6. ASSUME NumberOf(zip, id) # "" PROVE \E s \in Range(rows) : s.id = id
  <2>1. same # {}
    BY <1>2, <1>6 DEF NumberOf
  <2> QED BY <2>1 DEF Range
<1> QED BY <1>5, <1>6

\* The stop times kept for a watched stop are its rows.
LEMMA KeptAre ==
  ASSUME NEW zip, WellFormed(zip), NEW n \in Filter, NEW i \in DOMAIN zip.stopTimes
  PROVE  (i \in StopTimesKept(zip, Filter) /\ NumberOf(zip, zip.stopTimes[i].stop) = n)
           <=> zip.stopTimes[i] \in AtStop(zip, n)
<1> DEFINE r == zip.stopTimes[i]
<1>1. r \in Range(zip.stopTimes)
  BY DEF Range
<1>2. n # ""
  BY BoardAssumption
<1>3. NumberOf(zip, r.stop) = n <=> \E s \in Range(zip.stops) : s.id = r.stop /\ StopCode(s) = n
  <2> DEFINE id == r.stop
  <2> HIDE DEF id
  <2>1. /\ \A s \in Range(zip.stops) : s.id = id => NumberOf(zip, id) = StopCode(s)
        /\ NumberOf(zip, id) # "" => \E s \in Range(zip.stops) : s.id = id
    BY NumberOfIs
  <2>2. NumberOf(zip, id) = n <=> \E s \in Range(zip.stops) : s.id = id /\ StopCode(s) = n
    BY <1>2, <2>1
  <2> QED BY <2>2 DEF id
<1> QED BY <1>1, <1>3 DEF StopTimesKept, AtStop, IsWatched

\* A trip is kept if it serves a watched stop, or if none does.
LEMMA KeptTripsServe ==
  ASSUME NEW zip, WellFormed(zip), NEW t
  PROVE  IsTripKept(zip, Filter, t) <=> \/ \E n \in Filter : \E r \in AtStop(zip, n) : r.trip = t
                                        \/ \A n \in Filter : AtStop(zip, n) = {}
<1> DEFINE serving == {zip.stopTimes[i].trip : i \in StopTimesKept(zip, Filter)}
<1>1. StopTimesKept(zip, Filter) \subseteq DOMAIN zip.stopTimes /\ Filter # {}
  BY BoardAssumption DEF StopTimesKept
<1>2. \A n \in Filter : \A r \in AtStop(zip, n) : r.trip \in serving
  <2> TAKE n \in Filter
  <2> TAKE r \in AtStop(zip, n)
  <2>1. PICK i \in DOMAIN zip.stopTimes : r = zip.stopTimes[i]
    BY DEF AtStop, Range
  <2> QED BY <2>1, KeptAre
<1>3. ASSUME NEW u \in serving PROVE \E n \in Filter : \E r \in AtStop(zip, n) : r.trip = u
  <2>1. PICK i \in StopTimesKept(zip, Filter) : zip.stopTimes[i].trip = u
    OBVIOUS
  <2>2. NumberOf(zip, zip.stopTimes[i].stop) \in Filter
    BY <1>1 DEF StopTimesKept, IsWatched
  <2> QED BY <1>1, <2>1, <2>2, KeptAre
<1>4. serving = {} <=> \A n \in Filter : AtStop(zip, n) = {}
  <2> HIDE DEF serving
  <2> QED BY <1>2, <1>3
<1>5. IsTripKept(zip, Filter, t) <=> serving = {} \/ t \in serving
  BY DEF IsTripKept
<1> HIDE DEF serving
<1> QED BY <1>2, <1>3, <1>4, <1>5

\* A kept trip has the short name of its route and its service.
LEMMA TripsAre ==
  ASSUME NEW zip, WellFormed(zip), NEW t
  PROVE  /\ t \in DOMAIN Trips(zip, Filter) <=>
              IsTripKept(zip, Filter, t) /\ \E r \in Range(zip.trips) : r.id = t
         /\ \A r \in Range(zip.trips), o \in Range(zip.routes) :
              r.id = t /\ o.id = r.route /\ IsTripKept(zip, Filter, t) =>
                Trips(zip, Filter)[t] = [route |-> o.short, service |-> r.service]
<1> DEFINE rows == zip.trips
           same == {i \in DOMAIN rows : IsTripKept(zip, Filter, rows[i].id) /\ rows[i].id = t}
           names == RouteShortNames(zip)
           Short(id) == IF id \in DOMAIN names THEN names[id] ELSE ""
<1>1. rows \in Seq(Range(rows)) /\ \A r, s \in Range(rows) : r.id = s.id => r = s
  BY DEF WellFormed
<1>2. t \in DOMAIN Trips(zip, Filter) <=> same # {}
  BY DEF Trips, MapOf
<1>3. same # {} => Trips(zip, Filter)[t] =
        [route |-> Short(rows[Max(same)].route), service |-> rows[Max(same)].service]
  <2>1. same = {i \in {j \in DOMAIN rows : IsTripKept(zip, Filter, rows[j].id)} : rows[i].id = t}
    OBVIOUS
  <2> QED BY <2>1 DEF Trips, MapOf
<1>4. same # {} => Max(same) \in same
  BY <1>1, LastRow
<1>5. same # {} <=> IsTripKept(zip, Filter, t) /\ \E r \in Range(rows) : r.id = t
  BY DEF Range
<1>6. ASSUME NEW r \in Range(rows), NEW o \in Range(zip.routes), r.id = t, o.id = r.route, IsTripKept(zip, Filter, t)
      PROVE  Trips(zip, Filter)[t] = [route |-> o.short, service |-> r.service]
  <2>1. same # {}
    BY <1>5, <1>6
  <2>2. rows[Max(same)] \in Range(rows) /\ rows[Max(same)].id = t
    BY <1>4, <2>1 DEF Range
  <2>3. rows[Max(same)] = r
    BY <1>1, <1>6, <2>2
  <2> HIDE DEF same
  <2> DEFINE routes == zip.routes
             sameRoute == {i \in DOMAIN routes : routes[i].id = o.id}
  <2>4. routes \in Seq(Range(routes)) /\ \A a, b \in Range(routes) : a.id = b.id => a = b
    BY DEF WellFormed
  <2>5. sameRoute # {}
    BY DEF Range
  <2>6. o.id \in DOMAIN names /\ names[o.id] = routes[Max(sameRoute)].short
    <3>1. sameRoute = {i \in {j \in DOMAIN routes : TRUE} : routes[i].id = o.id}
      OBVIOUS
    <3> QED BY <2>5, <3>1 DEF RouteShortNames, MapOf, Every
  <2>7. Max(sameRoute) \in sameRoute
    BY <2>4, <2>5, LastRow
  <2>8. routes[Max(sameRoute)] = o
    BY <2>4, <2>7 DEF Range
  <2>9. Short(r.route) = o.short
    <3> HIDE DEF names, sameRoute
    <3> QED BY <1>6, <2>6, <2>8
  <2> HIDE DEF Short
  <2> QED BY <1>3, <2>1, <2>3, <2>9
<1> HIDE DEF same
<1> QED BY <1>2, <1>5, <1>6

\* The services and exceptions are those of the rows.
LEMMA CalendarIs ==
  ASSUME NEW zip, WellFormed(zip), NEW service, NEW date
  PROVE  /\ \A r \in Range(zip.calendar) : r.service = service =>
              /\ service \in DOMAIN Services(zip)
              /\ Services(zip)[service] = [start |-> r.start, end |-> r.end, days |-> r.days]
         /\ service \in DOMAIN Services(zip) => \E r \in Range(zip.calendar) : r.service = service
         /\ \A r \in Range(zip.dates) : r.service = service /\ r.date = date =>
              <<service, date>> \in DOMAIN Exceptions(zip) /\ Exceptions(zip)[<<service, date>>] = r.type
         /\ <<service, date>> \in DOMAIN Exceptions(zip) =>
              \E r \in Range(zip.dates) : r.service = service /\ r.date = date
<1> DEFINE rows == zip.calendar
           same == {i \in {j \in DOMAIN rows : TRUE} : rows[i].service = service}
<1>1. rows \in Seq(Range(rows)) /\ \A r, s \in Range(rows) : r.service = s.service => r = s
  BY DEF WellFormed
<1>2. service \in DOMAIN Services(zip) <=> same # {}
  BY DEF Services, MapOf, Every
<1>3. same # {} => Services(zip)[service] =
        [start |-> rows[Max(same)].start, end |-> rows[Max(same)].end, days |-> rows[Max(same)].days]
  BY DEF Services, MapOf, Every
<1>4. same # {} => Max(same) \in same
  BY <1>1, LastRow
<1>5. ASSUME NEW r \in Range(rows), r.service = service
      PROVE  /\ service \in DOMAIN Services(zip)
             /\ Services(zip)[service] = [start |-> r.start, end |-> r.end, days |-> r.days]
  <2>1. same # {}
    BY <1>5 DEF Range
  <2>2. rows[Max(same)] = r
    BY <1>1, <1>4, <1>5, <2>1 DEF Range
  <2> HIDE DEF same
  <2> QED BY <1>2, <1>3, <2>1, <2>2
<1>6. service \in DOMAIN Services(zip) => \E r \in Range(rows) : r.service = service
  BY <1>2 DEF Range
<1> DEFINE dates == zip.dates
           key == <<service, date>>
           sameDate == {i \in {j \in DOMAIN dates : TRUE} : <<dates[i].service, dates[i].date>> = key}
<1>7. /\ dates \in Seq(Range(dates))
      /\ \A r, s \in Range(dates) : r.service = s.service /\ r.date = s.date => r = s
  BY DEF WellFormed
<1>8. key \in DOMAIN Exceptions(zip) <=> sameDate # {}
  BY DEF Exceptions, MapOf, Every
<1>9. sameDate # {} => Exceptions(zip)[key] = dates[Max(sameDate)].type
  BY DEF Exceptions, MapOf, Every
<1>10. sameDate # {} => Max(sameDate) \in sameDate
  BY <1>7, LastRow
<1>11. ASSUME NEW r \in Range(dates), r.service = service, r.date = date
       PROVE  key \in DOMAIN Exceptions(zip) /\ Exceptions(zip)[key] = r.type
  <2>1. sameDate # {}
    BY <1>11 DEF Range
  <2>2. dates[Max(sameDate)] = r
    BY <1>7, <1>10, <1>11, <2>1 DEF Range
  <2> HIDE DEF sameDate, key
  <2> QED BY <1>8, <1>9, <2>1, <2>2
<1>12. key \in DOMAIN Exceptions(zip) => \E r \in Range(dates) : r.service = service /\ r.date = date
  BY <1>8 DEF Range
<1> QED BY <1>5, <1>6, <1>11, <1>12

-----------------------------------------------------------------------------
(***************************************************************************)
(* The page and what is due.                                               *)
(***************************************************************************)

\* The dataset of an edition is that of its files.
LEMMA EditionIsWellFormed ==
  ASSUME NEW e \in DOMAIN Editions
  PROVE  /\ WellFormed(Editions[e])
         /\ Datasets[e].trips = Trips(Editions[e], Filter)
         /\ Datasets[e].services = Services(Editions[e])
         /\ Datasets[e].exceptions = Exceptions(Editions[e])
         /\ Datasets[e].stopTimes = StopTimes(Editions[e], Filter)
<1>1. Datasets[e] = BuildFromZIPFile(Editions[e], Filter)
  BY EditionsAre
<1> QED BY <1>1, EditionsAssumption DEF BuildFromZIPFile

\* A trip of a watched stop is one of the dataset.
LEMMA KnownTrips ==
  ASSUME BoardInv, NEW t
  PROVE  Known(t) <=> t \in DOMAIN Datasets[by].trips
<1>1. by \in DOMAIN Editions
  BY TypesAre, EditionsAre DEF BoardInv
<1> QED BY <1>1, EditionIsWellFormed, TripsAre, KeptTripsServe DEF Known

\* The search of the delays agrees with the last update of the feed at or before the stop.
LEMMA RealtimeIsExpected ==
  ASSUME BoardInv, NEW r, r.seq \in Int, NEW st, st.trip = r.trip, st.seq = r.seq, NEW scheduled
  PROVE  /\ RealtimeTime(live.delays, st, scheduled) = Expected(r, scheduled)
         /\ scheduled \in Int => Expected(r, scheduled) \in Int
<1> DEFINE t == r.trip
           L == Len(feed)
           at == UpdatesBy(feed, L, t)
           m == feed[Max(at)]
           before == {s \in Updates(t) : s.seq <= r.seq}
<1>1. PICK time \in Nat : IsFeed(feed, time)
  BY DEF BoardInv, StoreIsOfFeed
<1>2. L \in Nat /\ DOMAIN feed = 1..L
  BY <1>1 DEF IsFeed, IsField
<1>3. Updates(t) = IF at = {} \/ ~Known(t) THEN {} ELSE {s \in Range(m.stops) : Plausible(s)}
  BY <1>2 DEF Updates, UpdatesBy, HasPlausible
<1>4. IF Known(t) /\ at # {}
      THEN t \in DOMAIN live.delays /\ live.delays[t] = StopDelays(m.stops)
      ELSE t \notin DOMAIN live.delays
  BY KnownTrips DEF BoardInv, StoreIsOfFeed, DelaysAre
<1>5. Expected(r, scheduled) =
        IF before = {} THEN scheduled
        ELSE LET s == CHOOSE u \in before : \A v \in before : v.seq <= u.seq
             IN IF s.arr # 0 THEN s.arr ELSE scheduled + s.delay
  BY DEF Expected
<1>6. CASE ~(Known(t) /\ at # {})
  <2>1. before = {} /\ t \notin DOMAIN live.delays
    BY <1>3, <1>4, <1>6
  <2> QED BY <1>5, <2>1 DEF RealtimeTime
<1>7. CASE Known(t) /\ at # {}
  <2>1. Max(at) \in at
    <3>1. at \subseteq 0..L
      BY <1>2 DEF UpdatesBy
    <3> HIDE DEF at
    <3> QED BY <1>2, <1>7, <3>1, MaxOf
  <2>2. m \in Range(feed) /\ m.kind = "entity"
    BY <1>2, <2>1 DEF UpdatesBy, Names, Range
  <2> DEFINE P == {s \in Range(m.stops) : Plausible(s)}
             D == {Entry(s) : s \in P}
             q == live.delays[t]
             n == SearchDelay(q, r.seq)
  <2>3. /\ m.stops \in Seq(Range(m.stops))
        /\ \A s \in Range(m.stops) : {s.seq, s.arr, s.delay} \subseteq Int
        /\ \A s, u \in P : s.seq = u.seq => s = u
    BY <1>1, <2>2 DEF IsFeed, IsField
  <2>4. /\ Cardinality(D) \in Nat /\ q \in [1..Cardinality(D) -> D] /\ Sorts(q, D)
        /\ \A i \in DOMAIN q : q[i].seq \in Int
    <3> HIDE DEF m
    <3> QED BY <1>4, <1>7, <2>3, StopDelaysAre
  <2>5. Updates(t) = P
    BY <1>3, <1>7
  <2>6. \A s \in P : Entry(s).seq = s.seq /\ Entry(s).abs = s.arr /\ (s.arr = 0 => Entry(s).delay = s.delay)
    BY DEF Entry
  <2>7. \A s \in P : s.seq \in Int
    BY <2>3
  <2>8. RealtimeTime(live.delays, st, scheduled) =
          IF n = 0 THEN scheduled ELSE IF q[n].abs # 0 THEN q[n].abs ELSE scheduled + q[n].delay
    BY <1>4, <1>7 DEF RealtimeTime
  <2> HIDE DEF at, m
  <2>9. Finds(q, r.seq, n)
    <3> DEFINE c == Cardinality(D)
    <3>1. c \in Nat /\ q \in [1..c -> D]
      BY <2>4
    <3> HIDE DEF q, c, D
    <3>2. DOMAIN q = 1..c /\ Len(q) = c
      BY <3>1
    <3>3. (\A i \in 1..c : q[i].seq \in Int) /\ \A i \in 1..c : \A j \in 1..i : q[j].seq <= q[i].seq
      BY <2>4, <3>2 DEF Sorts
    <3> QED BY <3>1, <3>2, <3>3, SearchFinds
  <2>10. \A s \in P : \E j \in DOMAIN q : q[j] = Entry(s)
    <3>1. \A s \in P : Entry(s) \in Range(q)
      BY <2>4 DEF Sorts
    <3> HIDE DEF q, P, D
    <3> QED BY <3>1 DEF Range
  <2> HIDE DEF n
  <2>11. CASE n = 0
    <3>1. \A j \in DOMAIN q : q[j].seq > r.seq
      <4>1. 0 \notin DOMAIN q
        BY <2>4
      <4> HIDE DEF q
      <4> QED BY <2>9, <2>11, <4>1 DEF Finds
    <3>2. before = {}
      <4> HIDE DEF q, P
      <4> QED BY <2>5, <2>6, <2>7, <2>10, <3>1
    <3> QED BY <1>5, <2>8, <2>11, <3>2
  <2>12. CASE n # 0
    <3>1. n \in DOMAIN q /\ q[n].seq <= r.seq
          /\ \A j \in DOMAIN q : q[j].seq <= r.seq => q[j].seq <= q[n].seq
      <4> HIDE DEF q
      <4> QED BY <2>9, <2>12 DEF Finds
    <3>2. PICK s \in P : q[n] = Entry(s)
      <4>1. q[n] \in D
        BY <2>4, <3>1
      <4> QED BY <4>1
    <3>3. s \in before
      BY <2>5, <2>6, <3>1, <3>2
    <3>4. \A v \in before : v.seq <= s.seq
      <4> HIDE DEF q, P
      <4> QED BY <2>5, <2>6, <2>10, <3>1, <3>2
    <3> DEFINE u == CHOOSE x \in before : \A v \in before : v.seq <= x.seq
    <3>5. u \in before /\ \A v \in before : v.seq <= u.seq
      BY <3>3, <3>4
    <3>6. u = s
      <4>1. u \in P
        BY <2>5, <3>5
      <4>2. u.seq <= s.seq /\ s.seq <= u.seq
        BY <3>3, <3>4, <3>5
      <4> HIDE DEF u, P
      <4> QED BY <2>3, <2>7, <4>1, <4>2
    <3>7. Expected(r, scheduled) = IF s.arr # 0 THEN s.arr ELSE scheduled + s.delay
      <4>1. Expected(r, scheduled) = IF u.arr # 0 THEN u.arr ELSE scheduled + u.delay
        BY <1>5, <3>3
      <4> HIDE DEF u
      <4> QED BY <3>6, <4>1
    <3>8. s.arr \in Int /\ s.delay \in Int
      BY <2>3
    <3>9. scheduled \in Int => Expected(r, scheduled) \in Int
      BY <3>7, <3>8
    <3> QED BY <2>6, <2>8, <2>12, <3>2, <3>7, <3>9
  <2> QED BY <2>11, <2>12
<1> QED BY <1>6, <1>7

\* The built calendar agrees with the rows of the edition.
LEMMA ActiveIsRunsOn ==
  ASSUME BoardInv, NEW service, NEW time
  PROVE  IsServiceActive(Datasets[db], service, time) <=> RunsOn(service, time \div Day)
<1> DEFINE date == time \div Day
           exceptions == {r \in Range(Gtfs.dates) : r.service = service /\ r.date = date}
<1>1. db \in DOMAIN Editions
  BY DEF BoardInv, TypeOK
<1>2. /\ WellFormed(Gtfs) /\ Datasets[db].services = Services(Gtfs)
      /\ Datasets[db].exceptions = Exceptions(Gtfs)
  BY <1>1, EditionIsWellFormed DEF Gtfs
<1> HIDE DEF date
<1>3. /\ \A r \in Range(Gtfs.calendar) : r.service = service =>
           /\ service \in DOMAIN Services(Gtfs)
           /\ Services(Gtfs)[service] = [start |-> r.start, end |-> r.end, days |-> r.days]
      /\ service \in DOMAIN Services(Gtfs) => \E r \in Range(Gtfs.calendar) : r.service = service
      /\ \A r \in exceptions :
           <<service, date>> \in DOMAIN Exceptions(Gtfs) /\ Exceptions(Gtfs)[<<service, date>>] = r.type
      /\ <<service, date>> \in DOMAIN Exceptions(Gtfs) => exceptions # {}
  BY <1>2, CalendarIs
<1>4. RunsOn(service, date) <=>
        \/ \E r \in exceptions : r.type = 1
        \/ exceptions = {} /\ \E r \in Range(Gtfs.calendar) :
             r.service = service /\ date \in r.start .. r.end /\ date % 7 \in r.days
  BY DEF RunsOn
<1>5. IsServiceActive(Datasets[db], service, time) <=>
        IF <<service, date>> \in DOMAIN Exceptions(Gtfs)
        THEN Exceptions(Gtfs)[<<service, date>>] = 1
        ELSE /\ service \in DOMAIN Services(Gtfs)
             /\ date \in Services(Gtfs)[service].start .. Services(Gtfs)[service].end
             /\ date % 7 \in Services(Gtfs)[service].days
  BY <1>2 DEF IsServiceActive, Date, Weekday, date
<1> HIDE DEF exceptions
<1>6. CASE exceptions # {}
  <2>1. <<service, date>> \in DOMAIN Exceptions(Gtfs)
        /\ \A r \in exceptions : Exceptions(Gtfs)[<<service, date>>] = r.type
    BY <1>3, <1>6
  <2>2. RunsOn(service, date) <=> Exceptions(Gtfs)[<<service, date>>] = 1
    BY <1>4, <1>6, <2>1
  <2> QED BY <1>5, <2>1, <2>2 DEF date
<1>7. CASE exceptions = {}
  <2>1. <<service, date>> \notin DOMAIN Exceptions(Gtfs)
    BY <1>3, <1>7
  <2>2. RunsOn(service, date) <=> \E r \in Range(Gtfs.calendar) :
             r.service = service /\ date \in r.start .. r.end /\ date % 7 \in r.days
    BY <1>4, <1>7
  <2>3. ASSUME NEW r \in Range(Gtfs.calendar), r.service = service
        PROVE  /\ service \in DOMAIN Services(Gtfs)
               /\ Services(Gtfs)[service].start = r.start /\ Services(Gtfs)[service].end = r.end
               /\ Services(Gtfs)[service].days = r.days
    <3>1. /\ service \in DOMAIN Services(Gtfs)
          /\ Services(Gtfs)[service] = [start |-> r.start, end |-> r.end, days |-> r.days]
      BY <1>3, <2>3
    <3> QED BY <3>1
  <2>4. IsServiceActive(Datasets[db], service, time) <=>
          /\ service \in DOMAIN Services(Gtfs)
          /\ date \in Services(Gtfs)[service].start .. Services(Gtfs)[service].end
          /\ date % 7 \in Services(Gtfs)[service].days
    BY <1>5, <2>1
  <2>5. service \in DOMAIN Services(Gtfs) => \E r \in Range(Gtfs.calendar) : r.service = service
    BY <1>3
  <2> QED BY <2>2, <2>3, <2>4, <2>5 DEF date
<1> QED BY <1>6, <1>7

\* The arrival that a run becomes, on the page if the run is due.
Run(r, date) ==
  [route |-> Route(r.trip), scheduled |-> RunTime(r, date), effective |-> Expected(r, RunTime(r, date)),
   trip |-> r.trip, added |-> FALSE]
\* The stop time that a row becomes.
EntryOf(r) == [trip |-> r.trip, secs |-> r.time, seq |-> r.seq]

\* What the query takes for due: it looks in the calendar at the date of the arrival.
CountsAsDue(q, r, date) == Comes(q, r, date) /\ RunsWhenItArrives(r, date)

\* A stop time is a candidate of the page exactly when its run counts as due, and the arrival is that run.
LEMMA CandidateCounts ==
  ASSUME BoardInv, NEW q \in Queries, NEW r \in AtStop(Gtfs, q.stop), NEW date,
         RunTime(r, date) = ScheduledTime(now, r.time)
  PROVE  /\ IsCandidate(Datasets[db], Snapshot, q, EntryOf(r)) <=> CountsAsDue(q, r, date)
         /\ CountsAsDue(q, r, date) => FromStopTime(Datasets[db], Snapshot, EntryOf(r)) = Run(r, date)
<1> DEFINE ds == Datasets[db]
           st == EntryOf(r)
           t == r.trip
           time == RunTime(r, date)
<1>1. db \in DOMAIN Editions /\ q.stop \in Filter
  BY BoardAssumption DEF BoardInv, TypeOK
<1>2. WellFormed(Gtfs) /\ ds.trips = Trips(Gtfs, Filter)
  BY <1>1, EditionIsWellFormed DEF Gtfs
<1>3. IsTripKept(Gtfs, Filter, t)
  BY <1>1, <1>2, KeptTripsServe
<1>4. t \in DOMAIN ds.trips <=> \E u \in Range(Gtfs.trips) : u.id = t
  BY <1>2, <1>3, TripsAre
<1>5. CASE t \notin DOMAIN ds.trips
  <2>1. ~CountsAsDue(q, r, date)
    BY <1>4, <1>5 DEF CountsAsDue, Comes
  <2>2. st.trip = t
    BY DEF EntryOf
  <2>3. ~IsCandidate(ds, Snapshot, q, st)
    BY <1>5, <2>2 DEF IsCandidate
  <2> QED BY <2>1, <2>3
<1>6. CASE t \in DOMAIN ds.trips
  <2>1. TripRow(t) \in Range(Gtfs.trips) /\ TripRow(t).id = t
    BY <1>4, <1>6 DEF TripRow
  <2> DEFINE o == CHOOSE x \in Range(Gtfs.routes) : x.id = TripRow(t).route
  <2>2. o \in Range(Gtfs.routes) /\ o.id = TripRow(t).route
    BY <1>2, <2>1 DEF WellFormed
  <2>3. Route(t) = o.short
    BY DEF Route
  <2> HIDE DEF o
  <2>4. ds.trips[t] = [route |-> Route(t), service |-> TripRow(t).service]
    BY <1>2, <1>3, <2>1, <2>2, <2>3, TripsAre
  <2>5. ds.trips[t].route = Route(t) /\ ds.trips[t].service = TripRow(t).service
    BY <2>4
  <2>6. /\ st.trip = t /\ st.secs = r.time /\ st.seq = r.seq
        /\ Snapshot.now = now /\ Snapshot.delays = live.delays /\ Snapshot.cancels = live.cancels
    BY DEF EntryOf, Snapshot
  <2>7. IsCancelled(Snapshot, t) <=> Cancelled(t)
    <3>1. t \in TripIDs
      BY <1>1, <1>6, EditionsAre
    <3>2. IF t \in DOMAIN live.cancels THEN live.cancels[t] = heard[t] ELSE now - heard[t] >= Day
      BY <3>1 DEF BoardInv, CancelsAreHeard
    <3>3. now \in Int /\ heard[t] \in Int /\ Day \in Int
      BY <3>1, TypesAre, BoundsAre DEF BoardInv
    <3> QED BY <2>6, <3>2, <3>3 DEF IsCancelled, Cancelled
  <2>8. r.seq \in Int
    BY <1>2 DEF WellFormed, AtStop
  <2>9. RealtimeTime(live.delays, st, time) = Expected(r, time)
    <3> HIDE DEF st, time
    <3> QED BY <2>6, <2>8, RealtimeIsExpected
  <2>10. FromStopTime(ds, Snapshot, st) = Run(r, date)
    <3>1. ScheduledTime(Snapshot.now, st.secs) = time
      BY <2>6
    <3> HIDE DEF st, time
    <3> QED BY <2>5, <2>6, <2>9, <3>1 DEF FromStopTime, Run, time
  <2>11. Run(r, date).scheduled = time /\ Run(r, date).effective = Expected(r, time)
    BY DEF Run
  <2> HIDE DEF ds, st, time
  <2>12. IsCandidate(ds, Snapshot, q, st) <=>
           /\ Wanted(q, Route(t)) /\ ~Cancelled(t)
           /\ IsServiceActive(ds, TripRow(t).service, time)
           /\ Upcoming(time, Expected(r, time), now, q)
    BY <1>6, <2>5, <2>6, <2>7, <2>10, <2>11 DEF IsCandidate
  <2>13. IsServiceActive(ds, TripRow(t).service, time) <=> RunsOn(TripRow(t).service, time \div Day)
    BY ActiveIsRunsOn DEF ds
  <2>14. CountsAsDue(q, r, date) <=>
           /\ Wanted(q, Route(t)) /\ ~Cancelled(t)
           /\ RunsOn(TripRow(t).service, time \div Day)
           /\ Upcoming(time, Expected(r, time), now, q)
    BY <1>4, <1>6 DEF CountsAsDue, Comes, RunsWhenItArrives, ServiceOf, Date, time
  <2>15. IsCandidate(ds, Snapshot, q, st) <=> CountsAsDue(q, r, date)
    BY <2>12, <2>13, <2>14
  <2> QED BY <2>10, <2>15 DEF ds, st
<1> QED BY <1>5, <1>6

-----------------------------------------------------------------------------
(***************************************************************************)
(* The clock, the hours and the buckets.                                   *)
(***************************************************************************)

\* Quotient and remainder.
LEMMA Division ==
  ASSUME NEW a \in Int, NEW b \in Nat, b # 0
  PROVE  a \div b \in Int /\ a % b \in 0..(b - 1) /\ a = b * (a \div b) + (a % b)
  OBVIOUS

\* A product above -p is of a number that is not negative.
LEMMA NotNegative ==
  ASSUME NEW p \in Nat, NEW k \in Int, -p < p * k
  PROVE  k >= 0
<1>1. CASE k <= -1
  <2>1. p * k <= -p
    BY <1>1
  <2> QED BY <2>1
<1> QED BY <1>1

\* At least three hours before is at least three hours of the clock before.
LEMMA HoursBefore ==
  ASSUME NEW p \in Nat, p # 0, NEW a \in Int, NEW b \in Int, a >= b - 3 * p
  PROVE  a \div p >= b \div p - 3
<1> DEFINE x == a \div p
           y == b \div p
           k == x - y + 3
<1>1. x \in Int /\ a % p \in 0..(p - 1) /\ a = p * x + (a % p)
  BY Division
<1>2. y \in Int /\ b % p \in 0..(p - 1) /\ b = p * y + (b % p)
  BY Division
<1> HIDE DEF x, y
<1>3. p * k = p * x - p * y + 3 * p
  BY <1>1, <1>2
<1>4. p * x \in Int /\ p * y \in Int
  BY <1>1, <1>2
<1>5. p * k > -p
  BY <1>1, <1>2, <1>3, <1>4
<1>6. k >= 0
  <2>1. k \in Int
    BY <1>1, <1>2
  <2> HIDE DEF k
  <2> QED BY <1>5, <2>1, NotNegative
<1>7. x >= y - 3
  BY <1>1, <1>2, <1>6
<1> QED BY <1>7 DEF x, y

\* Not later than m ticks and two hours is at most the hours of m and three more of the clock.
LEMMA HoursAfter ==
  ASSUME NEW p \in Nat, p # 0, NEW a \in Int, NEW b \in Int, NEW m \in Int, a <= b + m + 2 * p
  PROVE  a \div p <= b \div p + m \div p + 3
<1> DEFINE x == a \div p
           y == b \div p
           z == m \div p
           k == y + z + 3 - x
<1>1. x \in Int /\ a % p \in 0..(p - 1) /\ a = p * x + (a % p)
  BY Division
<1>2. y \in Int /\ b % p \in 0..(p - 1) /\ b = p * y + (b % p)
  BY Division
<1>3. z \in Int /\ m % p \in 0..(p - 1) /\ m = p * z + (m % p)
  BY Division
<1> HIDE DEF x, y, z
<1>4. p * k = p * y + p * z + 3 * p - p * x
  BY <1>1, <1>2, <1>3
<1>5. p * x \in Int /\ p * y \in Int /\ p * z \in Int
  BY <1>1, <1>2, <1>3
<1>6. p * k > -p
  BY <1>1, <1>2, <1>3, <1>4, <1>5
<1>7. k >= 0
  <2>1. k \in Int
    BY <1>1, <1>2, <1>3
  <2> HIDE DEF k
  <2> QED BY <1>6, <2>1, NotNegative
<1>8. x <= y + z + 3
  BY <1>1, <1>2, <1>3, <1>7
<1> QED BY <1>8 DEF x, y, z

\* A day later is 24 hours of the clock later.
LEMMA DayLater ==
  ASSUME NEW p \in Nat, p # 0, NEW a \in Int
  PROVE  (a + 24 * p) \div p = a \div p + 24
<1> DEFINE x == a \div p
           y == (a + 24 * p) \div p
           k == y - x - 24
<1>1. x \in Int /\ a % p \in 0..(p - 1) /\ a = p * x + (a % p)
  BY Division
<1>2. y \in Int /\ (a + 24 * p) % p \in 0..(p - 1) /\ a + 24 * p = p * y + ((a + 24 * p) % p)
  <2>1. a + 24 * p \in Int
    OBVIOUS
  <2> QED BY <2>1, Division
<1> HIDE DEF x, y
<1>3. p * k = p * y - p * x - 24 * p
  BY <1>1, <1>2
<1>4. p * x \in Int /\ p * y \in Int
  BY <1>1, <1>2
<1>5. -p < p * k /\ p * k < p
  BY <1>1, <1>2, <1>3, <1>4
<1>6. k \in Int
  BY <1>1, <1>2
<1>7. p * (-k) = -(p * k)
  <2> HIDE DEF k
  <2> QED BY <1>6
<1>8. k >= 0 /\ -k >= 0
  <2> HIDE DEF k
  <2>1. p * k \in Int /\ -k \in Int
    BY <1>6
  <2>2. -p < p * (-k)
    BY <1>5, <1>7, <2>1
  <2> QED BY <1>5, <1>6, <2>1, <2>2, NotNegative
<1>9. y = x + 24
  BY <1>1, <1>2, <1>8
<1> QED BY <1>9 DEF x, y

\* The clock is a date and a time of the day.
LEMMA ClockIs ==
  ASSUME BoardInv
  PROVE  /\ PerHour \in Nat /\ PerHour # 0 /\ Day = 24 * PerHour /\ Day \in Nat
         /\ Date(now) \in Int /\ TimeOfDay(now) \in 0..(Day - 1)
         /\ Date(now) * Day \in Int /\ now = Date(now) * Day + TimeOfDay(now)
         /\ (Date(now) + 1) * Day = Date(now) * Day + Day
<1>1. PerHour \in Nat /\ PerHour # 0
  BY PerHourAssumption
<1>2. Day = 24 * PerHour /\ Day \in Nat /\ Day # 0
  BY <1>1 DEF Day
<1>3. now \in Int
  BY TypesAre DEF BoardInv
<1> DEFINE d == now \div Day
           u == now % Day
<1>4. d \in Int /\ u \in 0..(Day - 1) /\ now = Day * d + u
  BY <1>2, <1>3, Division
<1>5. Date(now) = d /\ TimeOfDay(now) = u
  BY DEF Date, TimeOfDay
<1> HIDE DEF d, u
<1>6. d * Day \in Int /\ d * Day = Day * d /\ (d + 1) * Day = d * Day + Day
  BY <1>2, <1>4
<1> QED BY <1>1, <1>2, <1>4, <1>5, <1>6

\* The 12-hour rule puts a stop time on today's or on tomorrow's date.
LEMMA ScheduledOnSomeDay ==
  ASSUME BoardInv, NEW r, r.time \in Int
  PROVE  \E date \in Days : RunTime(r, date) = ScheduledTime(now, r.time)
<1> DEFINE D == Date(now)
           X == D * Day
<1>1. X \in Int /\ Day \in Int /\ (D + 1) * Day = X + Day
  BY ClockIs
<1>2. RunTime(r, D) = X + r.time /\ RunTime(r, D + 1) = X + r.time + Day
  <2> HIDE DEF D, X
  <2> QED BY <1>1 DEF RunTime, X
<1>3. ScheduledTime(now, r.time) = X + r.time \/ ScheduledTime(now, r.time) = X + (r.time + Day)
  BY DEF ScheduledTime
<1> HIDE DEF X
<1>4. X + (r.time + Day) = X + r.time + Day
  BY <1>1
<1> QED BY <1>2, <1>3, <1>4 DEF Days

\* It is the right date for a run of the page, if the page's window is below ten hours.
LEMMA ScheduledOnItsDay ==
  ASSUME BoardInv, NEW r, r.time \in Int, NEW date \in Days, NEW m \in Nat, m < 10 * PerHour,
         RunTime(r, date) \in now - LookbackHours * PerHour .. now + m + 2 * PerHour
  PROVE  ScheduledTime(now, r.time) = RunTime(r, date)
<1> DEFINE D == Date(now)
           X == D * Day
           u == TimeOfDay(now)
           a == r.time
<1>1. /\ PerHour \in Nat /\ PerHour # 0 /\ Day = 24 * PerHour /\ X \in Int
      /\ u \in 0..(Day - 1) /\ now = X + u
  BY ClockIs
<1>2. ScheduledTime(now, a) = X + (IF u - 12 * PerHour > a THEN a + Day ELSE a)
  BY DEF ScheduledTime
<1>3. date = D \/ date = D + 1
  BY DEF Days
<1>4. RunTime(r, D) = X + a /\ RunTime(r, D + 1) = X + Day + a
  BY ClockIs DEF RunTime
<1> DEFINE time == RunTime(r, date)
<1>5. now - 3 * PerHour <= time /\ time <= now + m + 2 * PerHour
  <2>1. time \in now - 3 * PerHour .. now + m + 2 * PerHour
    BY DEF LookbackHours
  <2>2. now - 3 * PerHour \in Int /\ now + m + 2 * PerHour \in Int
    BY <1>1
  <2> HIDE DEF time
  <2> QED BY <2>1, <2>2
<1> HIDE DEF X, u, time
<1>6. CASE date = D
  <2>1. time = X + a
    BY <1>4, <1>6 DEF time
  <2>2. ~(u - 12 * PerHour > a)
    BY <1>1, <1>5, <2>1
  <2> QED BY <1>2, <2>1, <2>2 DEF time
<1>7. CASE date = D + 1
  <2>1. time = X + Day + a
    BY <1>4, <1>7 DEF time
  <2>2. u - 12 * PerHour > a
    BY <1>1, <1>5, <2>1
  <2>3. X + (a + Day) = X + Day + a
    BY <1>1
  <2> QED BY <1>2, <2>1, <2>2, <2>3 DEF time
<1> QED BY <1>3, <1>6, <1>7

\* The hours looked at: for a window below ten hours all of them, from three hours back on.
LEMMA TryHoursAre ==
  ASSUME BoardInv, NEW q \in Queries
  PROVE  /\ q.max \div PerHour \in Nat /\ Hour(now) \in 0..23
         /\ DOMAIN TryHours(now, q) \subseteq Nat
         /\ q.max < 10 * PerHour => DOMAIN TryHours(now, q) = 1..(q.max \div PerHour + 7)
         /\ \A k \in DOMAIN TryHours(now, q) : TryHours(now, q)[k] = (Hour(now) - 3 + k - 1) % 24
<1> DEFINE m == q.max
           z == m \div PerHour
           n == LookbackHours + (z + 2) + 2
           H == Hour(now)
           lengths == {24, n}
<1>1. PerHour \in Nat /\ PerHour # 0 /\ m \in Nat
  BY ClockIs, BoardAssumption
<1> HIDE DEF m
<1>2. z \in Int /\ m % PerHour \in 0..(PerHour - 1) /\ m = PerHour * z + (m % PerHour)
  BY <1>1, Division
<1>3. z \in Nat
  <2> HIDE DEF z
  <2>1. PerHour * z > -PerHour
    <3>1. PerHour * z \in Int
      BY <1>1, <1>2
    <3> QED BY <1>1, <1>2, <3>1
  <2> QED BY <1>1, <1>2, <2>1, NotNegative
<1>4. H \in 0..23
  <2> DEFINE u == TimeOfDay(now)
  <2>1. u \in 0..(24 * PerHour - 1)
    BY ClockIs
  <2>2. H = u \div PerHour
    BY DEF Hour
  <2> HIDE DEF u, H
  <2>3. H \in Int /\ u % PerHour \in 0..(PerHour - 1) /\ u = PerHour * H + (u % PerHour)
    BY <1>1, <2>1, <2>2, Division
  <2>4. PerHour * H \in Int /\ PerHour * (23 - H) = 23 * PerHour - PerHour * H
    BY <1>1, <2>3
  <2>5. PerHour * H > -PerHour /\ PerHour * (23 - H) > -PerHour
    BY <1>1, <2>1, <2>3, <2>4
  <2>6. H >= 0 /\ 23 - H >= 0
    BY <1>1, <2>3, <2>5, NotNegative
  <2> QED BY <2>3, <2>6
<1>5. TryHours(now, q) = [i \in 1..Min(lengths) |-> (H - 3 + i - 1) % 24]
  BY DEF TryHours, LookbackHours, m
<1>6. n = z + 7
  BY <1>3 DEF LookbackHours
<1> HIDE DEF z, n, H
<1>7. Min(lengths) \in lengths /\ \A x \in lengths : Min(lengths) <= x
  <2>1. \E x \in lengths : \A y \in lengths : x <= y
    BY <1>3, <1>6
  <2> HIDE DEF lengths
  <2> QED BY <2>1 DEF Min
<1> HIDE DEF Min
<1>8. m < 10 * PerHour => Min(lengths) = n
  <2>1. SUFFICES ASSUME m < 10 * PerHour PROVE z <= 9
    BY <1>3, <1>6, <1>7
  <2>2. PerHour * (9 - z) = 9 * PerHour - PerHour * z /\ PerHour * z \in Int
    BY <1>1, <1>3
  <2>3. PerHour * (9 - z) > -PerHour
    BY <1>1, <1>2, <2>1, <2>2
  <2>4. 9 - z \in Int
    BY <1>3
  <2>5. 9 - z >= 0
    BY <1>1, <2>3, <2>4, NotNegative
  <2> QED BY <1>3, <2>5
<1>9. Min(lengths) \in Nat
  BY <1>3, <1>6, <1>7
<1>10. DOMAIN TryHours(now, q) = 1..Min(lengths)
  BY <1>5
<1> HIDE DEF lengths
<1> QED BY <1>3, <1>4, <1>5, <1>6, <1>8, <1>9, <1>10 DEF z, H, m

\* The hour of a run of the page is one of those looked at.
LEMMA HourIsTried ==
  ASSUME BoardInv, NEW q \in Queries, q.max < 10 * PerHour, NEW r, r.time \in Int, NEW date \in Days,
         RunTime(r, date) \in now - LookbackHours * PerHour .. now + q.max + 2 * PerHour
  PROVE  \E k \in DOMAIN TryHours(now, q) : TryHours(now, q)[k] = HourBucket(r.time)
<1> DEFINE D == Date(now)
           X == D * Day
           u == TimeOfDay(now)
           H == Hour(now)
           z == q.max \div PerHour
           a == r.time
           b == IF date = D THEN a ELSE a + 24 * PerHour
           x == a \div PerHour
           y == b \div PerHour
<1>1. /\ PerHour \in Nat /\ PerHour # 0 /\ Day = 24 * PerHour /\ X \in Int
      /\ u \in 0..(Day - 1) /\ now = X + u
  BY ClockIs
<1>2. q.max \in Nat
  BY BoardAssumption
<1>3. RunTime(r, D) = X + a /\ RunTime(r, D + 1) = X + Day + a
  BY ClockIs DEF RunTime
<1>4. date = D \/ date = D + 1
  BY DEF Days
<1> DEFINE time == RunTime(r, date)
<1>5. now - 3 * PerHour <= time /\ time <= now + q.max + 2 * PerHour
  <2>1. time \in now - 3 * PerHour .. now + q.max + 2 * PerHour
    BY DEF LookbackHours
  <2>2. now - 3 * PerHour \in Int /\ now + q.max + 2 * PerHour \in Int
    BY <1>1, <1>2
  <2> HIDE DEF time
  <2> QED BY <2>1, <2>2
<1>6. b \in Int /\ time = X + b
  <2>1. D \in Int
    BY ClockIs
  <2> HIDE DEF X
  <2> QED BY <1>1, <1>3, <1>4, <2>1
<1> HIDE DEF X, u, b, time
<1>7. b >= u - 3 * PerHour /\ b <= u + q.max + 2 * PerHour /\ u \in Int
  BY <1>1, <1>2, <1>5, <1>6
<1>8. H = u \div PerHour
  BY DEF Hour, u
<1>9. y >= H - 3 /\ y <= H + z + 3
  <2> DEFINE m == q.max
  <2>1. m \in Int
    BY <1>2
  <2>2. b <= u + m + 2 * PerHour
    BY <1>7
  <2> HIDE DEF m
  <2>3. b \div PerHour >= u \div PerHour - 3
    BY <1>1, <1>6, <1>7, HoursBefore
  <2>4. b \div PerHour <= u \div PerHour + m \div PerHour + 3
    BY <1>1, <1>6, <1>7, <2>1, <2>2, HoursAfter
  <2> QED BY <1>8, <2>3, <2>4 DEF m
<1>10. x \in Int /\ y \in Int
  BY <1>1, <1>6, Division
<1>11. y = x \/ y = x + 24
  BY <1>1, DayLater DEF b
<1>12. HourBucket(a) = x % 24
  BY DEF HourBucket
<1>13. /\ z \in Nat /\ H \in 0..23 /\ DOMAIN TryHours(now, q) = 1..(z + 7)
       /\ \A k \in DOMAIN TryHours(now, q) : TryHours(now, q)[k] = (H - 3 + k - 1) % 24
  BY TryHoursAre
<1> DEFINE k == y - H + 4
<1> HIDE DEF x, y, z, H
<1>14. k \in 1..(z + 7) /\ H - 3 + k - 1 = y
  BY <1>9, <1>10, <1>13
<1>15. y % 24 = x % 24
  BY <1>10, <1>11
<1>16. TryHours(now, q)[k] = x % 24
  <2> HIDE DEF k
  <2> QED BY <1>13, <1>14, <1>15
<1> QED BY <1>12, <1>13, <1>14, <1>16

\* A bucket has the rows of its stop and hour.
LEMMA BucketIs ==
  ASSUME BoardInv, NEW n \in Filter, NEW h, NEW i
  PROVE  /\ i \in DOMAIN Bucket(Datasets[db], n, h) <=>
              /\ i \in DOMAIN Gtfs.stopTimes /\ Gtfs.stopTimes[i] \in AtStop(Gtfs, n)
              /\ HourBucket(Gtfs.stopTimes[i].time) = h
         /\ i \in DOMAIN Bucket(Datasets[db], n, h) =>
              Bucket(Datasets[db], n, h)[i] = EntryOf(Gtfs.stopTimes[i])
<1> DEFINE st == StopTimes(Gtfs, Filter)
           kept == StopTimesKept(Gtfs, Filter)
           Number(j) == NumberOf(Gtfs, Gtfs.stopTimes[j].stop)
           HourOf(j) == HourBucket(Gtfs.stopTimes[j].time)
           here == {j \in kept : Number(j) = n /\ HourOf(j) = h}
<1>1. WellFormed(Gtfs) /\ Datasets[db].stopTimes = st
  BY EditionIsWellFormed DEF BoardInv, TypeOK, Gtfs
<1>2. /\ DOMAIN st = {Number(j) : j \in kept}
      /\ \A m \in DOMAIN st : DOMAIN st[m] = {HourOf(j) : j \in kept}
      /\ n \in DOMAIN st /\ h \in {HourOf(j) : j \in kept} =>
           st[n][h] = [j \in here |-> EntryOf(Gtfs.stopTimes[j])]
  BY DEF StopTimes, EntryOf
<1> HIDE DEF st, Number, HourOf
<1>3. Bucket(Datasets[db], n, h) = IF n \in DOMAIN st /\ h \in {HourOf(j) : j \in kept} THEN st[n][h] ELSE <<>>
  BY <1>1, <1>2 DEF Bucket
<1>4. DOMAIN Bucket(Datasets[db], n, h) = here
  <2>1. CASE n \in DOMAIN st /\ h \in {HourOf(j) : j \in kept}
    <3>1. Bucket(Datasets[db], n, h) = [j \in here |-> EntryOf(Gtfs.stopTimes[j])]
      BY <1>2, <1>3, <2>1
    <3> HIDE DEF here
    <3> QED BY <3>1
  <2>2. CASE ~(n \in DOMAIN st /\ h \in {HourOf(j) : j \in kept})
    <3>1. Bucket(Datasets[db], n, h) = <<>>
      BY <1>3, <2>2
    <3>2. here = {}
      BY <1>2, <2>2
    <3> QED BY <3>1, <3>2
  <2> QED BY <2>1, <2>2
<1>5. i \in here => Bucket(Datasets[db], n, h)[i] = EntryOf(Gtfs.stopTimes[i])
  <2> SUFFICES ASSUME i \in here PROVE Bucket(Datasets[db], n, h)[i] = EntryOf(Gtfs.stopTimes[i])
    OBVIOUS
  <2>1. n \in DOMAIN st /\ h \in {HourOf(j) : j \in kept}
    BY <1>2
  <2>2. Bucket(Datasets[db], n, h) = [j \in here |-> EntryOf(Gtfs.stopTimes[j])]
    BY <1>2, <1>3, <2>1
  <2> HIDE DEF here
  <2> QED BY <2>2
<1>6. i \in here <=> /\ i \in DOMAIN Gtfs.stopTimes /\ Gtfs.stopTimes[i] \in AtStop(Gtfs, n)
                     /\ HourBucket(Gtfs.stopTimes[i].time) = h
  <2>1. kept \subseteq DOMAIN Gtfs.stopTimes
    BY DEF StopTimesKept
  <2>2. i \in DOMAIN Gtfs.stopTimes => (i \in kept /\ Number(i) = n <=> Gtfs.stopTimes[i] \in AtStop(Gtfs, n))
    BY <1>1, KeptAre DEF Number
  <2> HIDE DEF kept
  <2> QED BY <2>1, <2>2 DEF HourOf
<1> QED BY <1>4, <1>5, <1>6


\* The stop time and the arrival at a place that the query looks at, and the places with one
\* to show.
Place(q, p) == StopTimeAt(Datasets[db], now, q, p)
ArrivalAt(q, p) == FromStopTime(Datasets[db], Snapshot, Place(q, p))
Found(q) == {p \in Scanned(Datasets[db], now, q) : IsCandidate(Datasets[db], Snapshot, q, Place(q, p))}

\* Every place has the stop time of a row at the stop.
LEMMA PlaceIsRow ==
  ASSUME BoardInv, NEW q \in Queries, NEW p \in Scanned(Datasets[db], now, q)
  PROVE  p \in Nat \X Nat /\ \E r \in AtStop(Gtfs, q.stop) : Place(q, p) = EntryOf(r)
<1> DEFINE H == TryHours(now, q)
           B(k) == Bucket(Datasets[db], q.stop, H[k])
<1>1. PICK k \in DOMAIN H : \E i \in DOMAIN B(k) : p = <<k, i>>
  BY DEF Scanned
<1>2. PICK i \in DOMAIN B(k) : p = <<k, i>>
  BY <1>1
<1>3. k \in Nat
  BY TryHoursAre
<1>4. q.stop \in Filter
  BY BoardAssumption
<1>5. /\ i \in DOMAIN Gtfs.stopTimes /\ Gtfs.stopTimes[i] \in AtStop(Gtfs, q.stop)
      /\ B(k)[i] = EntryOf(Gtfs.stopTimes[i])
  <2> HIDE DEF H
  <2> QED BY <1>2, <1>4, BucketIs
<1>6. i \in Nat
  <2>1. Gtfs.stopTimes \in Seq(Range(Gtfs.stopTimes))
    BY EditionIsWellFormed DEF BoardInv, TypeOK, Gtfs, WellFormed
  <2> QED BY <1>5, <2>1
<1>7. Place(q, p) = B(k)[i]
  BY <1>2 DEF Place, StopTimeAt
<1> HIDE DEF B, H
<1> QED BY <1>2, <1>3, <1>5, <1>6, <1>7

\* A row at the stop whose hour is looked at has a place.
LEMMA RowHasPlace ==
  ASSUME BoardInv, NEW q \in Queries, NEW r \in AtStop(Gtfs, q.stop),
         NEW k \in DOMAIN TryHours(now, q), TryHours(now, q)[k] = HourBucket(r.time)
  PROVE  \E p \in Scanned(Datasets[db], now, q) : Place(q, p) = EntryOf(r)
<1> DEFINE H == TryHours(now, q)
           B(j) == Bucket(Datasets[db], q.stop, H[j])
<1>1. q.stop \in Filter
  BY BoardAssumption
<1>2. PICK i \in DOMAIN Gtfs.stopTimes : r = Gtfs.stopTimes[i]
  BY DEF AtStop, Range
<1>3. i \in DOMAIN B(k) /\ B(k)[i] = EntryOf(r)
  BY <1>1, <1>2, BucketIs
<1>4. <<k, i>> \in Scanned(Datasets[db], now, q)
  BY <1>3 DEF Scanned
<1>5. Place(q, <<k, i>>) = B(k)[i]
  BY DEF Place, StopTimeAt
<1> HIDE DEF B, H
<1> QED BY <1>3, <1>4, <1>5

\* Of some places there is a first.
LEMMA FirstPlace ==
  ASSUME NEW S, S \subseteq Nat \X Nat, S # {}
  PROVE  \E p \in S : \A o \in S : ~Earlier(o, p)
<1> DEFINE T == {p[1] : p \in S}
<1>1. T \subseteq Nat /\ T # {}
  OBVIOUS
<1>2. PICK x \in T : \A y \in T : x <= y
  <2> HIDE DEF T
  <2> QED BY <1>1, LeastNatural
<1> DEFINE U == {p[2] : p \in {o \in S : o[1] = x}}
<1>3. U \subseteq Nat /\ U # {}
  BY <1>2
<1>4. PICK z \in U : \A y \in U : z <= y
  <2> HIDE DEF U
  <2> QED BY <1>3, LeastNatural
<1>5. PICK p \in S : p[1] = x /\ p[2] = z
  BY <1>4
<1>6. ASSUME NEW o \in S PROVE ~Earlier(o, p)
  <2>1. x <= o[1] /\ o[1] \in Nat /\ o[2] \in Nat /\ x \in Nat /\ z \in Nat
    BY <1>2, <1>5
  <2>2. o[1] = x => z <= o[2]
    BY <1>4
  <2> HIDE DEF T, U
  <2> QED BY <1>5, <2>1, <2>2 DEF Earlier
<1> QED BY <1>6

\* A page shows arrivals at places found and additions of its stop, and all of either that are
\* to show, up to their route and scheduled time.
LEMMA PageShows ==
  ASSUME BoardInv, NEW q \in Queries
  PROVE  /\ \A a \in Page(q) :
              \/ \E p \in Found(q) : a = ArrivalAt(q, p)
              \/ \E b \in live.adds[q.stop] : IsAdditionToShow(b, now, q) /\ a = FromAddition(b)
         /\ \A p \in Found(q) : \E a \in Page(q) : Same(a, ArrivalAt(q, p))
         /\ \A b \in live.adds[q.stop] :
              IsAdditionToShow(b, now, q) => \E a \in Page(q) : Same(a, FromAddition(b))
<1> DEFINE IsFirst(p) == \A o \in Found(q) : Earlier(o, p) => ~Same(ArrivalAt(q, o), ArrivalAt(q, p))
           first == {p \in Found(q) : IsFirst(p)}
           kept == {ArrivalAt(q, p) : p \in first}
           additions == {FromAddition(a) : a \in {b \in live.adds[q.stop] : IsAdditionToShow(b, now, q)}}
<1>1. Page(q) = kept \cup {a \in additions : \A k \in kept : ~Same(a, k)}
  BY DEF Page, QueryArrivals, Snapshot, Found, ArrivalAt, Place
<1>2. ASSUME NEW a \in Page(q)
      PROVE  \/ \E p \in Found(q) : a = ArrivalAt(q, p)
             \/ \E b \in live.adds[q.stop] : IsAdditionToShow(b, now, q) /\ a = FromAddition(b)
  BY <1>1
<1>3. ASSUME NEW p \in Found(q) PROVE \E a \in Page(q) : Same(a, ArrivalAt(q, p))
  <2> DEFINE S == {o \in Found(q) : Same(ArrivalAt(q, o), ArrivalAt(q, p))}
  <2>1. S \subseteq Nat \X Nat
    BY PlaceIsRow DEF Found
  <2>2. p \in S
    BY DEF Same
  <2>3. PICK f \in S : \A o \in S : ~Earlier(o, f)
    <3> HIDE DEF S
    <3> QED BY <2>1, <2>2, FirstPlace
  <2>4. f \in first
    BY <2>3 DEF Same
  <2> HIDE DEF first
  <2> QED BY <1>1, <2>3, <2>4
<1>4. ASSUME NEW b \in live.adds[q.stop], IsAdditionToShow(b, now, q)
      PROVE  \E a \in Page(q) : Same(a, FromAddition(b))
  <2>1. FromAddition(b) \in additions
    BY <1>4
  <2> HIDE DEF kept, additions
  <2> QED BY <1>1, <2>1 DEF Same
<1> QED BY <1>2, <1>3, <1>4

\* What is on a page: runs that count as due, and additions of its stop.
PageCounts ==
  \A q \in Queries : \A a \in Page(q) :
    \/ \E r \in AtStop(Gtfs, q.stop), date \in Days : CountsAsDue(q, r, date) /\ a = Run(r, date)
    \/ \E b \in live.adds[q.stop] : IsAdditionToShow(b, now, q) /\ a = FromAddition(b)

\* So it is in every state of the invariant.
LEMMA PageCountsHolds == BoardInv => PageCounts
<1> SUFFICES ASSUME BoardInv, NEW q \in Queries, NEW a \in Page(q), NEW p \in Found(q), a = ArrivalAt(q, p)
             PROVE  \E r \in AtStop(Gtfs, q.stop), date \in Days : CountsAsDue(q, r, date) /\ a = Run(r, date)
  BY PageShows DEF PageCounts
<1>1. PICK r \in AtStop(Gtfs, q.stop) : Place(q, p) = EntryOf(r)
  BY PlaceIsRow DEF Found
<1>2. r.time \in Int
  BY EditionIsWellFormed DEF BoardInv, TypeOK, Gtfs, AtStop, WellFormed
<1>3. PICK date \in Days : RunTime(r, date) = ScheduledTime(now, r.time)
  BY <1>2, ScheduledOnSomeDay
<1>4. IsCandidate(Datasets[db], Snapshot, q, EntryOf(r))
  BY <1>1 DEF Found
<1>5. CountsAsDue(q, r, date) /\ a = Run(r, date)
  BY <1>1, <1>3, <1>4, CandidateCounts DEF ArrivalAt
<1> QED BY <1>5

\* A run that does not leave its service day arrives on it.
LEMMA ArrivesOnItsDay ==
  ASSUME BoardInv, NEW r, r.time \in Int, NEW date \in Days, ~OverMidnight(r)
  PROVE  Date(RunTime(r, date)) = date
<1> DEFINE x == date * Day + r.time
           y == x \div Day
           k == y - date
<1>1. Day \in Nat /\ Day # 0 /\ Date(now) \in Int
  BY ClockIs
<1>2. date \in Int
  BY <1>1 DEF Days
<1>3. r.time \in 0..(Day - 1)
  <2> DEFINE z == r.time \div Day
             w == r.time % Day
  <2>1. z = 0
    BY DEF OverMidnight
  <2>2. w \in 0..(Day - 1) /\ r.time = Day * z + w
    BY <1>1, Division
  <2> HIDE DEF z, w
  <2>3. Day * z = 0
    BY <1>1, <2>1
  <2> QED BY <1>1, <2>2, <2>3
<1>4. date * Day \in Int /\ x \in Int
  BY <1>1, <1>2
<1>5. y \in Int /\ x % Day \in 0..(Day - 1) /\ x = Day * y + (x % Day)
  <2> HIDE DEF x
  <2> QED BY <1>1, <1>4, Division
<1> DEFINE u == r.time
           v == x % Day
<1>6. u \in 0..(Day - 1) /\ v \in 0..(Day - 1) /\ date * Day + u = Day * y + v
  BY <1>3, <1>5
<1>7. Date(RunTime(r, date)) = y
  BY DEF Date, RunTime
<1> HIDE DEF x, y, u, v
<1>8. Day * k = Day * y - date * Day /\ Day * (-k) = date * Day - Day * y /\ Day * y \in Int
  BY <1>1, <1>2, <1>5
<1>9. k \in Int /\ -k \in Int
  BY <1>2, <1>5
<1>10. Day * k = u - v /\ Day * (-k) = v - u /\ u \in Int /\ v \in Int
  <2> HIDE DEF k
  <2> QED BY <1>1, <1>4, <1>6, <1>8
<1>11. -Day < Day * k /\ -Day < Day * (-k)
  <2> HIDE DEF k
  <2> QED BY <1>1, <1>6, <1>10
<1>12. k >= 0 /\ -k >= 0
  <2> HIDE DEF k
  <2> QED BY <1>1, <1>9, <1>11, NotNegative
<1>13. y = date
  BY <1>2, <1>5, <1>12
<1> QED BY <1>7, <1>13

\* Within its service day a run counts as due exactly when it is.
LEMMA CountsIfDue ==
  ASSUME BoardInv, NEW q \in Queries, NEW r \in AtStop(Gtfs, q.stop), NEW date \in Days,
         ~OverMidnight(r)
  PROVE  CountsAsDue(q, r, date) <=> IsDue(q, r, date)
<1>1. r.time \in Int
  BY EditionIsWellFormed DEF BoardInv, TypeOK, Gtfs, AtStop, WellFormed
<1>2. Date(RunTime(r, date)) = date
  BY <1>1, ArrivesOnItsDay
<1> QED BY <1>2 DEF CountsAsDue, IsDue, RunsWhenItArrives

\* In every state of the invariant the page shows nothing else than what is due, but for runs
\* over midnight.
LEMMA ShowsOnlyHolds == BoardInv => ShowsOnlyWhatIsDue
<1> SUFFICES ASSUME BoardInv, NEW q \in Queries, NEW a \in Page(q)
             PROVE  \/ \E r \in AtStop(Gtfs, q.stop), date \in Days :
                         /\ r.trip = a.trip /\ a.scheduled = RunTime(r, date)
                         /\ a.effective = Expected(r, a.scheduled)
                         /\ \/ IsDue(q, r, date)
                            \/ OverMidnight(r) /\ Comes(q, r, date) /\ RunsWhenItArrives(r, date)
                    \/ a.added /\ \E i \in DOMAIN feed :
                         /\ feed[i].kind = "entity" /\ feed[i].rel = "added"
                         /\ \E s \in Range(feed[i].stops) : a.effective = IF s.arr # 0 THEN s.arr ELSE s.dep
  BY DEF ShowsOnlyWhatIsDue
<1>1. CASE \E r \in AtStop(Gtfs, q.stop), date \in Days : CountsAsDue(q, r, date) /\ a = Run(r, date)
  <2>1. PICK r \in AtStop(Gtfs, q.stop), date \in Days : CountsAsDue(q, r, date) /\ a = Run(r, date)
    BY <1>1
  <2>2. r.trip = a.trip /\ a.scheduled = RunTime(r, date) /\ a.effective = Expected(r, a.scheduled)
    BY <2>1 DEF Run
  <2>3. ~OverMidnight(r) => IsDue(q, r, date)
    BY <2>1, CountsIfDue
  <2>4. Comes(q, r, date) /\ RunsWhenItArrives(r, date)
    BY <2>1 DEF CountsAsDue
  <2> QED BY <2>2, <2>3, <2>4
<1>2. CASE \E b \in live.adds[q.stop] : a = FromAddition(b)
  <2>1. PICK b \in live.adds[q.stop] : a = FromAddition(b)
    BY <1>2
  <2>2. a.added /\ a.effective = b.time
    BY <2>1 DEF FromAddition
  <2>3. q.stop \in StopNumbers
    BY BoardAssumption
  <2>4. PICK i \in 1..Len(feed) :
          IsOf(feed[i], "added") /\ \E s \in Range(feed[i].stops) :
            b = NewAddition(Datasets[by], feed[i].route, s) /\ TimeOf(s) # 0
    BY <2>3 DEF BoardInv, StoreIsOfFeed, AddsAre
  <2>5. DOMAIN feed = 1..Len(feed)
    BY DEF BoardInv, StoreIsOfFeed, IsFeed
  <2> QED BY <2>2, <2>4, <2>5 DEF IsOf, NewAddition, TimeOf
<1> QED BY <1>1, <1>2, PageCountsHolds DEF PageCounts

\* Every arrival shown is a run of the edition in use that is due, or an addition of the feed;
\* one of a service day that does not run is shown only over midnight, when its service runs on
\* the date of its arrival (arrivals.go:193-197).
THEOREM OnlyWhatIsDueIsShown == Spec => []ShowsOnlyWhatIsDue
<1>1. BoardInv /\ [Next]_vars => BoardInv'
  BY BoardStep
<1> QED BY <1>1, BoardInit, ShowsOnlyHolds, PTL DEF Spec

\* All that counts as due and is within the hours of the page is shown.
ShowsWhatCounts ==
  \A q \in Queries : \A r \in AtStop(Gtfs, q.stop), date \in Days :
    RunTime(r, date) \in now - LookbackHours * PerHour .. now + q.max + 2 * PerHour /\ CountsAsDue(q, r, date)
    => \E a \in Page(q) : a.route = Route(r.trip) /\ a.scheduled = RunTime(r, date)

\* In every state of the invariant the page shows all that counts as due.
LEMMA ShowsWhatCountsHolds ==
  ASSUME BoardInv, \A q \in Queries : q.max < 10 * PerHour
  PROVE  ShowsWhatCounts
<1> SUFFICES ASSUME NEW q \in Queries, NEW r \in AtStop(Gtfs, q.stop), NEW date \in Days,
                    RunTime(r, date) \in now - LookbackHours * PerHour .. now + q.max + 2 * PerHour,
                    CountsAsDue(q, r, date)
             PROVE  \E a \in Page(q) : a.route = Route(r.trip) /\ a.scheduled = RunTime(r, date)
  BY DEF ShowsWhatCounts
<1>1. r.time \in Int
  BY EditionIsWellFormed DEF BoardInv, TypeOK, Gtfs, AtStop, WellFormed
<1>2. q.max \in Nat /\ q.max < 10 * PerHour
  BY BoardAssumption
<1>3. ScheduledTime(now, r.time) = RunTime(r, date)
  BY <1>1, <1>2, ScheduledOnItsDay
<1>4. PICK k \in DOMAIN TryHours(now, q) : TryHours(now, q)[k] = HourBucket(r.time)
  BY <1>1, <1>2, HourIsTried
<1>5. PICK p \in Scanned(Datasets[db], now, q) : Place(q, p) = EntryOf(r)
  BY <1>4, RowHasPlace
<1>6. /\ IsCandidate(Datasets[db], Snapshot, q, EntryOf(r))
      /\ FromStopTime(Datasets[db], Snapshot, EntryOf(r)) = Run(r, date)
  BY <1>3, CandidateCounts
<1>7. p \in Found(q) /\ ArrivalAt(q, p) = Run(r, date)
  BY <1>5, <1>6 DEF Found, ArrivalAt
<1>8. PICK a \in Page(q) : Same(a, Run(r, date))
  BY <1>7, PageShows
<1> QED BY <1>8 DEF Same, Run

\* So all that is due is shown, but for a run over midnight whose service does not run on the
\* date of its arrival.
LEMMA ShowsHolds ==
  ASSUME BoardInv, ShowsWhatCounts
  PROVE  ShowsWhatIsDue
<1> SUFFICES ASSUME NEW q \in Queries, NEW r \in AtStop(Gtfs, q.stop), NEW date \in Days,
                    RunTime(r, date) \in now - LookbackHours * PerHour .. now + q.max + 2 * PerHour,
                    IsDue(q, r, date), OverMidnight(r) => RunsWhenItArrives(r, date)
             PROVE  \E a \in Page(q) : a.route = Route(r.trip) /\ a.scheduled = RunTime(r, date)
  BY DEF ShowsWhatIsDue
<1>1. CASE ~OverMidnight(r)
  BY <1>1, CountsIfDue DEF ShowsWhatCounts
<1>2. CASE OverMidnight(r)
  BY <1>2 DEF ShowsWhatCounts, CountsAsDue, IsDue
<1> QED BY <1>1, <1>2

\* Every run of today's and tomorrow's service day that is due is shown, by a page whose window
\* is below ten hours: with the twelve hours of the rule and the two before the schedule that a
\* bus may be, no later run is taken for one of the day before.  The runs that may be missed
\* are those over midnight whose service does not run on the date of their arrival.
THEOREM WhatIsDueIsShown ==
  ASSUME \A q \in Queries : q.max < 10 * PerHour
  PROVE  Spec => []ShowsWhatIsDue
<1>1. BoardInv /\ [Next]_vars => BoardInv'
  BY BoardStep
<1>2. BoardInv => ShowsWhatIsDue
  BY ShowsHolds, ShowsWhatCountsHolds
<1> QED BY <1>1, <1>2, BoardInit, PTL DEF Spec

\* The invariant is all that it takes: the last addition of a route is in the store, and the page
\* shows it or something of its route and time.
LEMMA LastAdditionHolds == BoardInv => LastAdditionShown
<1> SUFFICES ASSUME BoardInv, NEW q \in Queries, NEW i \in DOMAIN feed,
                    feed[i].kind = "entity", feed[i].rel = "added", NEW s \in Range(feed[i].stops),
                    TimeOf(s) # 0, q.stop \in ResolveWatchedStop(Datasets[by], s.stop),
                    \A a \in live.adds[q.stop] :
                      a.route = RouteShortName(Datasets[by], feed[i].route).name => a.time <= TimeOf(s),
                    IsAdditionToShow(NewAddition(Datasets[by], feed[i].route, s), now, q)
             PROVE  \E a \in Page(q) : a.route = RouteShortName(Datasets[by], feed[i].route).name
                                       /\ a.scheduled = TimeOf(s)
  BY DEF LastAdditionShown, TimeOf, NewAddition
<1> DEFINE new == NewAddition(Datasets[by], feed[i].route, s)
<1>1. new.route = RouteShortName(Datasets[by], feed[i].route).name /\ new.time = TimeOf(s)
  BY DEF NewAddition
<1>2. PICK t \in Nat : IsFeed(feed, t)
  BY DEF BoardInv, StoreIsOfFeed
<1>3. i \in 1..Len(feed) /\ feed[i] \in Range(feed) /\ IsOf(feed[i], "added")
  BY <1>2 DEF IsFeed, IsField, Range, IsOf
<1>4. new.time \in Int /\ q.stop \in StopNumbers
  BY <1>1, <1>2, <1>3, BoardAssumption DEF IsFeed, IsField, TimeOf
<1>5. Holds(live.adds[q.stop], new)
  BY <1>3, <1>4 DEF BoardInv, StoreIsOfFeed, AddsAre
<1>6. \A a \in live.adds[q.stop] : a.time \in Int
  <2> TAKE a \in live.adds[q.stop]
  <2>1. PICK j \in 1..Len(feed) : IsOf(feed[j], "added") /\ \E u \in Range(feed[j].stops) :
          a = NewAddition(Datasets[by], feed[j].route, u)
    BY <1>4 DEF BoardInv, StoreIsOfFeed, AddsAre
  <2>2. PICK u \in Range(feed[j].stops) : a.time = TimeOf(u)
    BY <2>1 DEF NewAddition
  <2>3. feed[j] \in Range(feed)
    BY <1>2, <2>1 DEF IsFeed, IsField, Range
  <2>4. {u.arr, u.dep} \subseteq Int
    BY <1>2, <2>1, <2>3 DEF IsFeed, IsField, IsOf
  <2> QED BY <2>2, <2>4 DEF TimeOf
<1> HIDE DEF new
<1>7. new \in live.adds[q.stop]
  <2>1. ASSUME NEW a \in live.adds[q.stop], a.route = new.route, a.time > new.time PROVE FALSE
    <3>1. a.time <= new.time
      BY <2>1, <1>1
    <3> QED BY <3>1, <2>1, <1>4, <1>6
  <2> QED BY <1>5, <2>1 DEF Holds
<1>8. IsAdditionToShow(new, now, q)
  BY DEF new
<1>9. PICK a \in Page(q) : Same(a, FromAddition(new))
  BY <1>7, <1>8, PageShows
<1>10. FromAddition(new).route = new.route /\ FromAddition(new).scheduled = new.time
  BY DEF FromAddition
<1> QED BY <1>1, <1>9, <1>10 DEF Same

\* Of the added buses of a route the last is never lost, in whatever order any feed lists
\* them (realtime_decode.go:317-331).
THEOREM LastAdditionIsShown == Spec => []LastAdditionShown
<1>1. Spec => []BoardInv
  BY BoardInit, BoardStep, PTL DEF Spec
<1> QED BY <1>1, LastAdditionHolds, PTL

-----------------------------------------------------------------------------
(***************************************************************************)
(* What time alone does to a page.                                         *)
(***************************************************************************)

\* Until midnight time alone takes no bus from the page before it comes, unless it is later
\* than the look-back or more than two hours early: the hours that are looked at move on
\* under the runs and drop none (arrivals.go:136-157, 184-191).
BusStaysTillMidnight ==
  [][UNCHANGED <<db, live, feed, by, heard>> /\ Date(now') = Date(now) =>
       \A q \in Queries : \A a \in Page(q) :
         /\ a.effective > now' /\ a.effective >= now' + q.min
         /\ a.scheduled \in now' - LookbackHours * PerHour .. a.effective + 2 * PerHour
         => \E b \in Page(q)' : Same(a, b)]_vars

\* Every addition to show is on the page, up to its route and scheduled time.
AdditionsAreShown ==
  \A q \in Queries : \A b \in live.adds[q.stop] :
    IsAdditionToShow(b, now, q) => \E a \in Page(q) : Same(a, FromAddition(b))

\* The reference's time is the query's, which depends on the delays of the store alone.
ExpectedByDelays ==
  \A r : r.seq \in Int => \A scheduled :
    Expected(r, scheduled) = RealtimeTime(live.delays, EntryOf(r), scheduled)

\* So it is in every state of the invariant.
LEMMA ExpectedByDelaysHolds == BoardInv => ExpectedByDelays
<1> SUFFICES ASSUME BoardInv, NEW r, r.seq \in Int, NEW scheduled
             PROVE  Expected(r, scheduled) = RealtimeTime(live.delays, EntryOf(r), scheduled)
  BY DEF ExpectedByDelays
<1>1. EntryOf(r).trip = r.trip /\ EntryOf(r).seq = r.seq
  BY DEF EntryOf
<1> QED BY <1>1, RealtimeIsExpected

\* A choice by the rows of an edition.
TripRowOf(zip, t) == CHOOSE r \in Range(zip.trips) : r.id = t
RouteOf(zip, t) == LET id == TripRowOf(zip, t).route IN (CHOOSE r \in Range(zip.routes) : r.id = id).short

\* A run that counts as due does so still, if nothing but the clock changes and it has not come.
LEMMA CountingStays ==
  ASSUME BoardInv, ExpectedByDelays, ExpectedByDelays', UNCHANGED <<db, live, feed, by, heard>>,
         now' \in Nat, now <= now', NEW q \in Queries, NEW r \in AtStop(Gtfs, q.stop), NEW date,
         RunTime(r, date) \in Int, Expected(r, RunTime(r, date)) \in Int,
         CountsAsDue(q, r, date), Expected(r, RunTime(r, date)) > now',
         Expected(r, RunTime(r, date)) >= now' + q.min
  PROVE  CountsAsDue(q, r, date)' /\ Route(r.trip)' = Route(r.trip)
<1> DEFINE t == r.trip
           time == RunTime(r, date)
           expected == Expected(r, time)
<1>1. Gtfs' = Gtfs
  BY DEF Gtfs
<1>2. TripRow(t) = TripRowOf(Gtfs, t) /\ Route(t) = RouteOf(Gtfs, t)
  BY DEF TripRow, Route, TripRowOf, RouteOf
<1>3. TripRow(t)' = TripRowOf(Gtfs', t) /\ Route(t)' = RouteOf(Gtfs', t)
  BY DEF TripRow, Route, TripRowOf, RouteOf
<1>4. TripRow(t)' = TripRow(t) /\ Route(t)' = Route(t)
  BY <1>1, <1>2, <1>3
<1>5. r.seq \in Int
  BY EditionIsWellFormed DEF BoardInv, TypeOK, Gtfs, AtStop, WellFormed
<1>6. Expected(r, time)' = expected
  <2>1. expected = RealtimeTime(live.delays, EntryOf(r), time)
    BY <1>5 DEF ExpectedByDelays
  <2>2. Expected(r, time)' = RealtimeTime(live.delays', EntryOf(r), time)
    BY <1>5 DEF ExpectedByDelays, RunTime, EntryOf
  <2> QED BY <2>1, <2>2
<1>7. \E u \in Range(Gtfs.trips) : u.id = t
  BY DEF CountsAsDue, Comes
<1>8. ~Cancelled(t)'
  <2>1. t \in TripIDs
    <3>1. db \in DOMAIN Editions /\ q.stop \in Filter
      BY BoardAssumption DEF BoardInv, TypeOK
    <3>2. IsTripKept(Gtfs, Filter, t)
      BY <3>1, EditionIsWellFormed, KeptTripsServe DEF Gtfs
    <3>3. t \in DOMAIN Datasets[db].trips
      BY <1>7, <3>1, <3>2, EditionIsWellFormed, TripsAre DEF Gtfs
    <3> QED BY <3>1, <3>3, EditionsAre
  <2>2. heard[t] \in Int /\ now \in Int /\ Day \in Int
    BY <2>1, TypesAre, BoundsAre DEF BoardInv
  <2>3. ~(now - heard[t] < Day)
    BY DEF CountsAsDue, Comes, Cancelled
  <2> QED BY <2>2, <2>3 DEF Cancelled
<1>9. RunsOn(TripRow(t).service, time \div Day)'
  <2>1. RunsOn(TripRow(t).service, time \div Day)
    BY DEF CountsAsDue, RunsWhenItArrives, ServiceOf, Date
  <2> HIDE DEF t, time
  <2> QED BY <1>1, <1>4, <2>1 DEF RunsOn
<1>10. Upcoming(time, expected, now', q)
  <2>1. Upcoming(time, expected, now, q)
    BY DEF CountsAsDue, Comes
  <2>2. q.max \in Nat /\ q.min \in Nat /\ now \in Nat
    BY BoardAssumption, TypesAre DEF BoardInv
  <2> HIDE DEF time, expected
  <2>3. time \in Int /\ expected \in Int /\ expected > now' /\ expected >= now' + q.min
    BY DEF time, expected
  <2> QED BY <2>1, <2>2, <2>3 DEF Upcoming
<1>11. Wanted(q, Route(t))
  BY DEF CountsAsDue, Comes
<1>12. RunTime(r, date)' = time
  BY DEF RunTime
<1>13. CountsAsDue(q, r, date)'
  <2> HIDE DEF time, expected, t
  <2> QED BY <1>1, <1>4, <1>6, <1>7, <1>8, <1>9, <1>10, <1>11, <1>12 DEF CountsAsDue, Comes, RunsWhenItArrives, ServiceOf, Date, t, time
<1> QED BY <1>4, <1>13

\* So it is in every state of the invariant.
LEMMA AdditionsAreShownHolds == BoardInv => AdditionsAreShown
  BY PageShows DEF AdditionsAreShown

\* The hours that are looked at, of a later time.
LEMMA HoursMoveOn ==
  ASSUME NEW p \in Nat, NEW m \in Nat, NEW x \in Nat, NEW y \in Nat, x <= y,
         NEW t \in Int, NEW e \in Int, t \in y - 3 * p .. e + 2 * p, e <= x + m \/ t <= x + m
  PROVE  t \in y - 3 * p .. y + m + 2 * p
  OBVIOUS

\* A run of the page that still counts as due is within the hours that are looked at.
LEMMA RunStays ==
  ASSUME BoardInv, BoardInv', ExpectedByDelays, ExpectedByDelays', ShowsWhatCounts',
         UNCHANGED <<db, live, feed, by, heard>>, now <= now', Date(now') = Date(now),
         NEW q \in Queries, NEW r \in AtStop(Gtfs, q.stop), NEW date \in Days, CountsAsDue(q, r, date),
         Expected(r, RunTime(r, date)) > now', Expected(r, RunTime(r, date)) >= now' + q.min,
         RunTime(r, date) \in
           now' - LookbackHours * PerHour .. Expected(r, RunTime(r, date)) + 2 * PerHour
  PROVE  \E b \in Page(q)' : b.route = Route(r.trip) /\ b.scheduled = RunTime(r, date)
<1> DEFINE time == RunTime(r, date)
           expected == Expected(r, time)
<1>1. now \in Nat /\ now' \in Nat
  <2>1. now \in Start..End /\ now' \in Start..End
    BY DEF BoardInv, TypeOK
  <2> QED BY <2>1, BoundsAre
<1>2. r.time \in Int /\ r.seq \in Int
  BY EditionIsWellFormed DEF BoardInv, TypeOK, Gtfs, AtStop, WellFormed
<1>3. time \in Int
  BY <1>2, ScheduledOnSomeDay, ClockIs DEF RunTime, Days
<1>4. expected \in Int
  <2>1. EntryOf(r).trip = r.trip /\ EntryOf(r).seq = r.seq
    BY DEF EntryOf
  <2> HIDE DEF time
  <2> QED BY <1>2, <1>3, <2>1, RealtimeIsExpected
<1>5. CountsAsDue(q, r, date)' /\ Route(r.trip)' = Route(r.trip)
  BY <1>1, <1>3, <1>4, CountingStays
<1>6. r \in AtStop(Gtfs, q.stop)' /\ date \in Days' /\ RunTime(r, date)' = time
  BY DEF Gtfs, AtStop, StopCode, Days, RunTime
<1>7. time \in now' - LookbackHours * PerHour .. now' + q.max + 2 * PerHour
  <2>1. PerHour \in Nat /\ q.max \in Nat
    BY BoardAssumption, PerHourAssumption
  <2>2. expected <= now + q.max \/ time <= now + q.max
    BY DEF CountsAsDue, Comes, Upcoming
  <2> HIDE DEF time, expected
  <2>3. time \in now' - 3 * PerHour .. expected + 2 * PerHour
    BY DEF time, expected, LookbackHours
  <2>4. time \in now' - 3 * PerHour .. now' + q.max + 2 * PerHour
    BY <1>1, <1>3, <1>4, <2>1, <2>2, <2>3, HoursMoveOn
  <2> QED BY <2>4 DEF LookbackHours
<1>8. \E a \in Page(q)' : a.route = Route(r.trip)' /\ a.scheduled = RunTime(r, date)'
  <2> HIDE DEF time
  <2> QED BY <1>5, <1>6, <1>7 DEF ShowsWhatCounts
<1> QED BY <1>5, <1>6, <1>8

\* An addition of the page that is still to come is one to show.
LEMMA AdditionStays ==
  ASSUME BoardInv, BoardInv', AdditionsAreShown', UNCHANGED live, now <= now',
         NEW q \in Queries, NEW b \in live.adds[q.stop], IsAdditionToShow(b, now, q),
         b.time > now', b.time >= now' + q.min
  PROVE  \E a \in Page(q)' : Same(FromAddition(b), a)
<1>1. now \in Nat /\ now' \in Nat
  <2>1. now \in Start..End /\ now' \in Start..End
    BY DEF BoardInv, TypeOK
  <2> QED BY <2>1, BoundsAre
<1>2. q.max \in Nat
  BY BoardAssumption
<1>3. b.time \in now .. (now + q.max)
  BY DEF IsAdditionToShow
<1>4. b.time \in now' .. (now' + q.max)
  BY <1>1, <1>2, <1>3
<1>5. IsAdditionToShow(b, now', q)
  BY <1>4 DEF IsAdditionToShow
<1>6. PICK a \in Page(q)' : Same(a, FromAddition(b))
  BY <1>5 DEF AdditionsAreShown, Same, FromAddition
<1> QED BY <1>6 DEF Same

\* A step of time alone takes no such bus from a page.
LEMMA BusStays ==
  ASSUME BoardInv, BoardInv', PageCounts, ExpectedByDelays, ExpectedByDelays', ShowsWhatCounts',
         AdditionsAreShown', [Next]_vars, UNCHANGED <<db, live, feed, by, heard>>,
         Date(now') = Date(now), NEW q \in Queries, NEW a \in Page(q),
         a.effective > now', a.effective >= now' + q.min,
         a.scheduled \in now' - LookbackHours * PerHour .. a.effective + 2 * PerHour
  PROVE  \E b \in Page(q)' : Same(a, b)
<1>1. now <= now'
  <2>1. now \in Nat
    BY TypesAre DEF BoardInv
  <2> QED BY <2>1 DEF Next, vars, PollBegins, PollEnds, Refresh, Tick
<1>2. CASE \E r \in AtStop(Gtfs, q.stop), date \in Days : CountsAsDue(q, r, date) /\ a = Run(r, date)
  <2>1. PICK r \in AtStop(Gtfs, q.stop), date \in Days : CountsAsDue(q, r, date) /\ a = Run(r, date)
    BY <1>2
  <2>2. /\ a.route = Route(r.trip) /\ a.scheduled = RunTime(r, date)
        /\ a.effective = Expected(r, RunTime(r, date))
    BY <2>1 DEF Run
  <2>3. \E b \in Page(q)' : b.route = Route(r.trip) /\ b.scheduled = RunTime(r, date)
    BY <1>1, <2>1, <2>2, RunStays
  <2> QED BY <2>2, <2>3 DEF Same
<1>3. CASE \E b \in live.adds[q.stop] : IsAdditionToShow(b, now, q) /\ a = FromAddition(b)
  <2>1. PICK b \in live.adds[q.stop] : IsAdditionToShow(b, now, q) /\ a = FromAddition(b)
    BY <1>3
  <2>2. a.effective = b.time
    BY <2>1 DEF FromAddition
  <2> QED BY <1>1, <2>1, <2>2, AdditionStays
<1> QED BY <1>2, <1>3 DEF PageCounts

\* Until midnight no bus vanishes from a page whose window is below ten hours while no feed and
\* no new edition says otherwise, unless it is later than the look-back or more than two hours
\* early: the counterexample to NoBusVanishes needs the change of the date.
THEOREM BusesStayTillMidnight ==
  ASSUME \A q \in Queries : q.max < 10 * PerHour
  PROVE  Spec => BusStaysTillMidnight
<1> DEFINE Shown == PageCounts /\ ExpectedByDelays /\ ShowsWhatCounts /\ AdditionsAreShown
           Stays == UNCHANGED <<db, live, feed, by, heard>> /\ Date(now') = Date(now) =>
             \A q \in Queries : \A a \in Page(q) :
               /\ a.effective > now' /\ a.effective >= now' + q.min
               /\ a.scheduled \in now' - LookbackHours * PerHour .. a.effective + 2 * PerHour
               => \E b \in Page(q)' : Same(a, b)
<1>1. BoardInv /\ [Next]_vars => BoardInv'
  BY BoardStep
<1>2. BoardInv => Shown
  BY PageCountsHolds, ExpectedByDelaysHolds, ShowsWhatCountsHolds, AdditionsAreShownHolds
<1>3. BoardInv /\ BoardInv' /\ Shown /\ Shown' /\ [Next]_vars => Stays
  BY BusStays
<1>4. Spec => [][Stays]_vars
  <2> HIDE DEF Shown, Stays
  <2> QED BY <1>1, <1>2, <1>3, BoardInit, PTL DEF Spec
<1> QED BY <1>4 DEF BusStaysTillMidnight

=============================================================================

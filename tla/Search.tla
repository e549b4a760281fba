------------------------------- MODULE Search -------------------------------
(***************************************************************************)
(* The itinerary search (src/internal/search): a depth-first walk over the *)
(* segments with a free seat on the date, on a copy of the rides that the  *)
(* store makes under its read lock.  A query is a record                   *)
(*                                                                         *)
(*   [from, to, date, transfers, results]                                  *)
(*                                                                         *)
(* whose last two fields are the limits MAX_TRANSFERS and MAX_RESULTS.     *)
(* The copy lists the rides in the order of a map iteration, which Go      *)
(* leaves open: it is the parameter order, a sequence of ride ids.         *)
(***************************************************************************)
EXTENDS Domain, FiniteSetsExt

CONSTANT Rank  \* the order of ride ids and cities as strings: a map to numbers

\* Strings are comparable, and only one is equal to a string.
RanksApart(S) == \A x \in S : Rank[x] \in Int /\ \A y \in S : Rank[x] = Rank[y] => x = y

Ranked(rd) ==
  /\ RanksApart(DOMAIN rd)
  /\ \A r \in DOMAIN rd : RanksApart({rd[r].cities[i] : i \in DOMAIN rd[r].cities})

\* The ways to list a set of rides.
Orders(S) ==
  {f \in [1 .. Cardinality(S) -> S] : \A i, j \in DOMAIN f : f[i] = f[j] => i = j}

\* A step of the walk is one segment of a ride.
Steps(rd) == [ride : DOMAIN rd, seg : Nat]

Paths(rd) == Seq(Steps(rd))

EndOf(rd, step) == rd[step.ride].cities[step.seg + 1]

\* Mutant: full segments are edges.
IsEdgeFull(rd, date, r, s) ==
  rd[r].status = "ACTIVE" /\ rd[r].date = date /\ s \in DOMAIN rd[r].avail

\* Mutant: rides of other days are edges.
IsEdgeAnyDay(rd, date, r, s) ==
  rd[r].status = "ACTIVE" /\ s \in DOMAIN rd[r].avail /\ rd[r].avail[s] >= 1

\* Segment s of ride r is an edge of the graph.
IsEdge(rd, date, r, s) ==
  /\ rd[r].status = "ACTIVE"
  /\ rd[r].date = date
  /\ s \in DOMAIN rd[r].avail
  /\ rd[r].avail[s] >= 1

\* How often the ride has changed by step k of the path.
Changes(path, k) == Cardinality({j \in 2 .. k : path[j].ride # path[j - 1].ride})

transfersOf(path) == Changes(path, Len(path))

\* The city a path has led to.
Here(rd, query, path) == IF path = << >> THEN query.from ELSE EndOf(rd, path[Len(path)])

\* Mutant: only the city the passenger stands in counts as visited.
VisitedLast(rd, query, path) == {Here(rd, query, path)}

\* The cities of the current path, the start among them.
Visited(rd, query, path) ==
  {query.from} \cup {EndOf(rd, path[k]) : k \in DOMAIN path}

\* The path that goes on with ride r.
Onward(rd, query, path, r) ==
  Append(path, [ride |-> r, seg |-> CityIndex(rd[r].cities, Here(rd, query, path))])

\* Ride r has an edge out of the city the path has led to, the walk has not
\* been where it leads, and the transfers are not too many.
CanFollow(rd, query, path, r) ==
  LET longer == Onward(rd, query, path, r)
  IN  /\ IsEdge(rd, query.date, r, longer[Len(longer)].seg)
      /\ Here(rd, query, longer) \notin Visited(rd, query, path)
      /\ transfersOf(longer) <= query.transfers

\* Mutant: the walk stops at the number asked for.
CutOffEarly(query) == query.results

\* The walk stops once it holds four times as many paths as are asked for.
CutOff(query) == 4 * query.results

\* The loop of a call that has come along path, from place j of the order on:
\* walk is called for the ride there, if it can be followed.
Loop(walk, rd, order, query, path) ==
  LET rest[j \in 1 .. (Len(order) + 1)] ==
        [found \in Seq(Paths(rd)) |->
           IF j > Len(order) THEN found
           ELSE rest[j + 1][IF CanFollow(rd, query, path, order[j])
                            THEN walk[Onward(rd, query, path, order[j])][found]
                            ELSE found]]
  IN  rest

\* The closure walk: a call along path takes the paths found so far to those
\* found when it ends.
WalkOf(rd, order, query) ==
  LET walk[path \in Paths(rd)] ==
        [found \in Seq(Paths(rd)) |->
           IF Len(found) >= CutOff(query) THEN found
           ELSE IF path # << >> /\ Here(rd, query, path) = query.to THEN Append(found, path)
           ELSE Loop(walk, rd, order, query, path)[1][found]]
  IN  walk

\* What walk finds: the paths to query.to, in the order of the walk.
Walk(rd, order, query) == WalkOf(rd, order, query)[<< >>][<< >>]

\* The sum of the numbers f has for the members of S.
SumOver(f, S) == MapThenSumSet(LAMBDA x : f[x], S)

\* What a set of segments of a ride costs.
PriceOf(rd, r, segs) == SumOver(rd[r].prices, segs)

\* What legs cost together.
TotalOf(rd, legs) ==
  SumOver([k \in DOMAIN legs |-> PriceOf(rd, legs[k].ride, legs[k].segs)], DOMAIN legs)

\* The steps of the path that make leg n: those of one ride in a row.
LegSteps(path, n) == {k \in DOMAIN path : Changes(path, k) = n - 1}

\* Mutant: a leg that is continued keeps its first destination.
LegFirstStop(rd, path, n) ==
  LET first == path[First(LegSteps(path, n))]
  IN  [ride |-> first.ride, segs |-> {path[k].seg : k \in LegSteps(path, n)},
       origin |-> rd[first.ride].cities[first.seg], destination |-> EndOf(rd, first)]

\* They become one leg, from the origin of the first to the end of the last.
LegOf(rd, path, n) ==
  LET first == path[First(LegSteps(path, n))]
      last == path[Final(LegSteps(path, n))]
  IN  [ride |-> first.ride, segs |-> {path[k].seg : k \in LegSteps(path, n)},
       origin |-> rd[first.ride].cities[first.seg], destination |-> EndOf(rd, last)]

\* Consecutive segments of one ride become one leg; prices add up.
buildItinerary(rd, path) ==
  LET legs == [n \in 1 .. (transfersOf(path) + 1) |-> LegOf(rd, path, n)]
  IN  [legs |-> legs, transfers |-> transfersOf(path), total |-> TotalOf(rd, legs)]

\* itineraryKey, as far as it decides: two itineraries of as many legs differ
\* first in a ride, or in where one and the same ride is left.
KeyLess(rd, x, y) ==
  \E k \in DOMAIN x.legs :
    /\ \A j \in 1 .. (k - 1) : x.legs[j] = y.legs[j]
    /\ \/ Rank[x.legs[k].ride] < Rank[y.legs[k].ride]
       \/ /\ x.legs[k].ride = y.legs[k].ride
          /\ Rank[x.legs[k].destination] < Rank[y.legs[k].destination]

\* Mutant: transfers before price.
BetterFewerTransfers(rd, x, y) ==
  \/ x.transfers < y.transfers
  \/ x.transfers = y.transfers /\ x.total < y.total
  \/ x.total = y.total /\ x.transfers = y.transfers /\ KeyLess(rd, x, y)

\* Cheapest first, then the fewest transfers, then the key.
Better(rd, x, y) ==
  \/ x.total < y.total
  \/ x.total = y.total /\ x.transfers < y.transfers
  \/ x.total = y.total /\ x.transfers = y.transfers /\ KeyLess(rd, x, y)

\* The itineraries in order: there is room before place k for those that are
\* better than the one there, and place k is within those that are not worse.
Sorted(rd, its) ==
  [k \in DOMAIN its |->
     CHOOSE it \in {its[m] : m \in DOMAIN its} :
       /\ Cardinality({m \in DOMAIN its : Better(rd, its[m], it)}) < k
       /\ k <= Cardinality({m \in DOMAIN its : ~Better(rd, it, its[m])})]

\* Search: what the passenger is answered, best first.
Search(rd, order, query) ==
  LET paths == IF query.from = query.to THEN << >> ELSE Walk(rd, order, query)
      sorted == Sorted(rd, [k \in DOMAIN paths |-> buildItinerary(rd, paths[k])])
  IN  [k \in 1 .. (IF Len(sorted) > query.results THEN query.results ELSE Len(sorted))
         |-> sorted[k]]

-----------------------------------------------------------------------------
(***************************************************************************)
(* What there is to find.  Journeys defines, leg by leg and without a      *)
(* walk, what a passenger can book: hops, each a ride boarded at stop i of *)
(* its route and left at stop j.                                           *)
(***************************************************************************)
\* The store keeps routes of distinct cities with one counter for a segment.
Route(ride) ==
  /\ Len(ride.cities) \in Nat /\ DOMAIN ride.cities = 1 .. Len(ride.cities)
  /\ \A i, j \in DOMAIN ride.cities : ride.cities[i] = ride.cities[j] => i = j
  /\ DOMAIN ride.avail = 1 .. (Len(ride.cities) - 1)
  /\ \A s \in DOMAIN ride.avail : ride.avail[s] \in Int /\ ride.prices[s] \in Nat

Hops(rd, query) ==
  {h \in UNION {[ride : {r}, i : DOMAIN rd[r].cities, j : DOMAIN rd[r].cities] :
                  r \in DOMAIN rd} :
     /\ h.i < h.j
     /\ rd[h.ride].status = "ACTIVE"
     /\ rd[h.ride].date = query.date
     /\ \A s \in h.i .. (h.j - 1) : rd[h.ride].avail[s] > 0}

City(rd, hop, i) == rd[hop.ride].cities[i]

Passed(rd, hop) == {City(rd, hop, i) : i \in hop.i .. hop.j}

\* Hops that connect, change the car each time and pass no city twice.
Journeys(rd, query) ==
  {jn \in UNION {[1 .. n -> Hops(rd, query)] : n \in 1 .. (query.transfers + 1)} :
     /\ City(rd, jn[1], jn[1].i) = query.from
     /\ City(rd, jn[Len(jn)], jn[Len(jn)].j) = query.to
     /\ \A k \in 2 .. Len(jn) :
          /\ jn[k].ride # jn[k - 1].ride
          /\ City(rd, jn[k], jn[k].i) = City(rd, jn[k - 1], jn[k - 1].j)
     /\ \A k, l \in 1 .. Len(jn) : k < l =>
          Passed(rd, jn[k]) \cap Passed(rd, jn[l]) \subseteq
            IF l = k + 1 THEN {City(rd, jn[l], jn[l].i)} ELSE {}}

Cost(rd, jn) ==
  SumOver([k \in DOMAIN jn |-> SumOver(rd[jn[k].ride].prices, jn[k].i .. (jn[k].j - 1))],
          DOMAIN jn)

\* Itinerary it is what an answer shows for journey jn.
Shows(rd, it, jn) ==
  /\ it.legs = [k \in DOMAIN jn |->
                  [ride |-> jn[k].ride, segs |-> jn[k].i .. (jn[k].j - 1),
                   origin |-> City(rd, jn[k], jn[k].i),
                   destination |-> City(rd, jn[k], jn[k].j)]]
  /\ it.total = Cost(rd, jn)
  /\ it.transfers = Len(jn) - 1
=============================================================================

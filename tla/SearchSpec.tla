----------------------------- MODULE SearchSpec -----------------------------
(***************************************************************************)
(* One SEARCH_ITINERARIES request against any copy of the rides, call by   *)
(* call of the closure walk, and what its answer is worth: it is compared  *)
(* with the journeys there are.                                            *)
(*                                                                         *)
(* path is the path of the innermost open call of walk, and next holds,    *)
(* from the outermost call on, which ride of the order its loop looks at   *)
(* next.                                                                   *)
(***************************************************************************)
EXTENDS Search

CONSTANTS
  Snapshots, \* the copies SnapshotRides may return: maps from ride ids to rides
  Queries    \* the requests, with the limits of the server

ASSUME SnapshotsType ==
  \A rd \in Snapshots : IsFiniteSet(DOMAIN rd) /\ \A r \in DOMAIN rd : Route(rd[r])

ASSUME QueriesType ==
  \A q \in Queries : q.transfers \in Nat /\ q.results \in Nat

ASSUME RanksType == \A rd \in Snapshots : Ranked(rd)

VARIABLES
  rides,  \* the copy of the rides
  query,  \* the request
  order,  \* the rides as the copy lists them
  path,   \* the path walked so far
  next,   \* for every open call of walk, where in the order it goes on
  found,  \* the paths found so far
  best,   \* the itineraries of some of them, sorted
  answer  \* << >> before the answer, then <<the itineraries>>

request == <<rides, query, order>>

vars == <<request, path, next, found, best, answer>>

\* opSearch: the order of the copy is anyone's guess.  A search for the city
\* one is in does not walk.
Init ==
  /\ rides \in Snapshots
  /\ query \in Queries
  /\ order \in Orders(DOMAIN rides)
  /\ path = << >>
  /\ next = IF query.from = query.to THEN << >> ELSE <<1>>
  /\ found = << >>
  /\ best = << >>
  /\ answer = << >>

\* Mutant: one path more.
FullLate == Len(found) > CutOff(query)

Full == Len(found) >= CutOff(query)

\* Where in the order the innermost loop finds rides to go on with.
Ahead ==
  {j \in next[Len(next)] .. Len(order) : CanFollow(rides, query, path, order[j])}

\* The next call of the innermost loop, and the loop behind it.
Longer == Onward(rides, query, path, order[First(Ahead)])

Behind == [next EXCEPT ![Len(next)] = First(Ahead) + 1]

\* A call that has arrived returns at once, with one more path found.
Arrive ==
  /\ next # << >> /\ ~Full /\ Ahead # {}
  /\ Here(rides, query, Longer) = query.to
  /\ found' = Append(found, Longer)
  /\ next' = Behind
  /\ UNCHANGED <<request, path, best, answer>>

\* Any other call starts a loop of its own.
Descend ==
  /\ next # << >> /\ ~Full /\ Ahead # {}
  /\ Here(rides, query, Longer) # query.to
  /\ path' = Longer
  /\ next' = Append(Behind, 1)
  /\ UNCHANGED <<request, found, best, answer>>

\* The innermost loop ends; once enough is found every call returns at once.
Return ==
  /\ next # << >> /\ (Full \/ Ahead = {})
  /\ next' = SubSeq(next, 1, Len(next) - 1)
  /\ path' = SubSeq(path, 1, Len(path) - 1)
  /\ UNCHANGED <<request, found, best, answer>>

\* Before the first itinerary that is worse.
PlaceOf(it) ==
  LET worse == {k \in DOMAIN best : Better(rides, it, best[k])}
  IN  IF worse = {} THEN Len(best) + 1 ELSE First(worse)

\* The sort, itinerary by itinerary.
Sort ==
  /\ next = << >> /\ Len(best) < Len(found)
  /\ LET it == buildItinerary(rides, found[Len(best) + 1])
     IN  best' = [k \in 1 .. (Len(best) + 1) |->
                    IF k < PlaceOf(it) THEN best[k]
                    ELSE IF k = PlaceOf(it) THEN it ELSE best[k - 1]]
  /\ UNCHANGED <<request, path, next, found, answer>>

\* No more than was asked for.
Answer ==
  /\ next = << >> /\ Len(best) = Len(found) /\ answer = << >>
  /\ answer' = <<[k \in 1 .. (IF Len(best) > query.results THEN query.results ELSE Len(best))
                    |-> best[k]]>>
  /\ UNCHANGED <<request, path, next, found, best>>

Next == Arrive \/ Descend \/ Return \/ Sort \/ Answer

Spec == Init /\ [][Next]_vars

-----------------------------------------------------------------------------
Answered == answer # << >>

Shown == answer[1]

\* Every itinerary of an answer is a journey a passenger can make with the
\* seats that were free, at the price shown, and none is shown twice.
RealJourneys ==
  Answered => /\ \A n \in DOMAIN Shown :
                   \E jn \in Journeys(rides, query) : Shows(rides, Shown[n], jn)
              /\ \A m, n \in DOMAIN Shown : m # n => Shown[m] # Shown[n]

\* The walk in steps answers what the function of Search answers, which Trip
\* takes for it.
SameAsSearch == Answered => Shown = Search(rides, order, query)

\* Documented order of an answer: price, then transfers.
CheapestFirst ==
  Answered => \A m, n \in DOMAIN Shown : m < n =>
    \/ Shown[m].total < Shown[n].total
    \/ /\ Shown[m].total = Shown[n].total
       /\ Shown[m].transfers <= Shown[n].transfers

\* An answer is as long as it can be, and unless the walk was cut off no
\* journey left out is cheaper than one that is shown.
NothingBetterLeftOut ==
  Answered =>
    LET all == Cardinality(Journeys(rides, query))
    IN  /\ Len(Shown) = IF all < query.results THEN all ELSE query.results
        /\ all <= 4 * query.results =>
             \A jn \in Journeys(rides, query) :
               (\A n \in DOMAIN Shown : ~Shows(rides, Shown[n], jn)) =>
                 \A n \in DOMAIN Shown : Shown[n].total <= Cost(rides, jn)
=============================================================================

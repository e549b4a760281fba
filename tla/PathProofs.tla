---------------------------- MODULE PathProofs -----------------------------
(***************************************************************************)
(* Proofs about the operators of Search for all copies of the rides,       *)
(* requests and orders: paths of the graph, the legs and prices they make, *)
(* and what the search answers.                                            *)
(***************************************************************************)
EXTENDS Search, DomainProofs

-----------------------------------------------------------------------------
(***************************************************************************)
(* Paths.  What the walk keeps true of the path it is on, in the words of  *)
(* the graph and without a walk.                                           *)
(***************************************************************************)
Routes(rd) == IsFiniteSet(DOMAIN rd) /\ \A r \in DOMAIN rd : Route(rd[r])

\* The city after k steps of path P.
At(rd, q, P, k) == IF k = 0 THEN q.from ELSE EndOf(rd, P[k])

\* A path of edges that connect and never come to a city twice.
Walkable(rd, q, P) ==
  /\ P \in Seq(Steps(rd))
  /\ \A k \in 1 .. Len(P) :
       /\ IsEdge(rd, q.date, P[k].ride, P[k].seg)
       /\ rd[P[k].ride].cities[P[k].seg] = At(rd, q, P, k - 1)
  /\ \A j, k \in 0 .. Len(P) : At(rd, q, P, j) = At(rd, q, P, k) => j = k
  /\ transfersOf(P) <= q.transfers

\* A walkable path to where the request wants to go.
Arrives(rd, q, P) ==
  Walkable(rd, q, P) /\ P # << >> /\ At(rd, q, P, Len(P)) = q.to

\* An edge joins two stops of its ride.
LEMMA EdgeStops ==
  ASSUME NEW rd, Routes(rd), NEW r \in DOMAIN rd, NEW date, NEW s, IsEdge(rd, date, r, s)
  PROVE  /\ s \in Nat
         /\ Len(rd[r].cities) \in Nat
         /\ DOMAIN rd[r].cities = 1 .. Len(rd[r].cities)
         /\ s \in DOMAIN rd[r].cities
         /\ s + 1 \in DOMAIN rd[r].cities
<1>1. Route(rd[r])
  BY DEF Routes
<1>2. s \in 1 .. (Len(rd[r].cities) - 1)
  BY <1>1 DEF IsEdge, Route
<1> QED
  BY <1>1, <1>2 DEF Route

\* A stop of a ride is at its index, because a route has no city twice.
LEMMA StopIndex ==
  ASSUME NEW rd, Routes(rd), NEW r \in DOMAIN rd, NEW i \in DOMAIN rd[r].cities
  PROVE  CityIndex(rd[r].cities, rd[r].cities[i]) = i
<1> DEFINE cities == rd[r].cities
<1>1. Route(rd[r])
  BY DEF Routes
<1>2. /\ DOMAIN cities = 1 .. Len(cities)
      /\ Len(cities) \in Nat
      /\ \A j \in DOMAIN cities : cities[j] = cities[i] => j = i
  BY <1>1 DEF Route
<1>3. \A j \in 1 .. (i - 1) : cities[j] # cities[i]
  BY <1>2
<1> HIDE DEF cities
<1> QED
  BY <1>2, <1>3 DEF CityIndex, cities

\* Two stops of a ride with one name are one.
LEMMA SameStop ==
  ASSUME NEW rd, Routes(rd), NEW r \in DOMAIN rd,
         NEW i \in DOMAIN rd[r].cities, NEW j \in DOMAIN rd[r].cities,
         rd[r].cities[i] = rd[r].cities[j]
  PROVE  i = j
BY DEF Routes, Route

\* How often a path has changed its ride is a natural number.
LEMMA ChangesType ==
  ASSUME NEW P, NEW k \in Nat
  PROVE  /\ Changes(P, k) \in Nat
         /\ IsFiniteSet({j \in 2 .. k : P[j].ride # P[j - 1].ride})
<1> DEFINE C == {j \in 2 .. k : P[j].ride # P[j - 1].ride}
<1>1. IsFiniteSet(2 .. k)
  BY FS_Interval
<1>2. IsFiniteSet(C)
  BY <1>1, FS_Subset
<1> QED
  BY <1>2, FS_CardinalityType DEF Changes

\* The first step changes nothing.
LEMMA NoChangeYet ==
  ASSUME NEW P
  PROVE  Changes(P, 0) = 0 /\ Changes(P, 1) = 0
<1>1. /\ {j \in 2 .. 0 : P[j].ride # P[j - 1].ride} = {}
      /\ {j \in 2 .. 1 : P[j].ride # P[j - 1].ride} = {}
  OBVIOUS
<1> QED
  BY <1>1, FS_EmptySet DEF Changes

\* It depends on the steps up to k only.
LEMMA ChangesSame ==
  ASSUME NEW P, NEW Q, NEW k \in Nat, \A i \in 1 .. k : P[i] = Q[i]
  PROVE  Changes(P, k) = Changes(Q, k)
<1>1. {j \in 2 .. k : P[j].ride # P[j - 1].ride} = {j \in 2 .. k : Q[j].ride # Q[j - 1].ride}
  <2>1. \A j \in 2 .. k : j \in 1 .. k /\ j - 1 \in 1 .. k
    OBVIOUS
  <2> QED
    BY <2>1
<1> QED
  BY <1>1 DEF Changes

\* A step adds one to it, or nothing.
LEMMA ChangesStep ==
  ASSUME NEW P, NEW k \in Nat, k >= 1
  PROVE  Changes(P, k + 1) =
           Changes(P, k) + (IF P[k + 1].ride # P[k].ride THEN 1 ELSE 0)
<1> DEFINE C(n) == {j \in 2 .. n : P[j].ride # P[j - 1].ride}
<1>1. IsFiniteSet(C(k)) /\ Cardinality(C(k)) \in Nat
  BY ChangesType DEF Changes
<1>2. CASE P[k + 1].ride # P[k].ride
  <2>1. C(k + 1) = C(k) \cup {k + 1}
    BY <1>2
  <2>2. k + 1 \notin C(k)
    OBVIOUS
  <2>3. Cardinality(C(k) \cup {k + 1}) = Cardinality(C(k)) + 1
    BY <1>1, <2>2, FS_AddElement
  <2> QED
    BY <1>2, <2>1, <2>3 DEF Changes
<1>3. CASE P[k + 1].ride = P[k].ride
  <2>1. C(k + 1) = C(k)
    BY <1>3
  <2>2. Cardinality(C(k + 1)) = Cardinality(C(k)) + 0
    BY <1>1, <2>1
  <2> QED
    BY <1>3, <2>2 DEF Changes
<1> QED
  BY <1>2, <1>3

\* It never goes back.
LEMMA ChangesGrow ==
  ASSUME NEW P, NEW k \in Nat, NEW j \in 0 .. k
  PROVE  Changes(P, j) <= Changes(P, k)
<1>1. IsFiniteSet({i \in 2 .. k : P[i].ride # P[i - 1].ride})
  BY ChangesType
<1>2. {i \in 2 .. j : P[i].ride # P[i - 1].ride}
        \in SUBSET {i \in 2 .. k : P[i].ride # P[i - 1].ride}
  OBVIOUS
<1> QED
  BY <1>1, <1>2, FS_Subset DEF Changes

\* The cities of a path, and where it has led.
LEMMA CitiesPassed ==
  ASSUME NEW rd, NEW q, NEW P \in Seq(Steps(rd))
  PROVE  /\ Here(rd, q, P) = At(rd, q, P, Len(P))
         /\ Visited(rd, q, P) = {At(rd, q, P, k) : k \in 0 .. Len(P)}
<1>1. Len(P) \in Nat /\ DOMAIN P = 1 .. Len(P)
  BY LenProperties
<1>2. P = << >> <=> Len(P) = 0
  BY EmptySeq
<1>3. Here(rd, q, P) = At(rd, q, P, Len(P))
  BY <1>1, <1>2 DEF Here, At
<1>4. \A k \in 1 .. Len(P) : At(rd, q, P, k) = EndOf(rd, P[k])
  BY DEF At
<1>5. At(rd, q, P, 0) = q.from
  BY DEF At
<1>6. 0 .. Len(P) = {0} \cup (1 .. Len(P))
  BY <1>1
<1>7. ASSUME NEW c PROVE c \in Visited(rd, q, P) <=> \E k \in 0 .. Len(P) : c = At(rd, q, P, k)
  BY <1>1, <1>4, <1>5, <1>6 DEF Visited
<1> QED
  BY <1>3, <1>7

\* The path that goes on for a step.
LEMMA OneStepMore ==
  ASSUME NEW rd, NEW q, NEW P \in Seq(Steps(rd)), NEW x \in Steps(rd)
  PROVE  LET Q == Append(P, x)
         IN  /\ Q \in Seq(Steps(rd))
             /\ Q # << >>
             /\ Len(Q) = Len(P) + 1
             /\ \A k \in 1 .. Len(P) : Q[k] = P[k]
             /\ Q[Len(P) + 1] = x
             /\ \A k \in 0 .. Len(P) : At(rd, q, Q, k) = At(rd, q, P, k)
             /\ At(rd, q, Q, Len(P) + 1) = EndOf(rd, x)
<1> DEFINE Q == Append(P, x)
<1>1. Len(P) \in Nat
  BY LenProperties
<1>2. /\ Q \in Seq(Steps(rd))
      /\ Len(Q) = Len(P) + 1
      /\ \A k \in 1 .. Len(P) : Q[k] = P[k]
      /\ Q[Len(P) + 1] = x
  BY AppendProperties
<1>3. Q # << >>
  BY <1>1, <1>2, EmptySeq
<1> HIDE DEF Q
<1>4. \A k \in 0 .. Len(P) : At(rd, q, Q, k) = At(rd, q, P, k)
  BY <1>1, <1>2 DEF At
<1>5. At(rd, q, Q, Len(P) + 1) = EndOf(rd, x)
  BY <1>1, <1>2 DEF At
<1> QED
  BY <1>2, <1>3, <1>4, <1>5 DEF Q

\* Following an edge keeps a path walkable.
LEMMA FollowingWalks ==
  ASSUME NEW rd, Routes(rd), NEW q, q.transfers \in Nat, NEW P, Walkable(rd, q, P),
         NEW r \in DOMAIN rd, CanFollow(rd, q, P, r)
  PROVE  LET Q == Onward(rd, q, P, r)
         IN  /\ Walkable(rd, q, Q)
             /\ Len(Q) = Len(P) + 1
             /\ Q[Len(Q)].ride = r
             /\ \A k \in 1 .. Len(P) : Q[k] = P[k]
             /\ \A k \in 0 .. Len(P) : At(rd, q, Q, k) = At(rd, q, P, k)
             /\ Here(rd, q, Q) = At(rd, q, Q, Len(Q))
<1> DEFINE s == CityIndex(rd[r].cities, Here(rd, q, P))
           x == [ride |-> r, seg |-> s]
           Q == Append(P, x)
<1>1. P \in Seq(Steps(rd)) /\ Len(P) \in Nat
  BY LenProperties DEF Walkable
<1>2. Onward(rd, q, P, r) = Q
  BY DEF Onward
<1>3. Route(rd[r])
  BY DEF Routes
<1>4. s \in Nat /\ (s > 0 => rd[r].cities[s] = Here(rd, q, P))
  BY <1>3, CityIndexFacts DEF Route
<1>5. x \in Steps(rd) /\ x.ride = r /\ x.seg = s
  BY <1>4 DEF Steps
<1> HIDE DEF x, s, Q
<1>6. /\ Q \in Seq(Steps(rd))
      /\ Q # << >>
      /\ Len(Q) = Len(P) + 1
      /\ \A k \in 1 .. Len(P) : Q[k] = P[k]
      /\ Q[Len(P) + 1] = x
      /\ \A k \in 0 .. Len(P) : At(rd, q, Q, k) = At(rd, q, P, k)
  BY <1>1, <1>5, OneStepMore DEF Q
<1>7. /\ IsEdge(rd, q.date, r, s)
      /\ Here(rd, q, Q) \notin Visited(rd, q, P)
      /\ transfersOf(Q) <= q.transfers
  BY <1>2, <1>5, <1>6 DEF CanFollow
<1>8. s > 0
  BY <1>7, EdgeStops, <1>3 DEF IsEdge, Route
<1>9. /\ Here(rd, q, P) = At(rd, q, P, Len(P))
      /\ Here(rd, q, Q) = At(rd, q, Q, Len(Q))
      /\ Visited(rd, q, P) = {At(rd, q, P, k) : k \in 0 .. Len(P)}
  BY <1>1, <1>6, CitiesPassed
<1>10. ASSUME NEW k \in 1 .. Len(Q)
       PROVE  /\ IsEdge(rd, q.date, Q[k].ride, Q[k].seg)
              /\ rd[Q[k].ride].cities[Q[k].seg] = At(rd, q, Q, k - 1)
  <2>1. CASE k \in 1 .. Len(P)
    <3>1. k - 1 \in 0 .. Len(P)
      BY <1>1, <2>1
    <3> QED
      BY <1>6, <2>1, <3>1 DEF Walkable
  <2>2. CASE k = Len(P) + 1
    BY <1>1, <1>4, <1>5, <1>6, <1>7, <1>8, <1>9, <2>2
  <2> QED
    BY <1>1, <1>6, <2>1, <2>2
<1>11. ASSUME NEW j \in 0 .. Len(Q), NEW k \in 0 .. Len(Q), j < k,
              At(rd, q, Q, j) = At(rd, q, Q, k)
       PROVE  FALSE
  <2>1. j \in 0 .. Len(P)
    BY <1>1, <1>6, <1>11
  <2>2. CASE k \in 0 .. Len(P)
    <3>1. At(rd, q, P, j) = At(rd, q, P, k)
      BY <1>6, <1>11, <2>1, <2>2
    <3>2. j = k
      BY <2>1, <2>2, <3>1 DEF Walkable
    <3> QED
      BY <1>11, <3>2
  <2>3. CASE k = Len(Q)
    <3>1. Here(rd, q, Q) = At(rd, q, P, j)
      BY <1>6, <1>9, <1>11, <2>1, <2>3
    <3> QED
      BY <1>7, <1>9, <2>1, <3>1
  <2> QED
    BY <1>1, <1>6, <2>2, <2>3
<1>12. \A j, k \in 0 .. Len(Q) : At(rd, q, Q, j) = At(rd, q, Q, k) => j = k
  <2> TAKE j, k \in 0 .. Len(Q)
  <2> HAVE At(rd, q, Q, j) = At(rd, q, Q, k)
  <2>1. ~ (j < k) /\ ~ (k < j)
    BY <1>11
  <2>2. Len(Q) \in Nat
    BY <1>1, <1>6
  <2> QED
    BY <2>1, <2>2
<1>13. Walkable(rd, q, Q)
  BY <1>6, <1>7, <1>10, <1>12 DEF Walkable
<1>14. Q[Len(Q)].ride = r
  BY <1>5, <1>6
<1> QED
  BY <1>2, <1>6, <1>9, <1>13, <1>14

\* Two walkable paths that have come to one city and take one ride take one step.
LEMMA SameStep ==
  ASSUME NEW rd, Routes(rd), NEW q, NEW P, Walkable(rd, q, P), NEW Q, Walkable(rd, q, Q),
         NEW k \in 1 .. Len(P), k \in 1 .. Len(Q), P[k].ride = Q[k].ride,
         At(rd, q, P, k - 1) = At(rd, q, Q, k - 1)
  PROVE  P[k] = Q[k]
<1>1. /\ IsEdge(rd, q.date, P[k].ride, P[k].seg)
      /\ rd[P[k].ride].cities[P[k].seg] = At(rd, q, P, k - 1)
      /\ IsEdge(rd, q.date, Q[k].ride, Q[k].seg)
      /\ rd[Q[k].ride].cities[Q[k].seg] = At(rd, q, Q, k - 1)
  BY DEF Walkable
<1>2. P[k] \in Steps(rd) /\ Q[k] \in Steps(rd)
  BY ElementOfSeq DEF Walkable
<1>3. P[k].ride \in DOMAIN rd
  BY <1>2 DEF Steps
<1>4. /\ P[k].seg \in DOMAIN rd[P[k].ride].cities
      /\ Q[k].seg \in DOMAIN rd[P[k].ride].cities
  BY <1>1, <1>3, EdgeStops
<1>5. P[k].seg = Q[k].seg
  BY <1>1, <1>3, <1>4, SameStop
<1> QED
  BY <1>2, <1>5 DEF Steps

\* Where a walkable path goes on from another one the walk can follow it.
LEMMA CanFollowThere ==
  ASSUME NEW rd, Routes(rd), NEW q, q.transfers \in Nat,
         NEW P, Walkable(rd, q, P), NEW Q, Walkable(rd, q, Q),
         Len(P) < Len(Q), \A k \in 1 .. Len(P) : Q[k] = P[k]
  PROVE  LET r == Q[Len(P) + 1].ride
         IN  /\ r \in DOMAIN rd
             /\ CanFollow(rd, q, P, r)
             /\ Onward(rd, q, P, r) = Append(P, Q[Len(P) + 1])
<1> DEFINE n == Len(P)
           x == Q[n + 1]
           R == Append(P, x)
<1>1. P \in Seq(Steps(rd)) /\ Q \in Seq(Steps(rd)) /\ n \in Nat /\ Len(Q) \in Nat
  BY LenProperties DEF Walkable
<1>2. n + 1 \in 1 .. Len(Q)
  BY <1>1
<1>3. x \in Steps(rd)
  BY <1>1, <1>2, ElementOfSeq
<1>4. x.ride \in DOMAIN rd /\ x.seg \in Nat /\ x = [ride |-> x.ride, seg |-> x.seg]
  BY <1>3 DEF Steps
<1> HIDE DEF n, x, R
<1>5. \A k \in 0 .. n : At(rd, q, Q, k) = At(rd, q, P, k)
  BY <1>1 DEF At, n
<1>6. Here(rd, q, P) = At(rd, q, P, n)
  BY <1>1, CitiesPassed DEF n
<1>7. IsEdge(rd, q.date, x.ride, x.seg) /\ rd[x.ride].cities[x.seg] = Here(rd, q, P)
  <2>1. IsEdge(rd, q.date, x.ride, x.seg) /\ rd[x.ride].cities[x.seg] = At(rd, q, Q, (n + 1) - 1)
    BY <1>2 DEF Walkable, x
  <2>2. (n + 1) - 1 = n /\ n \in 0 .. n
    BY <1>1
  <2> QED
    BY <1>5, <1>6, <2>1, <2>2
<1>8. CityIndex(rd[x.ride].cities, Here(rd, q, P)) = x.seg
  BY <1>4, <1>7, EdgeStops, StopIndex
<1>9. Onward(rd, q, P, x.ride) = R
  BY <1>4, <1>8 DEF Onward, R
<1>10. /\ R \in Seq(Steps(rd))
       /\ Len(R) = n + 1
       /\ \A k \in 1 .. n : R[k] = P[k]
       /\ R[n + 1] = x
       /\ At(rd, q, R, n + 1) = EndOf(rd, x)
  BY <1>1, <1>3, OneStepMore DEF R, n
<1>11. Here(rd, q, R) = At(rd, q, Q, n + 1)
  <2>1. Here(rd, q, R) = At(rd, q, R, Len(R))
    BY <1>10, CitiesPassed
  <2>2. At(rd, q, Q, n + 1) = EndOf(rd, x)
    BY <1>1 DEF At, x
  <2> QED
    BY <1>10, <2>1, <2>2
<1>12. Here(rd, q, R) \notin Visited(rd, q, P)
  <2> SUFFICES ASSUME NEW k \in 0 .. n, At(rd, q, Q, n + 1) = At(rd, q, P, k)
               PROVE  FALSE
    BY <1>1, <1>11, CitiesPassed DEF n
  <2>1. At(rd, q, Q, n + 1) = At(rd, q, Q, k)
    BY <1>5
  <2>2. k \in 0 .. Len(Q) /\ n + 1 \in 0 .. Len(Q)
    BY <1>1, <1>2
  <2>3. n + 1 = k
    BY <2>1, <2>2 DEF Walkable
  <2> QED
    BY <1>1, <2>3
<1>13. transfersOf(R) <= q.transfers
  <2>1. \A i \in 1 .. (n + 1) : R[i] = Q[i]
    BY <1>1, <1>10 DEF n, x
  <2>2. Changes(R, n + 1) = Changes(Q, n + 1)
    BY <1>1, <2>1, ChangesSame
  <2>3. n + 1 \in 0 .. Len(Q)
    BY <1>1, <1>2
  <2>4. Changes(Q, n + 1) <= Changes(Q, Len(Q))
    BY <1>1, <2>3, ChangesGrow
  <2>5. Changes(Q, Len(Q)) <= q.transfers
    BY DEF Walkable, transfersOf
  <2>6. Changes(Q, n + 1) \in Nat /\ Changes(Q, Len(Q)) \in Nat
    <3>1. n + 1 \in Nat
      BY <1>1
    <3> QED
      BY <1>1, <3>1, ChangesType
  <2> QED
    BY <1>10, <2>2, <2>4, <2>5, <2>6 DEF transfersOf
<1>14. CanFollow(rd, q, P, x.ride)
  BY <1>7, <1>9, <1>10, <1>12, <1>13 DEF CanFollow
<1> QED
  BY <1>4, <1>9, <1>14 DEF R, x, n

-----------------------------------------------------------------------------
-----------------------------------------------------------------------------
(***************************************************************************)
(* Legs.                                                                   *)
(***************************************************************************)
\* A step on the same ride is on the next segment.
LEMMA NextSegment ==
  ASSUME NEW rd, Routes(rd), NEW q, NEW P, Walkable(rd, q, P),
         NEW k \in 1 .. Len(P), k + 1 \in 1 .. Len(P), P[k + 1].ride = P[k].ride
  PROVE  P[k + 1].seg = P[k].seg + 1
<1> DEFINE r == P[k].ride
<1>1. P[k] \in Steps(rd) /\ P[k + 1] \in Steps(rd)
  BY ElementOfSeq DEF Walkable
<1>2. r \in DOMAIN rd
  BY <1>1 DEF Steps
<1>3. IsEdge(rd, q.date, r, P[k].seg) /\ IsEdge(rd, q.date, r, P[k + 1].seg)
  BY DEF Walkable
<1>4. P[k].seg + 1 \in DOMAIN rd[r].cities /\ P[k + 1].seg \in DOMAIN rd[r].cities
  BY <1>2, <1>3, EdgeStops
<1>5. rd[r].cities[P[k + 1].seg] = At(rd, q, P, k)
  <2>1. (k + 1) - 1 = k
    OBVIOUS
  <2> QED
    BY <2>1 DEF Walkable
<1>6. At(rd, q, P, k) = rd[r].cities[P[k].seg + 1]
  BY DEF At, EndOf
<1> HIDE DEF r
<1> QED
  BY <1>2, <1>4, <1>5, <1>6, SameStop

\* Steps that have changed the ride equally often are on one ride and on
\* segments in a row.
LEMMA InARow ==
  ASSUME NEW rd, Routes(rd), NEW q, NEW P, Walkable(rd, q, P),
         NEW i \in 1 .. Len(P), NEW j \in i .. Len(P), Changes(P, i) = Changes(P, j)
  PROVE  P[j].ride = P[i].ride /\ P[j].seg = P[i].seg + (j - i)
<1> DEFINE Right(k) == P[k].ride = P[i].ride /\ P[k].seg = P[i].seg + (k - i)
           T == {k \in i .. j : ~ Right(k)}
<1>1. Len(P) \in Nat /\ P \in Seq(Steps(rd)) /\ i \in Nat /\ j \in Nat
  BY LenProperties DEF Walkable
<1>2. \A k \in 1 .. Len(P) : P[k].seg \in Nat
  <2> TAKE k \in 1 .. Len(P)
  <2>1. P[k] \in Steps(rd)
    BY <1>1, ElementOfSeq
  <2> QED
    BY <2>1 DEF Steps
<1>3. SUFFICES ASSUME T # {} PROVE FALSE
  <2>1. j \in i .. j
    BY <1>1
  <2> QED
    BY <1>3, <2>1
<1>4. PICK k \in T : \A l \in T : ~ (l < k)
  <2>1. T \in SUBSET Nat
    BY <1>1
  <2> HIDE DEF T
  <2> QED
    BY <1>3, <2>1, LeastNatural
<1>5. k # i
  BY <1>1, <1>2, <1>4
<1>6. /\ k - 1 \in i .. j /\ k - 1 \notin T /\ k \in i .. j
      /\ k - 1 \in 1 .. Len(P) /\ k \in 1 .. Len(P) /\ (k - 1) + 1 = k
  BY <1>1, <1>4, <1>5
<1>7. Right(k - 1)
  BY <1>6
<1>8. Changes(P, k) = Changes(P, k - 1)
  <2>1. /\ Changes(P, i) <= Changes(P, k - 1)
        /\ Changes(P, k - 1) <= Changes(P, k)
        /\ Changes(P, k) <= Changes(P, j)
    <3>1. i \in 0 .. (k - 1) /\ k - 1 \in 0 .. k /\ k \in 0 .. j /\ k - 1 \in Nat /\ k \in Nat
      BY <1>1, <1>6
    <3> QED
      BY <1>1, <3>1, ChangesGrow
  <2>2. Changes(P, k) \in Nat /\ Changes(P, k - 1) \in Nat /\ Changes(P, i) \in Nat
    <3>1. k - 1 \in Nat /\ k \in Nat
      BY <1>1, <1>6
    <3> QED
      BY <1>1, <3>1, ChangesType
  <2> QED
    BY <2>1, <2>2
<1>9. P[k].ride = P[k - 1].ride
  <2>1. Changes(P, k) =
          Changes(P, k - 1) + (IF P[k].ride # P[k - 1].ride THEN 1 ELSE 0)
    <3>1. k - 1 \in Nat /\ k - 1 >= 1
      BY <1>1, <1>6
    <3> QED
      BY <1>6, <3>1, ChangesStep
  <2>2. Changes(P, k - 1) \in Nat
    <3>1. k - 1 \in Nat
      BY <1>1, <1>6
    <3> QED
      BY <3>1, ChangesType
  <2> QED
    BY <1>8, <2>1, <2>2
<1>10. P[k].seg = P[k - 1].seg + 1
  <2> DEFINE l == k - 1
  <2>1. l \in 1 .. Len(P) /\ l + 1 \in 1 .. Len(P) /\ l + 1 = k /\ P[l + 1].ride = P[l].ride
    BY <1>6, <1>9
  <2> HIDE DEF l, T, Right
  <2>2. P[l + 1].seg = P[l].seg + 1
    BY <2>1, NextSegment
  <2> QED
    BY <2>1, <2>2 DEF l
<1>11. Right(k)
  <2>1. P[i].seg \in Nat /\ P[k - 1].seg \in Nat /\ P[k].seg \in Nat
    BY <1>2, <1>6
  <2> QED
    BY <1>1, <1>6, <1>7, <1>9, <1>10, <2>1
<1> QED
  BY <1>4, <1>11

\* A leg is an interval of steps, and the next one begins where it ends.
LEMMA LegIsInterval ==
  ASSUME NEW P, Len(P) \in Nat, Len(P) >= 1, DOMAIN P = 1 .. Len(P),
         NEW n \in 1 .. (transfersOf(P) + 1)
  PROVE  LET S == LegSteps(P, n)
             a == First(S)
             b == Final(S)
         IN  /\ a \in 1 .. Len(P) /\ b \in a .. Len(P) /\ S = a .. b
             /\ Changes(P, a) = n - 1 /\ Changes(P, b) = n - 1
             /\ IF n = 1 THEN a = 1 ELSE a > 1 /\ Changes(P, a - 1) = n - 2
             /\ IF n = transfersOf(P) + 1 THEN b = Len(P)
                ELSE b < Len(P) /\ Changes(P, b + 1) = n
<1> DEFINE S == LegSteps(P, n)
           a == First(S)
           b == Final(S)
           L == Len(P)
           c(k) == Changes(P, k)
           T == transfersOf(P)
<1>1. \A k \in Nat : c(k) \in Nat
  BY ChangesType
<1>2. \A k \in Nat : \A j \in 0 .. k : c(j) <= c(k)
  BY ChangesGrow
<1>3. \A k \in Nat : k >= 1 => c(k + 1) = c(k) \/ c(k + 1) = c(k) + 1
  <2> TAKE k \in Nat
  <2> HAVE k >= 1
  <2>1. c(k + 1) = c(k) + (IF P[k + 1].ride # P[k].ride THEN 1 ELSE 0)
    BY ChangesStep
  <2>2. c(k) \in Nat
    BY <1>1
  <2> QED
    BY <2>1, <2>2
<1>4. c(1) = 0
  BY NoChangeYet
<1>5. T = c(L) /\ T \in Nat /\ L \in Nat
  BY <1>1 DEF transfersOf
<1>6. S = {k \in 1 .. L : c(k) = n - 1}
  BY DEF LegSteps
<1> HIDE DEF S, c, T, L
<1>7. S # {}
  <2> DEFINE U == {k \in 1 .. L : c(k) >= n - 1}
  <2>1. L \in U
    BY <1>5 DEF L, T
  <2>2. PICK k \in U : \A l \in U : ~ (l < k)
    <3>1. U \in SUBSET Nat
      BY <1>5
    <3> HIDE DEF U
    <3> QED
      BY <2>1, <3>1, LeastNatural
  <2>3. k \in Nat /\ k >= 1 /\ k <= L /\ c(k) >= n - 1 /\ c(k) \in Nat
    BY <1>1, <1>5, <2>2
  <2>4. n \in Nat /\ n >= 1
    BY <1>5 DEF T
  <2>5. c(k) = n - 1
    <3>1. CASE k = 1
      BY <1>4, <2>3, <2>4, <3>1
    <3>2. CASE k # 1
      <4>1. k - 1 \in 1 .. L /\ k - 1 \in Nat /\ k - 1 >= 1 /\ (k - 1) + 1 = k
        BY <1>5, <2>3, <3>2
      <4>2. c(k - 1) \in Nat /\ ~ (c(k - 1) >= n - 1)
        BY <1>1, <2>2, <4>1
      <4>3. c(k) = c(k - 1) \/ c(k) = c(k - 1) + 1
        BY <1>3, <4>1
      <4> QED
        BY <2>3, <2>4, <4>2, <4>3
    <3> QED
      BY <3>1, <3>2
  <2> QED
    BY <1>6, <2>2, <2>5
<1>8. /\ a \in S /\ \A k \in S : a <= k
      /\ b \in S /\ \A k \in S : k <= b
  <2>1. S \in SUBSET Nat /\ \A k \in S : k <= L
    BY <1>5, <1>6
  <2> QED
    BY <1>5, <1>7, <2>1, FirstIn, FinalIn
<1> HIDE DEF a, b
<1>9. /\ a \in 1 .. L /\ b \in a .. L /\ c(a) = n - 1 /\ c(b) = n - 1
      /\ a \in Nat /\ b \in Nat
  BY <1>5, <1>6, <1>8
<1>10. S = a .. b
  <2>1. ASSUME NEW k \in a .. b PROVE k \in S
    <3>1. k \in 1 .. L /\ k \in Nat /\ a \in 0 .. k /\ k \in 0 .. b
      BY <1>5, <1>9
    <3>2. c(a) <= c(k) /\ c(k) <= c(b) /\ c(k) \in Nat
      BY <1>1, <1>2, <1>9, <3>1
    <3> QED
      BY <1>5, <1>6, <1>9, <3>1, <3>2 DEF T
  <2>2. \A k \in S : k \in a .. b
    BY <1>5, <1>6, <1>8, <1>9
  <2> QED
    BY <2>1, <2>2
<1>11. n \in Nat /\ n >= 1 /\ n <= T + 1
  BY <1>5 DEF T
<1>12. IF n = 1 THEN a = 1 ELSE a > 1 /\ c(a - 1) = n - 2
  <2>1. CASE n = 1
    <3>1. 1 \in S
      BY <1>4, <1>5, <1>6, <2>1 DEF L
    <3> QED
      BY <1>8, <1>9, <2>1, <3>1
  <2>2. CASE n # 1
    <3>1. a # 1
      BY <1>4, <1>9, <1>11, <2>2
    <3>2. a - 1 \in 1 .. L /\ a - 1 \in Nat /\ a - 1 >= 1 /\ (a - 1) + 1 = a
      BY <1>5, <1>9, <3>1
    <3>3. a - 1 \notin S
      BY <1>8, <1>9
    <3>4. c(a) = c(a - 1) \/ c(a) = c(a - 1) + 1
      BY <1>3, <3>2
    <3>5. c(a - 1) # n - 1 /\ c(a - 1) \in Nat
      BY <1>1, <1>6, <3>2, <3>3
    <3> QED
      BY <1>9, <1>11, <2>2, <3>2, <3>4, <3>5
  <2> QED
    BY <2>1, <2>2
<1>13. IF n = T + 1 THEN b = L ELSE b < L /\ c(b + 1) = n
  <2>1. CASE n = T + 1
    <3>1. L \in S
      BY <1>5, <1>6, <1>9, <2>1
    <3> QED
      BY <1>5, <1>8, <1>9, <2>1, <3>1
  <2>2. CASE n # T + 1
    <3>1. b # L
      BY <1>5, <1>9, <1>11, <2>2
    <3>2. b + 1 \in 1 .. L
      BY <1>5, <1>9, <3>1
    <3>3. b + 1 \notin S
      BY <1>8, <1>9
    <3>4. c(b + 1) = c(b) \/ c(b + 1) = c(b) + 1
      BY <1>3, <1>9
    <3>5. c(b + 1) # n - 1
      BY <1>6, <3>2, <3>3
    <3>6. c(b + 1) = n
      BY <1>9, <1>11, <3>4, <3>5
    <3> QED
      BY <1>5, <1>9, <2>2, <3>1, <3>6
  <2> QED
    BY <2>1, <2>2
<1> QED
  BY <1>9, <1>10, <1>12, <1>13 DEF S, a, b, c, T, L

\* The hop a leg of a path stands for, and the journey its legs make.
HopOf(P, n) ==
  [ride |-> P[First(LegSteps(P, n))].ride,
   i |-> P[First(LegSteps(P, n))].seg, j |-> P[Final(LegSteps(P, n))].seg + 1]

JourneyOf(P) == [n \in 1 .. (transfersOf(P) + 1) |-> HopOf(P, n)]

\* A leg is a hop, over the cities of its steps.
LEMMA LegIsHop ==
  ASSUME NEW rd, Routes(rd), NEW q, q.transfers \in Nat, NEW P, Walkable(rd, q, P), P # << >>,
         NEW n \in 1 .. (transfersOf(P) + 1)
  PROVE  LET h == HopOf(P, n)
             a == First(LegSteps(P, n))
             b == Final(LegSteps(P, n))
         IN  /\ h \in Hops(rd, q) /\ h.i \in Nat /\ h.j = h.i + (b - a) + 1
             /\ \A x \in h.i .. h.j : City(rd, h, x) = At(rd, q, P, (a - 1) + (x - h.i))
             /\ {P[k].seg : k \in LegSteps(P, n)} = h.i .. (h.j - 1)
             /\ LegOf(rd, P, n) =
                  [ride |-> h.ride, segs |-> h.i .. (h.j - 1),
                   origin |-> City(rd, h, h.i), destination |-> City(rd, h, h.j)]
<1> DEFINE h == HopOf(P, n)
           S == LegSteps(P, n)
           a == First(S)
           b == Final(S)
           r == P[a].ride
<1>1. /\ P \in Seq(Steps(rd)) /\ Len(P) \in Nat /\ Len(P) >= 1
      /\ DOMAIN P = 1 .. Len(P) /\ Routes(rd)
  BY EmptySeq, LenProperties DEF Walkable
<1>2. /\ a \in 1 .. Len(P) /\ b \in a .. Len(P) /\ S = a .. b
      /\ Changes(P, a) = n - 1 /\ Changes(P, b) = n - 1
  BY <1>1, LegIsInterval
<1>3. h = [ride |-> r, i |-> P[a].seg, j |-> P[b].seg + 1]
  BY DEF HopOf
<1> HIDE DEF S, a, b, h
<1>4. a \in Nat /\ b \in Nat /\ a <= b
  BY <1>1, <1>2
<1>5. ASSUME NEW k \in a .. b
      PROVE  /\ k \in 1 .. Len(P)
             /\ P[k].ride = r /\ P[k].seg = P[a].seg + (k - a)
             /\ P[k].seg \in Nat
             /\ IsEdge(rd, q.date, r, P[k].seg)
             /\ rd[r].cities[P[k].seg] = At(rd, q, P, k - 1)
  <2>1. k \in 1 .. Len(P) /\ k \in a .. Len(P) /\ k \in Nat /\ a \in 0 .. k /\ k \in 0 .. b
    BY <1>1, <1>2, <1>4
  <2>2. Changes(P, k) = n - 1
    <3>1. Changes(P, a) <= Changes(P, k) /\ Changes(P, k) <= Changes(P, b)
      BY <1>4, <2>1, ChangesGrow
    <3>2. Changes(P, k) \in Nat
      BY <2>1, ChangesType
    <3>3. n - 1 \in Int
      <4>1. transfersOf(P) \in Nat
        BY <1>1, ChangesType DEF transfersOf
      <4> QED
        BY <4>1
    <3> QED
      BY <1>2, <3>1, <3>2, <3>3
  <2>3. P[k].ride = r /\ P[k].seg = P[a].seg + (k - a)
    BY <1>1, <1>2, <2>1, <2>2, InARow
  <2>4. P[k].seg \in Nat
    <3>1. P[k] \in Steps(rd)
      BY <1>1, <2>1, ElementOfSeq
    <3> QED
      BY <3>1 DEF Steps
  <2> QED
    BY <2>1, <2>3, <2>4 DEF Walkable
<1>6. a \in a .. b /\ b \in a .. b
  BY <1>4
<1>7. /\ h.ride = r /\ h.i = P[a].seg /\ h.j = P[b].seg + 1
      /\ h.i \in Nat /\ h.j = h.i + (b - a) + 1
  BY <1>3, <1>4, <1>5, <1>6
<1>8. r \in DOMAIN rd
  <2>1. P[a] \in Steps(rd)
    BY <1>1, <1>2, ElementOfSeq
  <2> QED
    BY <2>1 DEF Steps
<1>9. ASSUME NEW x \in h.i .. (h.j - 1)
      PROVE  \E k \in a .. b : x = P[k].seg /\ k = a + (x - h.i)
  <2> DEFINE i == h.i
             j == h.j
             k == a + (x - i)
  <2>1. i \in Nat /\ j = i + (b - a) + 1 /\ x \in i .. (j - 1)
    BY <1>7, <1>9
  <2> HIDE DEF i, j
  <2>2. k \in a .. b /\ i + (k - a) = x
    BY <1>4, <2>1
  <2>3. k = a + (x - i)
    OBVIOUS
  <2> HIDE DEF k
  <2>4. P[k].seg = i + (k - a)
    BY <1>5, <1>7, <2>2 DEF i
  <2> QED
    BY <2>2, <2>3, <2>4 DEF i
<1>10. {P[k].seg : k \in S} = h.i .. (h.j - 1)
  <2>1. ASSUME NEW k \in a .. b PROVE P[k].seg \in h.i .. (h.j - 1)
    <3>1. P[k].seg = h.i + (k - a) /\ k \in Nat
      BY <1>4, <1>5, <1>7
    <3> QED
      BY <1>4, <1>7, <3>1
  <2> QED
    BY <1>2, <1>9, <2>1
<1>11. ASSUME NEW x \in h.i .. h.j
       PROVE  City(rd, h, x) = At(rd, q, P, (a - 1) + (x - h.i))
  <2>1. CASE x = h.i
    <3>1. (a - 1) + (x - h.i) = a - 1
      BY <1>4, <1>7, <2>1
    <3> QED
      BY <1>5, <1>6, <1>7, <2>1, <3>1 DEF City
  <2>2. CASE x # h.i
    <3>1. x - 1 \in h.i .. (h.j - 1) /\ (x - 1) + 1 = x
      BY <1>4, <1>7, <2>2
    <3>2. PICK k \in a .. b : x - 1 = P[k].seg /\ k = a + ((x - 1) - h.i)
      BY <1>9, <3>1
    <3>3. k = (a - 1) + (x - h.i) /\ k # 0
      <4>1. x \in Int /\ a >= 1 /\ h.i \in Int /\ a \in Int
        BY <1>1, <1>2, <1>4, <1>7
      <4>2. k >= a
        BY <4>1, <1>4
      <4>3. k = a + ((x - 1) - h.i)
        BY <3>2
      <4> QED
        BY <4>1, <4>2, <4>3
    <3>4. At(rd, q, P, k) = rd[r].cities[(x - 1) + 1]
      BY <1>5, <3>2, <3>3 DEF At, EndOf
    <3>5. At(rd, q, P, k) = rd[r].cities[x]
      BY <3>1, <3>4
    <3>6. City(rd, h, x) = rd[r].cities[x]
      BY <1>7 DEF City
    <3> QED
      BY <3>3, <3>5, <3>6
  <2> QED
    BY <2>1, <2>2
<1>12. h \in Hops(rd, q)
  <2>1. h.i \in DOMAIN rd[r].cities /\ h.j \in DOMAIN rd[r].cities
    <3>1. IsEdge(rd, q.date, r, P[a].seg) /\ IsEdge(rd, q.date, r, P[b].seg)
      BY <1>5, <1>6
    <3>2. /\ P[a].seg \in DOMAIN rd[r].cities
          /\ P[b].seg + 1 \in DOMAIN rd[r].cities
      BY <1>1, <1>8, <3>1, EdgeStops
    <3> QED
      BY <1>7, <3>2
  <2>2. h.i < h.j
    BY <1>4, <1>7
  <2>3. rd[r].status = "ACTIVE" /\ rd[r].date = q.date
    BY <1>5, <1>6 DEF IsEdge
  <2>4. \A s \in h.i .. (h.j - 1) : rd[r].avail[s] > 0
    <3> TAKE s \in h.i .. (h.j - 1)
    <3>1. PICK k \in a .. b : s = P[k].seg
      BY <1>9
    <3>2. s \in DOMAIN rd[r].avail /\ rd[r].avail[s] >= 1
      BY <1>5, <3>1 DEF IsEdge
    <3>3. rd[r].avail[s] \in Int
      BY <1>1, <1>8, <3>2 DEF Routes, Route
    <3> QED
      BY <3>2, <3>3
  <2>5. h \in [ride : {r}, i : DOMAIN rd[r].cities, j : DOMAIN rd[r].cities]
    BY <1>3, <1>7, <2>1
  <2> QED
    BY <1>7, <1>8, <2>2, <2>3, <2>4, <2>5 DEF Hops
<1>13. LegOf(rd, P, n) =
         [ride |-> h.ride, segs |-> h.i .. (h.j - 1),
          origin |-> City(rd, h, h.i), destination |-> City(rd, h, h.j)]
  <2>1. City(rd, h, h.i) = rd[r].cities[P[a].seg]
    BY <1>7 DEF City
  <2>2. City(rd, h, h.j) = EndOf(rd, P[b])
    BY <1>5, <1>6, <1>7 DEF City, EndOf
  <2> QED
    BY <1>7, <1>10, <2>1, <2>2 DEF LegOf, S, a, b
<1> QED
  BY <1>7, <1>10, <1>11, <1>12, <1>13 DEF S, a, b, h

\* The legs of a path are in a row.
LEMMA LegsInARow ==
  ASSUME NEW P, Len(P) \in Nat, Len(P) >= 1, DOMAIN P = 1 .. Len(P),
         NEW k \in 1 .. (transfersOf(P) + 1), NEW l \in 1 .. (transfersOf(P) + 1), k < l
  PROVE  LET b == Final(LegSteps(P, k))
             a == First(LegSteps(P, l))
         IN  /\ b \in Nat /\ a \in Nat /\ b + 1 <= a
             /\ IF l = k + 1 THEN b = a - 1 ELSE b < a - 1
<1> DEFINE b == Final(LegSteps(P, k))
           a == First(LegSteps(P, l))
<1>0. First(LegSteps(P, k)) \in 1 .. Len(P)
  BY LegIsInterval
<1>1. b \in First(LegSteps(P, k)) .. Len(P) /\ Changes(P, b) = k - 1
  BY LegIsInterval
<1>2. /\ a \in 1 .. Len(P) /\ Changes(P, a) = l - 1
      /\ IF l = 1 THEN a = 1 ELSE a > 1 /\ Changes(P, a - 1) = l - 2
  BY LegIsInterval
<1>3. LegSteps(P, k) = First(LegSteps(P, k)) .. b
  BY LegIsInterval
<1>4. transfersOf(P) \in Nat
  BY ChangesType DEF transfersOf
<1>5. k \in Nat /\ l \in Nat /\ l > 1
  BY <1>4
<1>6. b \in Nat /\ a \in Nat /\ a > 1 /\ b \in 1 .. Len(P) /\ Changes(P, a - 1) = l - 2
  BY <1>0, <1>1, <1>2, <1>5
<1> HIDE DEF a, b
<1>7. b < a
  <2> SUFFICES ASSUME a <= b PROVE FALSE
    BY <1>6
  <2>1. a \in 0 .. b
    BY <1>6
  <2>2. Changes(P, a) <= Changes(P, b)
    BY <1>6, <2>1, ChangesGrow
  <2> QED
    BY <1>1, <1>2, <1>5, <2>2
<1>8. CASE l = k + 1
  <2>1. a - 1 \in LegSteps(P, k)
    BY <1>2, <1>5, <1>6, <1>8 DEF LegSteps
  <2>2. a - 1 <= b
    <3>1. \A x \in First(LegSteps(P, k)) .. b : x <= b
      BY <1>0, <1>6
    <3> QED
      BY <1>3, <2>1, <3>1
  <2> QED
    BY <1>6, <1>7, <1>8, <2>2 DEF a, b
<1>9. CASE l # k + 1
  <2>1. b # a - 1
    BY <1>1, <1>5, <1>6, <1>9
  <2> QED
    BY <1>6, <1>7, <1>9, <2>1 DEF a, b
<1> QED
  BY <1>8, <1>9

\* A path that arrives shows as a journey.
LEMMA PathShowsJourney ==
  ASSUME NEW rd, Routes(rd), NEW q, q.transfers \in Nat, NEW P, Arrives(rd, q, P)
  PROVE  /\ JourneyOf(P) \in Journeys(rd, q)
         /\ Shows(rd, buildItinerary(rd, P), JourneyOf(P))
<1> DEFINE N == transfersOf(P) + 1
           jn == JourneyOf(P)
           a(n) == First(LegSteps(P, n))
           b(n) == Final(LegSteps(P, n))
<1>1. /\ Walkable(rd, q, P) /\ P # << >> /\ Len(P) \in Nat /\ Len(P) >= 1
      /\ DOMAIN P = 1 .. Len(P) /\ At(rd, q, P, Len(P)) = q.to
  BY EmptySeq, LenProperties DEF Arrives, Walkable
<1>2. transfersOf(P) \in Nat /\ transfersOf(P) <= q.transfers /\ q.transfers \in Nat
  BY <1>1, ChangesType DEF transfersOf, Walkable
<1>3. N \in 1 .. (q.transfers + 1) /\ N \in Nat /\ N >= 1 /\ N - 1 = transfersOf(P)
  BY <1>2
<1>4. ASSUME NEW n \in 1 .. N
      PROVE  /\ jn[n] = HopOf(P, n) /\ jn[n] \in Hops(rd, q)
             /\ jn[n].i \in Nat /\ jn[n].j = jn[n].i + (b(n) - a(n)) + 1
             /\ \A x \in jn[n].i .. jn[n].j :
                  City(rd, jn[n], x) = At(rd, q, P, (a(n) - 1) + (x - jn[n].i))
             /\ LegOf(rd, P, n) =
                  [ride |-> jn[n].ride, segs |-> jn[n].i .. (jn[n].j - 1),
                   origin |-> City(rd, jn[n], jn[n].i),
                   destination |-> City(rd, jn[n], jn[n].j)]
  <2>1. jn[n] = HopOf(P, n)
    BY DEF JourneyOf
  <2> QED
    BY <1>1, <2>1, LegIsHop
<1>5. ASSUME NEW n \in 1 .. N
      PROVE  /\ a(n) \in 1 .. Len(P) /\ b(n) \in a(n) .. Len(P)
             /\ a(n) \in Nat /\ b(n) \in Nat /\ a(n) <= b(n)
             /\ IF n = 1 THEN a(n) = 1 ELSE a(n) > 1 /\ Changes(P, a(n) - 1) = n - 2
             /\ n = N => b(n) = Len(P)
             /\ Changes(P, a(n)) = n - 1
  <2>1. /\ a(n) \in 1 .. Len(P) /\ b(n) \in a(n) .. Len(P)
        /\ IF n = 1 THEN a(n) = 1 ELSE a(n) > 1 /\ Changes(P, a(n) - 1) = n - 2
        /\ n = N => b(n) = Len(P)
        /\ Changes(P, a(n)) = n - 1
    BY <1>1, LegIsInterval
  <2> QED
    BY <1>1, <2>1
<1>6. /\ jn \in [1 .. N -> Hops(rd, q)] /\ jn \in Seq(Hops(rd, q))
      /\ Len(jn) = N /\ DOMAIN jn = 1 .. N
  <2>1. jn = [n \in 1 .. N |-> HopOf(P, n)]
    BY DEF JourneyOf
  <2>2. jn \in [1 .. N -> Hops(rd, q)]
    BY <1>4, <2>1
  <2> HIDE DEF jn
  <2> QED
    BY <1>3, <2>2
<1> HIDE DEF a, b, jn
<1>7. ASSUME NEW n \in 1 .. N
      PROVE  /\ City(rd, jn[n], jn[n].i) = At(rd, q, P, a(n) - 1)
             /\ City(rd, jn[n], jn[n].j) = At(rd, q, P, b(n))
  <2> DEFINE i == jn[n].i
             j == jn[n].j
  <2>1. /\ i \in Nat /\ j = i + (b(n) - a(n)) + 1
        /\ a(n) \in Nat /\ b(n) \in Nat /\ a(n) <= b(n)
        /\ \A x \in i .. j : City(rd, jn[n], x) = At(rd, q, P, (a(n) - 1) + (x - i))
    BY <1>4, <1>5
  <2> HIDE DEF i, j
  <2>2. /\ i \in i .. j /\ j \in i .. j
        /\ (a(n) - 1) + (i - i) = a(n) - 1 /\ (a(n) - 1) + (j - i) = b(n)
    BY <2>1
  <2>3. /\ City(rd, jn[n], i) = At(rd, q, P, a(n) - 1)
        /\ City(rd, jn[n], j) = At(rd, q, P, b(n))
    BY <2>1, <2>2
  <2> QED
    BY <2>3 DEF i, j
<1>8. ASSUME NEW n \in 1 .. N, NEW c \in Passed(rd, jn[n])
      PROVE  \E y \in (a(n) - 1) .. b(n) : y \in 0 .. Len(P) /\ c = At(rd, q, P, y)
  <2>1. PICK x \in jn[n].i .. jn[n].j : c = City(rd, jn[n], x)
    BY DEF Passed
  <2> DEFINE i == jn[n].i
             j == jn[n].j
  <2>2. /\ i \in Nat /\ j = i + (b(n) - a(n)) + 1
        /\ a(n) \in 1 .. Len(P) /\ b(n) \in a(n) .. Len(P)
    BY <1>4, <1>5
  <2>3. c = At(rd, q, P, (a(n) - 1) + (x - i)) /\ x \in i .. j
    BY <1>4, <2>1
  <2> HIDE DEF i, j
  <2>4. (a(n) - 1) + (x - i) \in (a(n) - 1) .. b(n) /\ (a(n) - 1) + (x - i) \in 0 .. Len(P)
    BY <1>1, <2>2, <2>3
  <2> QED
    BY <2>3, <2>4
<1>9. City(rd, jn[1], jn[1].i) = q.from
  <2>1. 1 \in 1 .. N
    BY <1>3
  <2>2. a(1) - 1 = 0
    BY <1>5, <2>1
  <2> QED
    BY <1>7, <2>1, <2>2 DEF At
<1>10. City(rd, jn[N], jn[N].j) = q.to
  <2>1. N \in 1 .. N
    BY <1>3
  <2> QED
    BY <1>1, <1>5, <1>7, <2>1
<1>11. ASSUME NEW k \in 2 .. N
       PROVE  /\ jn[k].ride # jn[k - 1].ride
              /\ City(rd, jn[k], jn[k].i) = City(rd, jn[k - 1], jn[k - 1].j)
  <2>1. k \in 1 .. N /\ k - 1 \in 1 .. N /\ k = (k - 1) + 1 /\ k - 1 < k /\ k # 1 /\ k \in Nat
    BY <1>3
  <2>2. b(k - 1) = a(k) - 1
    BY <1>1, <2>1, LegsInARow DEF a, b
  <2>3. a(k) > 1 /\ Changes(P, a(k) - 1) = k - 2 /\ Changes(P, a(k)) = k - 1 /\ a(k) \in Nat
    BY <1>5, <2>1
  <2>4. P[a(k)].ride # P[a(k) - 1].ride
    <3>1. a(k) - 1 \in Nat /\ a(k) - 1 >= 1 /\ (a(k) - 1) + 1 = a(k)
      BY <2>3
    <3>2. Changes(P, a(k)) =
            Changes(P, a(k) - 1) + (IF P[a(k)].ride # P[a(k) - 1].ride THEN 1 ELSE 0)
      BY <3>1, ChangesStep
    <3> QED
      BY <2>1, <2>3, <3>2
  <2>5. P[b(k - 1)].ride = P[a(k - 1)].ride
    <3>1. /\ a(k - 1) \in 1 .. Len(P) /\ b(k - 1) \in a(k - 1) .. Len(P)
          /\ Changes(P, a(k - 1)) = Changes(P, b(k - 1))
      BY <1>1, <2>1, LegIsInterval DEF a, b
    <3>2. Routes(rd)
      OBVIOUS
    <3> QED
      BY <1>1, <3>1, <3>2, InARow
  <2>6. jn[k].ride = P[a(k)].ride /\ jn[k - 1].ride = P[a(k - 1)].ride
    <3>1. jn[k] = HopOf(P, k) /\ jn[k - 1] = HopOf(P, k - 1)
      BY <1>4, <2>1
    <3> QED
      BY <3>1 DEF HopOf, a
  <2> QED
    BY <1>7, <2>1, <2>2, <2>4, <2>5, <2>6
<1>12. ASSUME NEW k \in 1 .. N, NEW l \in 1 .. N, k < l,
              NEW c \in Passed(rd, jn[k]) \cap Passed(rd, jn[l])
       PROVE  l = k + 1 /\ c = City(rd, jn[l], jn[l].i)
  <2>1. PICK x \in (a(k) - 1) .. b(k) : x \in 0 .. Len(P) /\ c = At(rd, q, P, x)
    BY <1>8
  <2>2. PICK y \in (a(l) - 1) .. b(l) : y \in 0 .. Len(P) /\ c = At(rd, q, P, y)
    BY <1>8
  <2>3. x = y
    BY <1>1, <2>1, <2>2 DEF Walkable
  <2>4. /\ b(k) \in Nat /\ a(l) \in Nat
        /\ IF l = k + 1 THEN b(k) = a(l) - 1 ELSE b(k) < a(l) - 1
    BY <1>1, <1>12, LegsInARow DEF a, b
  <2>5. a(k) \in Nat /\ b(l) \in Nat
    BY <1>5
  <2>6. l = k + 1 /\ y = a(l) - 1
    BY <2>1, <2>2, <2>3, <2>4, <2>5
  <2> QED
    BY <1>7, <2>2, <2>6
<1>13. jn \in Journeys(rd, q)
  <2>1. jn \in UNION {[1 .. n -> Hops(rd, q)] : n \in 1 .. (q.transfers + 1)}
    BY <1>3, <1>6
  <2>2. \A k, l \in 1 .. N : k < l =>
          Passed(rd, jn[k]) \cap Passed(rd, jn[l]) \subseteq
            IF l = k + 1 THEN {City(rd, jn[l], jn[l].i)} ELSE {}
    <3> TAKE k, l \in 1 .. N
    <3> HAVE k < l
    <3> QED
      BY <1>12
  <2> QED
    BY <1>6, <1>9, <1>10, <1>11, <2>1, <2>2 DEF Journeys
<1>14. Shows(rd, buildItinerary(rd, P), jn)
  <2> DEFINE it == buildItinerary(rd, P)
             legs == [n \in 1 .. N |-> LegOf(rd, P, n)]
  <2>1. /\ it.legs = legs /\ it.transfers = transfersOf(P)
        /\ it.total = TotalOf(rd, legs)
    BY DEF buildItinerary
  <2> HIDE DEF it, N
  <2>2. /\ Len(legs) = N /\ DOMAIN legs = 1 .. N
        /\ \A n \in 1 .. N :
             legs[n] = [ride |-> jn[n].ride, segs |-> jn[n].i .. (jn[n].j - 1),
                        origin |-> City(rd, jn[n], jn[n].i),
                        destination |-> City(rd, jn[n], jn[n].j)]
    BY <1>3, <1>4
  <2> HIDE DEF legs
  <2>3. \A n \in 1 .. N :
          PriceOf(rd, legs[n].ride, legs[n].segs) =
            SumOver(rd[jn[n].ride].prices, jn[n].i .. (jn[n].j - 1))
    BY <2>2 DEF PriceOf
  <2>4. [n \in DOMAIN legs |-> PriceOf(rd, legs[n].ride, legs[n].segs)] =
          [n \in DOMAIN jn |-> SumOver(rd[jn[n].ride].prices, jn[n].i .. (jn[n].j - 1))]
    BY <1>6, <2>2, <2>3
  <2>5. it.total = Cost(rd, jn)
    BY <1>6, <2>1, <2>2, <2>4 DEF TotalOf, Cost
  <2>6. it.transfers = Len(jn) - 1
    BY <1>3, <1>6, <2>1
  <2>7. legs = [n \in DOMAIN jn |->
                  [ride |-> jn[n].ride, segs |-> jn[n].i .. (jn[n].j - 1),
                   origin |-> City(rd, jn[n], jn[n].i),
                   destination |-> City(rd, jn[n], jn[n].j)]]
    <3>1. legs = [n \in 1 .. N |-> legs[n]]
      BY DEF legs
    <3> QED
      BY <1>6, <2>2, <3>1
  <2> QED
    BY <2>1, <2>5, <2>6, <2>7 DEF Shows, it
<1> QED
  BY <1>13, <1>14 DEF jn

\* A step is in the leg that has as many changes before it.
LEMMA StepInLeg ==
  ASSUME NEW rd, Routes(rd), NEW q, NEW P, Walkable(rd, q, P), NEW k \in 1 .. Len(P)
  PROVE  LET n == Changes(P, k) + 1
         IN  /\ n \in 1 .. (transfersOf(P) + 1)
             /\ k \in LegSteps(P, n)
             /\ LegOf(rd, P, n).ride = P[k].ride
             /\ P[k].seg \in LegOf(rd, P, n).segs
<1> DEFINE n == Changes(P, k) + 1
           a == First(LegSteps(P, n))
<1>1. /\ P \in Seq(Steps(rd)) /\ Len(P) \in Nat /\ DOMAIN P = 1 .. Len(P)
      /\ Len(P) >= 1 /\ k \in Nat /\ k \in 0 .. Len(P)
  BY LenProperties DEF Walkable
<1>2. Changes(P, k) \in Nat /\ transfersOf(P) \in Nat /\ Changes(P, k) <= transfersOf(P)
  BY <1>1, ChangesType, ChangesGrow DEF transfersOf
<1>3. n \in 1 .. (transfersOf(P) + 1) /\ n - 1 = Changes(P, k)
  BY <1>2
<1>4. k \in LegSteps(P, n)
  BY <1>1, <1>3 DEF LegSteps
<1> HIDE DEF n
<1>5. /\ a \in 1 .. Len(P) /\ LegSteps(P, n) = a .. Final(LegSteps(P, n))
      /\ Changes(P, a) = n - 1 /\ Final(LegSteps(P, n)) \in a .. Len(P)
  BY <1>1, <1>3, LegIsInterval
<1> HIDE DEF a
<1>6. k \in a .. Len(P)
  <2>1. \A x \in a .. Final(LegSteps(P, n)) : x \in a .. Len(P)
    BY <1>1, <1>5
  <2> QED
    BY <1>4, <1>5, <2>1
<1>7. P[k].ride = P[a].ride
  BY <1>3, <1>5, <1>6, InARow
<1> QED
  BY <1>3, <1>4, <1>7 DEF LegOf, n, a

\* No two paths share their first steps and show the same legs when one stays
\* in the car where the other leaves it.
LEMMA LeavesTheCar ==
  ASSUME NEW rd, Routes(rd), NEW q, NEW P, Walkable(rd, q, P), NEW Q, Walkable(rd, q, Q),
         NEW k \in 1 .. Len(P), k \in 1 .. Len(Q), k > 1,
         \A i \in 1 .. (k - 1) : P[i] = Q[i],
         transfersOf(P) = transfersOf(Q),
         \A n \in 1 .. (transfersOf(P) + 1) : LegOf(rd, P, n) = LegOf(rd, Q, n),
         P[k].ride = P[k - 1].ride, Q[k].ride # Q[k - 1].ride
  PROVE  FALSE
<1> DEFINE m == Changes(P, k - 1)
<1>1. /\ P \in Seq(Steps(rd)) /\ Q \in Seq(Steps(rd)) /\ Len(P) \in Nat /\ Len(Q) \in Nat
      /\ k \in Nat /\ k - 1 \in Nat /\ k - 1 >= 1 /\ (k - 1) + 1 = k
      /\ k - 1 \in 1 .. Len(P) /\ k - 1 \in 1 .. Len(Q) /\ k - 1 \in 1 .. (k - 1)
  BY LenProperties DEF Walkable
<1>2. m \in Nat /\ Changes(Q, k - 1) = m
  BY <1>1, ChangesType, ChangesSame
<1>3. Changes(P, k) = m /\ Changes(Q, k) = m + 1
  <2>1. /\ Changes(P, k) = m + (IF P[k].ride # P[k - 1].ride THEN 1 ELSE 0)
        /\ Changes(Q, k) =
             Changes(Q, k - 1) + (IF Q[k].ride # Q[k - 1].ride THEN 1 ELSE 0)
    BY <1>1, ChangesStep
  <2> QED
    BY <1>2, <2>1
<1>4. m + 1 \in 1 .. (transfersOf(P) + 1) /\ P[k].seg \in LegOf(rd, P, m + 1).segs
  BY <1>3, StepInLeg
<1>5. P[k].seg \in LegOf(rd, Q, m + 1).segs
  BY <1>4
<1>6. PICK x \in LegSteps(Q, m + 1) : P[k].seg = Q[x].seg
  BY <1>5 DEF LegOf
<1> HIDE DEF m
<1>7. x \in 1 .. Len(Q) /\ Changes(Q, x) = m
  <2>1. x \in 1 .. Len(Q) /\ Changes(Q, x) = (m + 1) - 1
    BY <1>1, LenProperties DEF LegSteps
  <2> QED
    BY <1>2, <2>1
<1>8. x < k
  <2> SUFFICES ASSUME k <= x PROVE FALSE
    BY <1>1, <1>7
  <2>1. x \in Nat /\ k \in 0 .. x
    BY <1>1, <1>7
  <2>2. Changes(Q, k) <= Changes(Q, x)
    BY <2>1, ChangesGrow
  <2> QED
    BY <1>2, <1>3, <1>7, <2>2
<1>9. k - 1 \in x .. Len(Q)
  BY <1>1, <1>7, <1>8
<1>10. Q[k - 1].seg = Q[x].seg + ((k - 1) - x)
  BY <1>2, <1>7, <1>9, InARow
<1>11. P[k].seg = P[k - 1].seg + 1
  BY <1>1, NextSegment
<1>12. P[k - 1] = Q[k - 1]
  BY <1>1
<1>13. P[k - 1].seg \in Nat /\ Q[x].seg \in Nat
  <2>1. P[k - 1] \in Steps(rd) /\ Q[x] \in Steps(rd)
    BY <1>1, <1>7, ElementOfSeq
  <2> QED
    BY <2>1 DEF Steps
<1>14. x \in Nat /\ k \in Nat /\ x < k /\ k - 1 \in Nat
  BY <1>1, <1>7, <1>8
<1> DEFINE s == P[k - 1].seg
           t == Q[x].seg
<1>15. s + 1 = t /\ s = t + ((k - 1) - x) /\ s \in Nat /\ t \in Nat
  BY <1>6, <1>10, <1>11, <1>12, <1>13
<1> HIDE DEF s, t
<1> QED
  BY <1>14, <1>15

\* Different paths that arrive show differently.
LEMMA PathsShowApart ==
  ASSUME NEW rd, Routes(rd), NEW q, q.transfers \in Nat,
         NEW P, Arrives(rd, q, P), NEW Q, Arrives(rd, q, Q),
         buildItinerary(rd, P) = buildItinerary(rd, Q)
  PROVE  P = Q
<1>1. /\ Walkable(rd, q, P) /\ Walkable(rd, q, Q) /\ Routes(rd)
      /\ P \in Seq(Steps(rd)) /\ Q \in Seq(Steps(rd))
      /\ Len(P) \in Nat /\ Len(Q) \in Nat /\ Len(P) >= 1 /\ Len(Q) >= 1
      /\ At(rd, q, P, Len(P)) = q.to /\ At(rd, q, Q, Len(Q)) = q.to
  <2>1. /\ Walkable(rd, q, P) /\ P # << >> /\ At(rd, q, P, Len(P)) = q.to
        /\ Walkable(rd, q, Q) /\ Q # << >> /\ At(rd, q, Q, Len(Q)) = q.to
    BY DEF Arrives
  <2>2. P \in Seq(Steps(rd)) /\ Q \in Seq(Steps(rd))
    BY <2>1 DEF Walkable
  <2>3. Len(P) \in Nat /\ Len(Q) \in Nat /\ Len(P) >= 1 /\ Len(Q) >= 1
    BY <2>1, <2>2, EmptySeq, LenProperties
  <2> QED
    BY <2>1, <2>2, <2>3
<1>2. transfersOf(P) = transfersOf(Q)
  <2>1. /\ buildItinerary(rd, P).transfers = transfersOf(P)
        /\ buildItinerary(rd, Q).transfers = transfersOf(Q)
    BY DEF buildItinerary
  <2> QED
    BY <2>1
<1>3. \A n \in 1 .. (transfersOf(P) + 1) : LegOf(rd, P, n) = LegOf(rd, Q, n)
  <2> DEFINE legs(R) == [n \in 1 .. (transfersOf(R) + 1) |-> LegOf(rd, R, n)]
  <2>1. legs(P) = buildItinerary(rd, P).legs /\ legs(Q) = buildItinerary(rd, Q).legs
    BY DEF buildItinerary
  <2>2. legs(P) = legs(Q)
    BY <2>1
  <2> TAKE n \in 1 .. (transfersOf(P) + 1)
  <2>3. legs(P)[n] = LegOf(rd, P, n) /\ legs(Q)[n] = LegOf(rd, Q, n)
    BY <1>2
  <2> HIDE DEF legs
  <2> QED
    BY <2>2, <2>3
<1> DEFINE D == {k \in 1 .. Len(P) : k > Len(Q) \/ P[k] # Q[k]}
<1>4. CASE D = {}
  <2>1. \A k \in 1 .. Len(P) : k <= Len(Q) /\ P[k] = Q[k]
    BY <1>1, <1>4
  <2>2. Len(P) \in 1 .. Len(P) /\ Len(P) \in 0 .. Len(Q) /\ Len(Q) \in 0 .. Len(Q)
    BY <1>1, <2>1
  <2>3. At(rd, q, P, Len(P)) = At(rd, q, Q, Len(P))
    BY <2>1, <2>2 DEF At
  <2>4. Len(P) = Len(Q)
    BY <1>1, <2>2, <2>3 DEF Walkable
  <2> QED
    BY <1>1, <2>1, <2>4, SeqEqual
<1>5. CASE D # {}
  <2>1. PICK k \in D : \A l \in D : ~ (l < k)
    <3>1. D \in SUBSET Nat
      BY <1>1
    <3> HIDE DEF D
    <3> QED
      BY <1>5, <3>1, LeastNatural
  <2>2. /\ k \in 1 .. Len(P) /\ k \in Nat /\ k >= 1
        /\ \A i \in 1 .. (k - 1) : i <= Len(Q) /\ P[i] = Q[i]
    BY <1>1, <2>1
  <2>3. \A i \in 0 .. (k - 1) : At(rd, q, P, i) = At(rd, q, Q, i)
    BY <2>2 DEF At
  <2>4. k \in 1 .. Len(Q)
    <3> SUFFICES ASSUME k > Len(Q) PROVE FALSE
      BY <1>1, <2>2
    <3>1. Len(Q) \in 0 .. (k - 1) /\ Len(Q) \in 0 .. Len(P) /\ Len(P) \in 0 .. Len(P)
      BY <1>1, <2>2
    <3>2. At(rd, q, P, Len(Q)) = At(rd, q, P, Len(P))
      BY <1>1, <2>3, <3>1
    <3>3. Len(Q) = Len(P)
      BY <1>1, <3>1, <3>2 DEF Walkable
    <3> QED
      BY <1>1, <2>2, <3>3
  <2>5. P[k] # Q[k]
    BY <1>1, <2>1, <2>4
  <2>6. P[k].ride # Q[k].ride
    <3>1. k - 1 \in 0 .. (k - 1)
      BY <2>2
    <3> QED
      BY <1>1, <2>2, <2>3, <2>4, <2>5, <3>1, SameStep
  <2>7. Changes(P, k) # Changes(Q, k)
    <3> SUFFICES ASSUME Changes(P, k) = Changes(Q, k) PROVE FALSE
      OBVIOUS
    <3>1. /\ Changes(P, k) + 1 \in 1 .. (transfersOf(P) + 1)
          /\ LegOf(rd, P, Changes(P, k) + 1).ride = P[k].ride
      BY <1>1, <2>2, StepInLeg
    <3>2. LegOf(rd, Q, Changes(Q, k) + 1).ride = Q[k].ride
      BY <1>1, <2>4, StepInLeg
    <3> QED
      BY <1>3, <2>6, <3>1, <3>2
  <2>8. k > 1
    <3> SUFFICES ASSUME k = 1 PROVE FALSE
      BY <2>2
    <3> QED
      BY <2>7, NoChangeYet
  <2>9. k - 1 \in Nat /\ k - 1 >= 1 /\ (k - 1) + 1 = k /\ k - 1 \in 1 .. (k - 1)
    BY <2>2, <2>8
  <2>10. Changes(P, k - 1) = Changes(Q, k - 1) /\ P[k - 1] = Q[k - 1]
    BY <2>2, <2>9, ChangesSame
  <2>11. /\ Changes(P, k) =
              Changes(P, k - 1) + (IF P[k].ride # P[k - 1].ride THEN 1 ELSE 0)
         /\ Changes(Q, k) =
              Changes(Q, k - 1) + (IF Q[k].ride # Q[k - 1].ride THEN 1 ELSE 0)
    BY <2>9, ChangesStep
  <2>12. CASE P[k].ride = P[k - 1].ride
    <3>1. Q[k].ride # Q[k - 1].ride
      BY <2>7, <2>10, <2>11, <2>12
    <3> QED
      BY <1>1, <1>2, <1>3, <2>2, <2>4, <2>8, <2>12, <3>1, LeavesTheCar
  <2>13. CASE P[k].ride # P[k - 1].ride
    <3>1. Q[k].ride = Q[k - 1].ride
      BY <2>7, <2>10, <2>11, <2>13
    <3> QED
      BY <1>1, <1>2, <1>3, <2>2, <2>4, <2>8, <2>13, <3>1, LeavesTheCar
  <2> QED
    BY <2>12, <2>13
<1> QED
  BY <1>4, <1>5

-----------------------------------------------------------------------------
(***************************************************************************)
(* Prices.                                                                 *)
(***************************************************************************)
\* The sum of natural numbers over a finite set is one.
LEMMA SumType ==
  ASSUME NEW f, NEW S, IsFiniteSet(S), \A x \in S : f[x] \in Nat
  PROVE  SumOver(f, S) \in Nat
<1> DEFINE pick(s) == CHOOSE x \in s : TRUE
           Rule(g, s) == IF s = {} THEN 0 ELSE f[pick(s)] + g[s \ {pick(s)}]
           Sums(g, n) == /\ g \in [SUBSET S -> Nat]
                         /\ \A s \in SUBSET S : Cardinality(s) <= n => g[s] = Rule(g, s)
           D == {n \in Nat : ~ \E g : Sums(g, n)}
           it == CHOOSE g : g = [s \in SUBSET S |-> Rule(g, s)]
<1>1. \A s \in SUBSET S : IsFiniteSet(s) /\ Cardinality(s) \in Nat
  BY FS_Subset, FS_CardinalityType
<1>2. ASSUME NEW s \in SUBSET S, s # {}
      PROVE  /\ pick(s) \in s /\ f[pick(s)] \in Nat /\ s \ {pick(s)} \in SUBSET S
             /\ Cardinality(s \ {pick(s)}) = Cardinality(s) - 1
  <2>1. pick(s) \in s
    BY <1>2
  <2>2. Cardinality(s \ {pick(s)}) = Cardinality(s) - 1
    BY <1>1, <2>1, FS_RemoveElement
  <2> QED
    BY <2>1, <2>2
<1> HIDE DEF pick
<1>3. D = {}
  <2> SUFFICES ASSUME D # {} PROVE FALSE
    OBVIOUS
  <2>1. PICK n \in D : \A m \in D : ~ (m < n)
    <3>1. D \in SUBSET Nat
      OBVIOUS
    <3> HIDE DEF D
    <3> QED
      BY <3>1, LeastNatural
  <2>2. n \in Nat
    OBVIOUS
  <2>3. CASE n = 0
    <3> DEFINE g == [s \in SUBSET S |-> 0]
    <3>1. g \in [SUBSET S -> Nat]
      OBVIOUS
    <3>2. ASSUME NEW s \in SUBSET S, Cardinality(s) <= n PROVE g[s] = Rule(g, s)
      <4>1. s = {}
        BY <1>1, <2>3, <3>2, FS_EmptySet
      <4> QED
        BY <4>1
    <3>3. Sums(g, n)
      BY <3>1, <3>2
    <3> QED
      BY <2>1, <3>3
  <2>4. CASE n # 0
    <3>1. n - 1 \in Nat /\ n - 1 < n
      BY <2>2, <2>4
    <3>2. PICK g : Sums(g, n - 1)
      BY <2>1, <3>1
    <3> DEFINE h == [s \in SUBSET S |-> Rule(g, s)]
    <3>3. ASSUME NEW s \in SUBSET S PROVE Rule(g, s) \in Nat
      <4>1. CASE s = {}
        BY <4>1
      <4>2. CASE s # {}
        <5>1. f[pick(s)] \in Nat /\ s \ {pick(s)} \in SUBSET S
          BY <1>2, <4>2
        <5>2. g[s \ {pick(s)}] \in Nat
          BY <3>2, <5>1
        <5> QED
          BY <4>2, <5>1, <5>2
      <4> QED
        BY <4>1, <4>2
    <3>4. h \in [SUBSET S -> Nat]
      BY <3>3
    <3>5. ASSUME NEW s \in SUBSET S, Cardinality(s) <= n - 1 PROVE h[s] = g[s]
      BY <3>2, <3>5
    <3>6. ASSUME NEW s \in SUBSET S, Cardinality(s) <= n PROVE h[s] = Rule(h, s)
      <4>1. CASE s = {}
        BY <4>1
      <4>2. CASE s # {}
        <5>1. /\ s \ {pick(s)} \in SUBSET S
              /\ Cardinality(s \ {pick(s)}) = Cardinality(s) - 1
          BY <1>2, <4>2
        <5>2. Cardinality(s \ {pick(s)}) <= n - 1
          BY <1>1, <2>2, <3>6, <5>1
        <5>3. h[s \ {pick(s)}] = g[s \ {pick(s)}]
          BY <3>5, <5>1, <5>2
        <5>4. h[s] = Rule(g, s)
          OBVIOUS
        <5> HIDE DEF h
        <5> QED
          BY <4>2, <5>3, <5>4
      <4> QED
        BY <4>1, <4>2
    <3>7. Sums(h, n)
      BY <3>4, <3>6
    <3> QED
      BY <2>1, <3>7
  <2> QED
    BY <2>3, <2>4
<1>4. PICK g : Sums(g, Cardinality(S))
  <2>1. Cardinality(S) \in Nat
    BY <1>1
  <2> QED
    BY <1>3, <2>1
<1>5. g = [s \in SUBSET S |-> Rule(g, s)]
  <2>1. \A s \in SUBSET S : g[s] = Rule(g, s)
    <3> TAKE s \in SUBSET S
    <3>1. Cardinality(s) <= Cardinality(S)
      BY FS_Subset
    <3> QED
      BY <1>4, <3>1
  <2>2. g = [s \in SUBSET S |-> g[s]]
    BY <1>4
  <2> HIDE DEF Rule
  <2> QED
    BY <2>1, <2>2
<1>6. it = [s \in SUBSET S |-> Rule(it, s)]
  <2> HIDE DEF Rule
  <2> QED
    BY <1>5
<1> HIDE DEF it
<1>7. \A s \in SUBSET S : it[s] \in Nat
  <2> DEFINE Bad == {Cardinality(s) : s \in {t \in SUBSET S : it[t] \notin Nat}}
  <2> SUFFICES ASSUME Bad # {} PROVE FALSE
    OBVIOUS
  <2>1. PICK n \in Bad : \A m \in Bad : ~ (m < n)
    <3>1. Bad \in SUBSET Nat
      BY <1>1
    <3> HIDE DEF Bad
    <3> QED
      BY <3>1, LeastNatural
  <2>2. PICK s \in SUBSET S : it[s] \notin Nat /\ Cardinality(s) = n
    BY <2>1
  <2>3. it[s] = Rule(it, s)
    <3> HIDE DEF Rule
    <3> QED
      BY <1>6
  <2>4. s # {}
    BY <2>2, <2>3
  <2>5. /\ f[pick(s)] \in Nat /\ s \ {pick(s)} \in SUBSET S
        /\ Cardinality(s \ {pick(s)}) = Cardinality(s) - 1
    BY <1>2, <2>4
  <2>6. it[s \ {pick(s)}] \in Nat
    <3> SUFFICES ASSUME it[s \ {pick(s)}] \notin Nat PROVE FALSE
      OBVIOUS
    <3>1. Cardinality(s) - 1 \in Bad
      BY <2>5
    <3>2. Cardinality(s) \in Nat
      BY <1>1
    <3> HIDE DEF Bad
    <3>3. Cardinality(s) - 1 < n
      BY <2>2, <3>2
    <3> QED
      BY <2>1, <3>1, <3>3
  <2> QED
    BY <2>2, <2>3, <2>4, <2>5, <2>6
<1>8. SumOver(f, S) = it[S]
  BY DEF SumOver, MapThenSumSet, MapThenFoldSet, it, pick
<1> QED
  BY <1>7, <1>8

\* What a path costs is a natural number.
LEMMA TotalType ==
  ASSUME NEW rd, Routes(rd), NEW q, q.transfers \in Nat, NEW P, Arrives(rd, q, P)
  PROVE  /\ buildItinerary(rd, P).total \in Nat
         /\ buildItinerary(rd, P).transfers \in Nat
<1> DEFINE N == transfersOf(P) + 1
           legs == [n \in 1 .. N |-> LegOf(rd, P, n)]
           f == [n \in DOMAIN legs |-> PriceOf(rd, legs[n].ride, legs[n].segs)]
<1>1. /\ Walkable(rd, q, P) /\ P # << >> /\ P \in Seq(Steps(rd))
      /\ Len(P) \in Nat /\ Len(P) >= 1 /\ DOMAIN P = 1 .. Len(P) /\ Routes(rd)
  BY EmptySeq, LenProperties DEF Arrives, Walkable
<1>2. transfersOf(P) \in Nat
  BY <1>1, ChangesType DEF transfersOf
<1>3. /\ buildItinerary(rd, P).total = SumOver(f, DOMAIN legs)
      /\ buildItinerary(rd, P).transfers = transfersOf(P)
  BY DEF buildItinerary, TotalOf
<1>4. DOMAIN legs = 1 .. N /\ IsFiniteSet(DOMAIN legs)
  <2>1. IsFiniteSet(1 .. N)
    BY <1>2, FS_Interval
  <2> QED
    BY <2>1
<1>5. ASSUME NEW n \in 1 .. N
      PROVE  f[n] \in Nat
  <2> DEFINE h == HopOf(P, n)
             S == LegSteps(P, n)
             r == h.ride
  <2>1. /\ h \in Hops(rd, q) /\ h.i \in Nat
        /\ h.j = h.i + (Final(S) - First(S)) + 1
        /\ {P[k].seg : k \in S} = h.i .. (h.j - 1)
        /\ LegOf(rd, P, n).ride = r /\ LegOf(rd, P, n).segs = h.i .. (h.j - 1)
    BY <1>1, LegIsHop
  <2>2. First(S) \in 1 .. Len(P) /\ Final(S) \in First(S) .. Len(P)
    BY <1>1, LegIsInterval
  <2>3. h.j \in Int
    BY <1>1, <2>1, <2>2
  <2>4. IsFiniteSet(h.i .. (h.j - 1))
    <3> HIDE DEF h
    <3> QED
      BY <2>1, <2>3, FS_Interval
  <2>5. r \in DOMAIN rd /\ h.j \in DOMAIN rd[r].cities
    <3> HIDE DEF h
    <3> QED
      BY <2>1 DEF Hops
  <2>6. ASSUME NEW s \in h.i .. (h.j - 1) PROVE rd[r].prices[s] \in Nat
    <3>1. Route(rd[r])
      BY <1>1, <2>5 DEF Routes
    <3>2. h.i \in DOMAIN rd[r].cities /\ DOMAIN rd[r].cities = 1 .. Len(rd[r].cities)
          /\ Len(rd[r].cities) \in Nat
      BY <2>1, <3>1 DEF Hops, Route
    <3>3. s \in 1 .. (Len(rd[r].cities) - 1)
      BY <2>3, <2>5, <3>2
    <3> QED
      BY <3>1, <3>3 DEF Route
  <2>7. SumOver(rd[r].prices, h.i .. (h.j - 1)) \in Nat
    <3> HIDE DEF h, r
    <3> QED
      BY <2>4, <2>6, SumType
  <2>8. f[n] = PriceOf(rd, LegOf(rd, P, n).ride, LegOf(rd, P, n).segs)
    BY <1>4
  <2> QED
    BY <2>1, <2>7, <2>8 DEF PriceOf
<1> HIDE DEF f, legs
<1>6. SumOver(f, DOMAIN legs) \in Nat
  BY <1>4, <1>5, SumType
<1> QED
  BY <1>2, <1>3, <1>6

-----------------------------------------------------------------------------
(***************************************************************************)
(* The closure walk, as the function it is.  A loop and a call depend on   *)
(* later places of the order and on longer paths only, so both recursions  *)
(* have a solution, and what CHOOSE picks is one.                          *)
(***************************************************************************)
\* What the loop of a call along P has at place j of the order, before and
\* after: after is what the rest of the loop does.
Turn(walk, rd, order, q, P, j, f) ==
  IF CanFollow(rd, q, P, order[j]) THEN walk[Onward(rd, q, P, order[j])][f] ELSE f

RestOf(walk, rd, order, q, P, j, after) ==
  [f \in Seq(Paths(rd)) |->
     IF j > Len(order) THEN f ELSE after[Turn(walk, rd, order, q, P, j, f)]]

\* What a call along P does.
CallOf(walk, rd, order, q, P) ==
  [f \in Seq(Paths(rd)) |->
     IF Len(f) >= CutOff(q) THEN f
     ELSE IF P # << >> /\ Here(rd, q, P) = q.to THEN Append(f, P)
     ELSE Loop(walk, rd, order, q, P)[1][f]]

\* Going on from a path gives a path.
LEMMA OnwardPath ==
  ASSUME NEW rd, Routes(rd), NEW q, NEW P \in Paths(rd), NEW r \in DOMAIN rd
  PROVE  /\ Onward(rd, q, P, r) \in Paths(rd)
         /\ Len(Onward(rd, q, P, r)) = Len(P) + 1
         /\ Onward(rd, q, P, r) # << >>
<1> DEFINE x == [ride |-> r, seg |-> CityIndex(rd[r].cities, Here(rd, q, P))]
<1>1. Route(rd[r])
  BY DEF Routes
<1>2. CityIndex(rd[r].cities, Here(rd, q, P)) \in Nat
  BY <1>1, CityIndexFacts DEF Route
<1>3. x \in Steps(rd)
  BY <1>2 DEF Steps
<1> HIDE DEF x
<1>4. P \in Seq(Steps(rd))
  BY DEF Paths
<1>5. Append(P, x) \in Seq(Steps(rd)) /\ Append(P, x) # << >> /\ Len(Append(P, x)) = Len(P) + 1
  BY <1>3, <1>4, OneStepMore
<1> QED
  BY <1>5 DEF Onward, Paths, x

\* The loop is what its recursion says.
LEMMA LoopEquation ==
  ASSUME NEW rd, NEW q, NEW order, Len(order) \in Nat, NEW walk, NEW P
  PROVE  Loop(walk, rd, order, q, P) =
           [j \in 1 .. (Len(order) + 1) |->
              RestOf(walk, rd, order, q, P, j, Loop(walk, rd, order, q, P)[j + 1])]
<1> DEFINE N == Len(order)
           B(j, after) == RestOf(walk, rd, order, q, P, j, after)
           Rule(g) == [j \in 1 .. (N + 1) |-> B(j, g[j + 1])]
           Good(g, n) == \A j \in 1 .. (N + 1) : j + n > N + 1 => g[j] = B(j, g[j + 1])
           D == {n \in Nat : ~ \E g : Good(g, n)}
<1>1. Loop(walk, rd, order, q, P) = CHOOSE g : g = Rule(g)
  BY DEF Loop, RestOf, Turn
<1>2. \A g, h : B(N + 1, g) = B(N + 1, h)
  BY DEF RestOf
<1> HIDE DEF B
<1>3. ASSUME NEW g, NEW n \in Nat, Good(g, n)
      PROVE  /\ Good(Rule(g), n + 1)
             /\ \A j \in 1 .. (N + 1) : j + n > N + 1 => Rule(g)[j] = g[j]
  <2>1. \A j \in 1 .. (N + 1) : Rule(g)[j] = B(j, g[j + 1])
    OBVIOUS
  <2>2. \A j \in 1 .. (N + 1) : j + n > N + 1 => Rule(g)[j] = g[j]
    BY <1>3, <2>1
  <2> HIDE DEF Rule
  <2>3. ASSUME NEW j \in 1 .. (N + 1), j + (n + 1) > N + 1
        PROVE  Rule(g)[j] = B(j, Rule(g)[j + 1])
    <3>1. CASE j = N + 1
      BY <1>2, <2>1, <3>1
    <3>2. CASE j # N + 1
      <4>1. j + 1 \in 1 .. (N + 1) /\ (j + 1) + n > N + 1
        BY <2>3, <3>2
      <4>2. Rule(g)[j + 1] = g[j + 1]
        BY <2>2, <4>1
      <4> QED
        BY <2>1, <4>2
    <3> QED
      BY <3>1, <3>2
  <2> QED
    BY <2>2, <2>3
<1>4. D = {}
  <2> SUFFICES ASSUME D # {} PROVE FALSE
    OBVIOUS
  <2>1. PICK n \in D : \A m \in D : ~ (m < n)
    <3>1. D \in SUBSET Nat
      OBVIOUS
    <3> HIDE DEF D
    <3> QED
      BY <3>1, LeastNatural
  <2>2. CASE n = 0
    <3>1. \A g : Good(g, n)
      BY <2>2
    <3> HIDE DEF Good
    <3> QED
      BY <3>1
  <2>3. CASE n # 0
    <3>1. n \in Nat /\ n - 1 \in Nat /\ n - 1 < n /\ n = (n - 1) + 1
      BY <2>3
    <3>2. n - 1 \notin D
      BY <2>1, <3>1
    <3> HIDE DEF Good, Rule
    <3>3. PICK g : Good(g, n - 1)
      BY <3>1, <3>2
    <3>4. Good(Rule(g), n)
      BY <1>3, <3>1, <3>3
    <3> QED
      BY <3>4
  <2> QED
    BY <2>2, <2>3
<1>5. PICK g : Good(g, N + 1)
  <2>1. N + 1 \in Nat
    OBVIOUS
  <2> HIDE DEF Good
  <2> QED
    BY <1>4, <2>1
<1>6. Rule(g) = Rule(Rule(g))
  <2>1. \A j \in 1 .. (N + 1) : j + (N + 1) > N + 1
    OBVIOUS
  <2> HIDE DEF Good, Rule
  <2>2. \A j \in 1 .. (N + 1) : Rule(g)[j] = g[j]
    BY <1>3, <1>5, <2>1
  <2> USE DEF Rule
  <2>3. ASSUME NEW j \in 1 .. (N + 1) PROVE B(j, g[j + 1]) = B(j, Rule(g)[j + 1])
    <3> HIDE DEF Rule
    <3>1. CASE j = N + 1
      BY <1>2, <3>1
    <3>2. CASE j # N + 1
      <4>1. j + 1 \in 1 .. (N + 1)
        BY <3>2
      <4> QED
        BY <2>2, <4>1
    <3> QED
      BY <3>1, <3>2
  <2>4. Rule(Rule(g)) = [j \in 1 .. (N + 1) |-> B(j, Rule(g)[j + 1])]
    OBVIOUS
  <2>5. Rule(g) = [j \in 1 .. (N + 1) |-> B(j, g[j + 1])]
    OBVIOUS
  <2> HIDE DEF Rule
  <2> QED
    BY <2>3, <2>4, <2>5
<1>7. Loop(walk, rd, order, q, P) = Rule(Loop(walk, rd, order, q, P))
  <2> HIDE DEF Rule
  <2> QED
    BY <1>1, <1>6
<1> QED
  BY <1>7 DEF B

\* Behind the last place the loop ends.
LEMMA LoopLast ==
  ASSUME NEW rd, NEW q, NEW order, Len(order) \in Nat, NEW walk, NEW P,
         NEW f \in Seq(Paths(rd))
  PROVE  Loop(walk, rd, order, q, P)[Len(order) + 1][f] = f
<1> DEFINE rest == Loop(walk, rd, order, q, P)
           B(j) == RestOf(walk, rd, order, q, P, j, rest[j + 1])
<1>1. rest = [j \in 1 .. (Len(order) + 1) |-> B(j)]
  BY LoopEquation
<1>2. B(Len(order) + 1)[f] = f
  BY DEF RestOf
<1> HIDE DEF rest, B
<1>3. \A j \in 1 .. (Len(order) + 1) : rest[j] = B(j)
  BY <1>1
<1>4. rest[Len(order) + 1] = B(Len(order) + 1)
  BY <1>3
<1> QED
  BY <1>2, <1>4 DEF rest

\* At every other place it takes its turn and goes on at the next.
LEMMA LoopTurns ==
  ASSUME NEW rd, NEW q, NEW order, Len(order) \in Nat, NEW walk, NEW P,
         NEW f \in Seq(Paths(rd))
  PROVE  LET rest == Loop(walk, rd, order, q, P)
         IN  \A j \in 1 .. Len(order) :
               rest[j][f] = rest[j + 1][Turn(walk, rd, order, q, P, j, f)]
<1> DEFINE rest == Loop(walk, rd, order, q, P)
           B(j) == RestOf(walk, rd, order, q, P, j, rest[j + 1])
<1>1. rest = [j \in 1 .. (Len(order) + 1) |-> B(j)]
  BY LoopEquation
<1>2. \A j \in 1 .. Len(order) : B(j)[f] = rest[j + 1][Turn(walk, rd, order, q, P, j, f)]
  BY DEF RestOf
<1> HIDE DEF rest, B
<1>3. \A j \in 1 .. Len(order) : rest[j] = B(j)
  BY <1>1
<1> QED
  BY <1>2, <1>3 DEF rest

\* From place i up to place j no turn finds anything.
IdleTurns(walk, rd, order, q, P, f, i, j) ==
  \A m \in i .. (j - 1) : Turn(walk, rd, order, q, P, m, f) = f

\* Places at which a turn changes nothing can be left out.
LEMMA LoopSkips ==
  ASSUME NEW rd, NEW q, NEW order, Len(order) \in Nat, NEW walk, NEW P,
         NEW f \in Seq(Paths(rd)), NEW i \in 1 .. (Len(order) + 1),
         NEW j \in i .. (Len(order) + 1),
         IdleTurns(walk, rd, order, q, P, f, i, j)
  PROVE  Loop(walk, rd, order, q, P)[i][f] = Loop(walk, rd, order, q, P)[j][f]
<1> DEFINE rest == Loop(walk, rd, order, q, P)
           D == {n \in Nat : n <= j - i /\ rest[j - n][f] # rest[j][f]}
<1>1. i \in Nat /\ i >= 1 /\ j \in Nat /\ i <= j /\ j <= Len(order) + 1
  OBVIOUS
<1>2. ASSUME NEW m \in i .. (j - 1) PROVE rest[m][f] = rest[m + 1][f]
  <2>1. m \in 1 .. Len(order)
    BY <1>1
  <2>2. rest[m][f] = rest[m + 1][Turn(walk, rd, order, q, P, m, f)]
    BY <2>1, LoopTurns
  <2> QED
    BY <2>2 DEF IdleTurns
<1> HIDE DEF rest
<1>3. D = {}
  <2> SUFFICES ASSUME D # {} PROVE FALSE
    OBVIOUS
  <2>1. PICK n \in D : \A m \in D : ~ (m < n)
    <3>1. D \in SUBSET Nat
      OBVIOUS
    <3> HIDE DEF D
    <3> QED
      BY <3>1, LeastNatural
  <2>2. n \in Nat /\ n <= j - i /\ rest[j - n][f] # rest[j][f]
    BY <2>1
  <2>3. n # 0
    <3> SUFFICES ASSUME n = 0 PROVE FALSE
      OBVIOUS
    <3>1. j - n = j
      BY <1>1
    <3> QED
      BY <2>2, <3>1
  <2>4. n - 1 \in Nat /\ n - 1 <= j - i /\ n - 1 < n
    BY <1>1, <2>2, <2>3
  <2>5. rest[j - (n - 1)][f] = rest[j][f]
    <3>1. n - 1 \notin D
      BY <2>1, <2>4
    <3> QED
      BY <2>4, <3>1
  <2> DEFINE k == j - n
             l == j - (n - 1)
  <2>6. k \in i .. (j - 1) /\ k + 1 = l
    BY <1>1, <2>2, <2>3
  <2>7. rest[l][f] = rest[j][f] /\ rest[k][f] # rest[j][f]
    BY <2>2, <2>5
  <2> HIDE DEF k, l, D
  <2>8. rest[k][f] = rest[k + 1][f]
    BY <1>2, <2>6
  <2> QED
    BY <2>6, <2>7, <2>8
<1>4. rest[i][f] = rest[j][f]
  <2> DEFINE n == j - i
  <2>1. n \in Nat /\ n <= j - i /\ j - n = i
    BY <1>1
  <2> HIDE DEF n
  <2>2. rest[j - n][f] = rest[j][f]
    BY <1>3, <2>1
  <2> QED
    BY <2>1, <2>2
<1> QED
  BY <1>4 DEF rest

\* The loop calls walk for rides it can follow, and depends on nothing else of it.
LEMMA LoopSame ==
  ASSUME NEW rd, NEW q, NEW order, NEW v, NEW w, NEW P,
         \A j \in 1 .. Len(order) :
           CanFollow(rd, q, P, order[j]) =>
             v[Onward(rd, q, P, order[j])] = w[Onward(rd, q, P, order[j])],
         Len(order) \in Nat
  PROVE  Loop(v, rd, order, q, P) = Loop(w, rd, order, q, P)
<1> DEFINE N == Len(order)
           B(u, j, after) == RestOf(u, rd, order, q, P, j, after)
           Rule(u, g) == [j \in 1 .. (N + 1) |-> B(u, j, g[j + 1])]
<1>1. \A u : Loop(u, rd, order, q, P) = CHOOSE g : g = Rule(u, g)
  BY DEF Loop, RestOf, Turn
<1>2. ASSUME NEW j \in 1 .. (N + 1), NEW after
      PROVE  B(v, j, after) = B(w, j, after)
  <2>1. CASE j > N
    BY <2>1 DEF RestOf
  <2>2. CASE ~ (j > N)
    <3>1. j \in 1 .. N
      BY <2>2
    <3>2. \A f : Turn(v, rd, order, q, P, j, f) = Turn(w, rd, order, q, P, j, f)
      BY <3>1 DEF Turn
    <3> QED
      BY <3>2 DEF RestOf
  <2> QED
    BY <2>1, <2>2
<1> HIDE DEF B
<1>3. \A g : Rule(v, g) = Rule(w, g)
  BY <1>2
<1> HIDE DEF Rule
<1>4. (CHOOSE g : g = Rule(v, g)) = (CHOOSE g : g = Rule(w, g))
  BY <1>3
<1>5. /\ Loop(v, rd, order, q, P) = CHOOSE g : g = Rule(v, g)
      /\ Loop(w, rd, order, q, P) = CHOOSE g : g = Rule(w, g)
  BY <1>1
<1> QED
  BY <1>4, <1>5

\* The cities of a copy, and how many of them a path has not been to.
Stops(rd) == UNION {{rd[r].cities[i] : i \in DOMAIN rd[r].cities} : r \in DOMAIN rd}

ToGo(rd, q, P) == Cardinality(Stops(rd) \ Visited(rd, q, P))

LEMMA StopsFinite ==
  ASSUME NEW rd, Routes(rd)
  PROVE  IsFiniteSet(Stops(rd))
<1> DEFINE Of(r) == {rd[r].cities[i] : i \in DOMAIN rd[r].cities}
           All == {Of(r) : r \in DOMAIN rd}
           f == [r \in DOMAIN rd |-> Of(r)]
<1>1. ASSUME NEW r \in DOMAIN rd PROVE IsFiniteSet(Of(r))
  <2> DEFINE D == DOMAIN rd[r].cities
             g == [i \in D |-> rd[r].cities[i]]
  <2>1. D = 1 .. Len(rd[r].cities) /\ Len(rd[r].cities) \in Nat
    BY DEF Routes, Route
  <2>2. IsFiniteSet(D)
    BY <2>1, FS_Interval
  <2>3. g \in Surjection(D, Of(r))
    BY DEF Surjection
  <2> HIDE DEF D, g, Of
  <2> QED
    BY <2>2, <2>3, FS_Surjection
<1> HIDE DEF Of
<1>2. IsFiniteSet(All)
  <2>1. IsFiniteSet(DOMAIN rd)
    BY DEF Routes
  <2>2. f \in Surjection(DOMAIN rd, All)
    BY DEF Surjection
  <2> HIDE DEF f, All
  <2> QED
    BY <2>1, <2>2, FS_Surjection
<1>3. \A S \in All : IsFiniteSet(S)
  BY <1>1
<1> HIDE DEF All
<1>4. IsFiniteSet(UNION All)
  BY <1>2, <1>3, FS_UNION
<1> QED
  BY <1>4 DEF Stops, All, Of

\* Whoever follows an edge comes to a city of the copy.
LEMMA FewerToGo ==
  ASSUME NEW rd, Routes(rd), NEW q, NEW P \in Paths(rd),
         NEW r \in DOMAIN rd, CanFollow(rd, q, P, r)
  PROVE  /\ ToGo(rd, q, P) \in Nat
         /\ ToGo(rd, q, Onward(rd, q, P, r)) \in Nat
         /\ ToGo(rd, q, Onward(rd, q, P, r)) < ToGo(rd, q, P)
<1> DEFINE Q == Onward(rd, q, P, r)
           s == CityIndex(rd[r].cities, Here(rd, q, P))
           x == [ride |-> r, seg |-> s]
           c == EndOf(rd, x)
           U == Stops(rd) \ Visited(rd, q, P)
           V == Stops(rd) \ Visited(rd, q, Q)
<1>1. Q \in Seq(Steps(rd)) /\ Q # << >> /\ Len(Q) = Len(P) + 1 /\ P \in Seq(Steps(rd))
  BY OnwardPath DEF Paths
<1>2. Len(P) \in Nat /\ DOMAIN P = 1 .. Len(P) /\ DOMAIN Q = 1 .. Len(Q)
  BY <1>1, LenProperties
<1>3. (\A k \in 1 .. Len(P) : Q[k] = P[k]) /\ Q[Len(Q)] = x
  BY <1>1, <1>2, AppendProperties DEF Onward
<1>4. Here(rd, q, Q) = c
  BY <1>1, <1>3 DEF Here
<1>5. IsEdge(rd, q.date, r, s) /\ c \notin Visited(rd, q, P)
  BY <1>3, <1>4 DEF CanFollow
<1>6. c \in Stops(rd)
  <2>1. s + 1 \in DOMAIN rd[r].cities
    BY <1>5, EdgeStops
  <2> QED
    BY <2>1 DEF EndOf, Stops
<1>7. Visited(rd, q, Q) = Visited(rd, q, P) \cup {c}
  <2>1. \A k \in DOMAIN P : k \in DOMAIN Q /\ EndOf(rd, Q[k]) = EndOf(rd, P[k])
    BY <1>1, <1>2, <1>3
  <2>2. Len(Q) \in DOMAIN Q /\ EndOf(rd, Q[Len(Q)]) = c
    BY <1>1, <1>2, <1>3
  <2>3. \A k \in DOMAIN Q : k \in DOMAIN P \/ k = Len(Q)
    BY <1>1, <1>2
  <2> HIDE DEF Q, c
  <2> QED
    BY <2>1, <2>2, <2>3 DEF Visited
<1>8. IsFiniteSet(U) /\ IsFiniteSet(V)
  BY StopsFinite, FS_Difference
<1>9. V = U \ {c} /\ c \in U
  BY <1>5, <1>6, <1>7
<1>10. Cardinality(V) = Cardinality(U) - 1 /\ Cardinality(U) \in Nat /\ Cardinality(V) \in Nat
  <2> HIDE DEF U, V, c
  <2>1. Cardinality(U \ {c}) = Cardinality(U) - 1
    BY <1>8, <1>9, FS_RemoveElement
  <2>2. Cardinality(U) \in Nat /\ Cardinality(V) \in Nat
    BY <1>8, FS_CardinalityType
  <2> QED
    BY <1>9, <2>1, <2>2
<1> HIDE DEF U, V
<1>11. Cardinality(V) < Cardinality(U)
  BY <1>10
<1> QED
  BY <1>10, <1>11 DEF ToGo, U, V, Q

LEMMA ToGoType ==
  ASSUME NEW rd, Routes(rd), NEW q, NEW P
  PROVE  ToGo(rd, q, P) \in 0 .. Cardinality(Stops(rd)) /\ Cardinality(Stops(rd)) \in Nat
<1>1. IsFiniteSet(Stops(rd)) /\ Stops(rd) \ Visited(rd, q, P) \in SUBSET Stops(rd)
  BY StopsFinite
<1>2. /\ IsFiniteSet(Stops(rd) \ Visited(rd, q, P))
      /\ Cardinality(Stops(rd) \ Visited(rd, q, P)) <= Cardinality(Stops(rd))
  BY <1>1, FS_Subset
<1>3. ToGo(rd, q, P) \in Nat /\ Cardinality(Stops(rd)) \in Nat
  BY <1>1, <1>2, FS_CardinalityType DEF ToGo
<1> QED
  BY <1>2, <1>3 DEF ToGo

\* What a call does depends on the calls for the paths that go on from its own.
LEMMA CallSame ==
  ASSUME NEW rd, NEW q, NEW order \in Seq(DOMAIN rd), NEW v, NEW w, NEW P,
         \A r \in DOMAIN rd :
           CanFollow(rd, q, P, r) => v[Onward(rd, q, P, r)] = w[Onward(rd, q, P, r)]
  PROVE  CallOf(v, rd, order, q, P) = CallOf(w, rd, order, q, P)
<1>1. Len(order) \in Nat /\ \A j \in 1 .. Len(order) : order[j] \in DOMAIN rd
  BY LenProperties, ElementOfSeq
<1>2. \A j \in 1 .. Len(order) :
        CanFollow(rd, q, P, order[j]) =>
          v[Onward(rd, q, P, order[j])] = w[Onward(rd, q, P, order[j])]
  BY <1>1
<1>3. Loop(v, rd, order, q, P) = Loop(w, rd, order, q, P)
  BY <1>1, <1>2, LoopSame
<1> QED
  BY <1>3 DEF CallOf

\* The walk is what its recursion says.
LEMMA WalkEquation ==
  ASSUME NEW rd, Routes(rd), NEW q, NEW order \in Seq(DOMAIN rd)
  PROVE  WalkOf(rd, order, q) =
           [P \in Paths(rd) |-> CallOf(WalkOf(rd, order, q), rd, order, q, P)]
<1> DEFINE C(g, P) == CallOf(g, rd, order, q, P)
           Rule(g) == [P \in Paths(rd) |-> C(g, P)]
           Good(g, n) == \A P \in Paths(rd) : ToGo(rd, q, P) < n => g[P] = C(g, P)
           D == {n \in Nat : ~ \E g : Good(g, n)}
           M == Cardinality(Stops(rd))
<1>1. WalkOf(rd, order, q) = CHOOSE g : g = Rule(g)
  BY DEF WalkOf, CallOf
<1>2. ASSUME NEW P \in Paths(rd), NEW g, NEW h,
             \A Q \in Paths(rd) : ToGo(rd, q, Q) < ToGo(rd, q, P) => g[Q] = h[Q]
      PROVE  C(g, P) = C(h, P)
  <2>1. ASSUME NEW r \in DOMAIN rd, CanFollow(rd, q, P, r)
        PROVE  g[Onward(rd, q, P, r)] = h[Onward(rd, q, P, r)]
    <3>1. /\ Onward(rd, q, P, r) \in Paths(rd)
          /\ ToGo(rd, q, Onward(rd, q, P, r)) < ToGo(rd, q, P)
      BY <2>1, OnwardPath, FewerToGo
    <3> QED
      BY <1>2, <3>1
  <2> QED
    BY <2>1, CallSame
<1>3. \A P \in Paths(rd) : ToGo(rd, q, P) \in 0 .. M /\ M \in Nat
  BY ToGoType
<1> HIDE DEF C, M
<1>4. ASSUME NEW g, NEW n \in Nat, Good(g, n)
      PROVE  /\ Good(Rule(g), n + 1)
             /\ \A P \in Paths(rd) : ToGo(rd, q, P) < n => Rule(g)[P] = g[P]
  <2>1. \A P \in Paths(rd) : Rule(g)[P] = C(g, P)
    OBVIOUS
  <2>2. \A P \in Paths(rd) : ToGo(rd, q, P) < n => Rule(g)[P] = g[P]
    BY <1>4, <2>1
  <2> HIDE DEF Rule
  <2>3. ASSUME NEW P \in Paths(rd), ToGo(rd, q, P) < n + 1
        PROVE  Rule(g)[P] = C(Rule(g), P)
    <3>1. \A Q \in Paths(rd) : ToGo(rd, q, Q) < ToGo(rd, q, P) => g[Q] = Rule(g)[Q]
      <4> TAKE Q \in Paths(rd)
      <4>1. ToGo(rd, q, P) \in Nat /\ ToGo(rd, q, Q) \in Nat
        BY <1>3
      <4> QED
        BY <2>2, <2>3, <4>1
    <3>2. C(g, P) = C(Rule(g), P)
      BY <1>2, <3>1
    <3> QED
      BY <2>1, <3>2
  <2> QED
    BY <2>2, <2>3
<1>5. D = {}
  <2> SUFFICES ASSUME D # {} PROVE FALSE
    OBVIOUS
  <2>1. PICK n \in D : \A m \in D : ~ (m < n)
    <3>1. D \in SUBSET Nat
      OBVIOUS
    <3> HIDE DEF D
    <3> QED
      BY <3>1, LeastNatural
  <2>2. CASE n = 0
    <3>1. \A g : Good(g, n)
      BY <1>3, <2>2
    <3> HIDE DEF Good
    <3> QED
      BY <3>1
  <2>3. CASE n # 0
    <3>1. n \in Nat /\ n - 1 \in Nat /\ n - 1 < n /\ n = (n - 1) + 1
      BY <2>3
    <3>2. n - 1 \notin D
      BY <2>1, <3>1
    <3> HIDE DEF Good, Rule
    <3>3. PICK g : Good(g, n - 1)
      BY <3>1, <3>2
    <3>4. Good(Rule(g), n)
      BY <1>4, <3>1, <3>3
    <3> QED
      BY <3>4
  <2> QED
    BY <2>2, <2>3
<1>6. M \in Nat
  BY StopsFinite, FS_CardinalityType DEF M
<1>7. PICK g : Good(g, M + 1)
  <2>1. M + 1 \in Nat
    BY <1>6
  <2> HIDE DEF Good
  <2> QED
    BY <1>5, <2>1
<1>8. Rule(g) = Rule(Rule(g))
  <2>1. \A P \in Paths(rd) : ToGo(rd, q, P) < M + 1
    <3> TAKE P \in Paths(rd)
    <3>1. ToGo(rd, q, P) \in 0 .. M
      BY <1>3
    <3> QED
      BY <1>6, <3>1
  <2> HIDE DEF Good, Rule
  <2>2. M + 1 \in Nat
    BY <1>6
  <2>3. \A P \in Paths(rd) : Rule(g)[P] = g[P]
    BY <1>4, <1>7, <2>1, <2>2
  <2>4. \A P \in Paths(rd) : C(g, P) = C(Rule(g), P)
    BY <1>2, <2>3
  <2>5. Rule(Rule(g)) = [P \in Paths(rd) |-> C(Rule(g), P)]
    BY DEF Rule
  <2>6. Rule(g) = [P \in Paths(rd) |-> C(g, P)]
    BY DEF Rule
  <2> QED
    BY <2>4, <2>5, <2>6
<1>9. WalkOf(rd, order, q) = Rule(WalkOf(rd, order, q))
  <2> HIDE DEF Rule
  <2> QED
    BY <1>1, <1>8
<1> QED
  BY <1>9 DEF C

\* Call by call.
LEMMA WalkCalls ==
  ASSUME NEW rd, Routes(rd), NEW q, NEW order \in Seq(DOMAIN rd), NEW P \in Paths(rd),
         NEW f \in Seq(Paths(rd))
  PROVE  LET walk == WalkOf(rd, order, q)
         IN  walk[P][f] =
               IF Len(f) >= CutOff(q) THEN f
               ELSE IF P # << >> /\ Here(rd, q, P) = q.to THEN Append(f, P)
               ELSE Loop(walk, rd, order, q, P)[1][f]
<1> DEFINE walk == WalkOf(rd, order, q)
           C(R) == CallOf(walk, rd, order, q, R)
<1>1. walk = [R \in Paths(rd) |-> C(R)]
  BY WalkEquation
<1>2. C(P)[f] = IF Len(f) >= CutOff(q) THEN f
                ELSE IF P # << >> /\ Here(rd, q, P) = q.to THEN Append(f, P)
                ELSE Loop(walk, rd, order, q, P)[1][f]
  BY DEF CallOf
<1> HIDE DEF walk, C
<1>3. walk[P] = C(P)
  BY <1>1
<1> QED
  BY <1>2, <1>3 DEF walk

\* What every call of the loop keeps true of the paths found the loop keeps true.
LEMMA LoopKeeps ==
  ASSUME NEW rd, NEW q, NEW order, Len(order) \in Nat, NEW walk, NEW P,
         NEW F \in SUBSET Seq(Paths(rd)),
         \A j \in 1 .. Len(order) : \A f \in F :
           CanFollow(rd, q, P, order[j]) => walk[Onward(rd, q, P, order[j])][f] \in F
  PROVE  \A j \in 1 .. (Len(order) + 1) : \A f \in F :
           Loop(walk, rd, order, q, P)[j][f] \in F
<1> DEFINE N == Len(order)
           rest == Loop(walk, rd, order, q, P)
           D == {n \in Nat : n <= N /\ \E f \in F : rest[N + 1 - n][f] \notin F}
<1>1. ASSUME NEW f \in F PROVE rest[N + 1][f] = f
  <2>1. f \in Seq(Paths(rd))
    OBVIOUS
  <2> QED
    BY <2>1, LoopLast
<1>2. ASSUME NEW f \in F, NEW j \in 1 .. N
      PROVE  /\ Turn(walk, rd, order, q, P, j, f) \in F
             /\ rest[j][f] = rest[j + 1][Turn(walk, rd, order, q, P, j, f)]
  <2>1. Turn(walk, rd, order, q, P, j, f) \in F
    BY DEF Turn
  <2>2. f \in Seq(Paths(rd))
    OBVIOUS
  <2> QED
    BY <2>1, <2>2, LoopTurns
<1> HIDE DEF rest
<1>3. D = {}
  <2> SUFFICES ASSUME D # {} PROVE FALSE
    OBVIOUS
  <2>1. PICK n \in D : \A m \in D : ~ (m < n)
    <3>1. D \in SUBSET Nat
      OBVIOUS
    <3> HIDE DEF D
    <3> QED
      BY <3>1, LeastNatural
  <2>2. PICK f \in F : rest[N + 1 - n][f] \notin F
    BY <2>1
  <2>3. n # 0
    <3>1. CASE n = 0
      <4>1. N + 1 - n = N + 1
        BY <3>1
      <4> QED
        BY <1>1, <2>2, <4>1
    <3> QED
      BY <3>1
  <2>4. n \in Nat /\ n <= N /\ n - 1 \in Nat /\ n - 1 <= N /\ n - 1 < n
    BY <2>1, <2>3
  <2>5. N + 1 - n \in 1 .. N /\ (N + 1 - n) + 1 = N + 1 - (n - 1)
    BY <2>4
  <2>6. \A g \in F : rest[N + 1 - (n - 1)][g] \in F
    <3>1. n - 1 \notin D
      BY <2>1, <2>4
    <3> QED
      BY <2>4, <3>1
  <2> DEFINE g == Turn(walk, rd, order, q, P, N + 1 - n, f)
             j == N + 1 - n
             k == N + 1 - (n - 1)
  <2>7. g \in F /\ rest[j][f] = rest[j + 1][g]
    BY <1>2, <2>5
  <2>8. j + 1 = k
    BY <2>5
  <2> HIDE DEF g, j, k
  <2>9. rest[k][g] \in F
    BY <2>6, <2>7 DEF k
  <2>10. rest[j][f] \in F
    BY <2>7, <2>8, <2>9
  <2> QED
    BY <2>2, <2>10 DEF j
<1>4. ASSUME NEW j \in 1 .. (N + 1), NEW f \in F PROVE rest[j][f] \in F
  <2> DEFINE n == N + 1 - j
  <2>1. n \in Nat /\ n <= N /\ N + 1 - n = j
    OBVIOUS
  <2> HIDE DEF n
  <2> QED
    BY <1>3, <2>1
<1> QED
  BY <1>4 DEF rest

\* And what finding a path keeps true the walk keeps true.
LEMMA WalkKeeps ==
  ASSUME NEW rd, Routes(rd), NEW q, NEW order \in Seq(DOMAIN rd),
         NEW G \in SUBSET Paths(rd), NEW F \in SUBSET Seq(Paths(rd)),
         \A P \in G : \A r \in DOMAIN rd : CanFollow(rd, q, P, r) => Onward(rd, q, P, r) \in G,
         \A P \in G : \A f \in F :
           P # << >> /\ Here(rd, q, P) = q.to => Append(f, P) \in F
  PROVE  \A P \in G : \A f \in F : WalkOf(rd, order, q)[P][f] \in F
<1> DEFINE walk == WalkOf(rd, order, q)
           D == {n \in Nat : \E P \in G : ToGo(rd, q, P) = n /\ \E f \in F : walk[P][f] \notin F}
<1>1. Len(order) \in Nat /\ \A j \in 1 .. Len(order) : order[j] \in DOMAIN rd
  BY LenProperties, ElementOfSeq
<1>2. ASSUME NEW P \in G, NEW f \in F
      PROVE  walk[P][f] = IF Len(f) >= CutOff(q) THEN f
                          ELSE IF P # << >> /\ Here(rd, q, P) = q.to THEN Append(f, P)
                          ELSE Loop(walk, rd, order, q, P)[1][f]
  BY WalkCalls
<1> HIDE DEF walk
<1>3. D = {}
  <2> SUFFICES ASSUME D # {} PROVE FALSE
    OBVIOUS
  <2>1. PICK n \in D : \A m \in D : ~ (m < n)
    <3>1. D \in SUBSET Nat
      OBVIOUS
    <3> HIDE DEF D
    <3> QED
      BY <3>1, LeastNatural
  <2>2. PICK P \in G : ToGo(rd, q, P) = n /\ \E f \in F : walk[P][f] \notin F
    BY <2>1
  <2>3. PICK f \in F : walk[P][f] \notin F
    BY <2>2
  <2>4. ASSUME NEW j \in 1 .. Len(order), NEW g \in F, CanFollow(rd, q, P, order[j])
        PROVE  walk[Onward(rd, q, P, order[j])][g] \in F
    <3> DEFINE Q == Onward(rd, q, P, order[j])
    <3>1. order[j] \in DOMAIN rd
      BY <1>1
    <3>2. Q \in G
      BY <2>4, <3>1
    <3>3. ToGo(rd, q, Q) \in Nat /\ ToGo(rd, q, Q) < n
      BY <2>2, <2>4, <3>1, FewerToGo
    <3> HIDE DEF Q
    <3>4. ToGo(rd, q, Q) \notin D
      BY <2>1, <3>3
    <3> QED
      BY <3>2, <3>3, <3>4 DEF Q
  <2>5. Loop(walk, rd, order, q, P)[1][f] \in F
    <3>1. \A j \in 1 .. (Len(order) + 1) : \A g \in F :
            Loop(walk, rd, order, q, P)[j][g] \in F
      BY <1>1, <2>4, LoopKeeps
    <3>2. 1 \in 1 .. (Len(order) + 1)
      BY <1>1
    <3> QED
      BY <3>1, <3>2
  <2>6. P # << >> /\ Here(rd, q, P) = q.to => Append(f, P) \in F
    OBVIOUS
  <2> QED
    BY <1>2, <2>3, <2>5, <2>6
<1>4. ASSUME NEW P \in G, NEW f \in F PROVE walk[P][f] \in F
  <2>1. ToGo(rd, q, P) \in Nat
    BY ToGoType
  <2> QED
    BY <1>3, <2>1
<1> QED
  BY <1>4 DEF walk

\* A call takes paths to paths.
LEMMA WalkType ==
  ASSUME NEW rd, Routes(rd), NEW q, NEW order \in Seq(DOMAIN rd), NEW P \in Paths(rd),
         NEW f \in Seq(Paths(rd))
  PROVE  WalkOf(rd, order, q)[P][f] \in Seq(Paths(rd))
<1> DEFINE G == Paths(rd)
           F == Seq(Paths(rd))
<1>1. G \in SUBSET Paths(rd) /\ F \in SUBSET Seq(Paths(rd))
  OBVIOUS
<1>2. \A R \in G : \A r \in DOMAIN rd : CanFollow(rd, q, R, r) => Onward(rd, q, R, r) \in G
  BY OnwardPath
<1>3. \A R \in G : \A g \in F : R # << >> /\ Here(rd, q, R) = q.to => Append(g, R) \in F
  BY AppendProperties
<1> HIDE DEF F, G
<1>4. \A R \in G : \A g \in F : WalkOf(rd, order, q)[R][g] \in F
  BY <1>1, <1>2, <1>3, WalkKeeps
<1> QED
  BY <1>4 DEF F, G

\* Once enough is found a loop finds nothing.
LEMMA FullLoop ==
  ASSUME NEW rd, Routes(rd), NEW q, NEW order \in Seq(DOMAIN rd), NEW P \in Paths(rd),
         NEW f \in Seq(Paths(rd)), Len(f) >= CutOff(q), NEW i \in 1 .. (Len(order) + 1)
  PROVE  Loop(WalkOf(rd, order, q), rd, order, q, P)[i][f] = f
<1> DEFINE walk == WalkOf(rd, order, q)
           N == Len(order)
<1>1. N \in Nat /\ \A j \in 1 .. N : order[j] \in DOMAIN rd
  BY LenProperties, ElementOfSeq
<1>2. ASSUME NEW m \in i .. N PROVE Turn(walk, rd, order, q, P, m, f) = f
  <2>1. order[m] \in DOMAIN rd
    BY <1>1
  <2> DEFINE R == Onward(rd, q, P, order[m])
  <2>2. R \in Paths(rd)
    BY <2>1, OnwardPath
  <2> HIDE DEF R
  <2>3. walk[R][f] = f
    BY <2>2, WalkCalls
  <2> QED
    BY <2>3 DEF Turn, R
<1> HIDE DEF walk
<1>3. N + 1 \in i .. (N + 1) /\ \A m \in i .. ((N + 1) - 1) : m \in i .. N
  BY <1>1
<1>4. \A m \in i .. ((N + 1) - 1) : Turn(walk, rd, order, q, P, m, f) = f
  BY <1>2, <1>3
<1> DEFINE j == N + 1
<1>5. j \in i .. (Len(order) + 1) /\ IdleTurns(walk, rd, order, q, P, f, i, j)
  BY <1>3, <1>4 DEF IdleTurns
<1>6. Loop(walk, rd, order, q, P)[N + 1][f] = f
  BY <1>1, LoopLast
<1> HIDE DEF j
<1>7. Loop(walk, rd, order, q, P)[i][f] = Loop(walk, rd, order, q, P)[j][f]
  BY <1>1, <1>5, LoopSkips
<1> QED
  BY <1>6, <1>7 DEF walk, j

\* What walk finds is what the loop of its first call finds.
LEMMA EmptyWalk ==
  ASSUME NEW rd, Routes(rd), NEW q, NEW order \in Seq(DOMAIN rd)
  PROVE  Walk(rd, order, q) = Loop(WalkOf(rd, order, q), rd, order, q, << >>)[1][<< >>]
<1> DEFINE e == << >>
           walk == WalkOf(rd, order, q)
           one == 1
<1>1. e \in Paths(rd) /\ e \in Seq(Paths(rd))
  BY EmptySeq DEF Paths
<1>0. ~ (e # << >>)
  OBVIOUS
<1>2. one \in 1 .. (Len(order) + 1)
  BY LenProperties
<1>3. Walk(rd, order, q) = walk[e][e]
  BY DEF Walk
<1> HIDE DEF e, one
<1>4. CASE Len(e) >= CutOff(q)
  <2>1. walk[e][e] = e
    BY <1>1, <1>4, WalkCalls
  <2>2. Loop(walk, rd, order, q, e)[one][e] = e
    BY <1>1, <1>2, <1>4, FullLoop
  <2> QED
    BY <1>3, <2>1, <2>2 DEF e, one
<1>5. CASE ~ (Len(e) >= CutOff(q))
  <2>1. walk[e][e] = Loop(walk, rd, order, q, e)[1][e]
    <3>1. walk[e][e] = IF Len(e) >= CutOff(q) THEN e
               ELSE IF e # << >> /\ Here(rd, q, e) = q.to THEN Append(e, e)
               ELSE Loop(walk, rd, order, q, e)[1][e]
      BY <1>1, WalkCalls
    <3> QED
      BY <1>0, <1>5, <3>1
  <2> QED
    BY <1>3, <2>1 DEF e
<1> QED
  BY <1>4, <1>5

\* A loop that can follow no ride from place i up to place j might as well be
\* at place j.
LEMMA IdleLoop ==
  ASSUME NEW rd, NEW q, NEW order, Len(order) \in Nat, NEW walk, NEW P,
         NEW f \in Seq(Paths(rd)), NEW i \in 1 .. (Len(order) + 1),
         NEW j \in i .. (Len(order) + 1),
         \A m \in i .. (j - 1) : ~ CanFollow(rd, q, P, order[m])
  PROVE  Loop(walk, rd, order, q, P)[i][f] = Loop(walk, rd, order, q, P)[j][f]
<1>1. IdleTurns(walk, rd, order, q, P, f, i, j)
  BY DEF IdleTurns, Turn
<1> QED
  BY <1>1, LoopSkips

\* The path of no step is walkable.
LEMMA EmptyWalks ==
  ASSUME NEW rd, NEW q, q.transfers \in Nat
  PROVE  Walkable(rd, q, << >>) /\ << >> \in Paths(rd)
<1>1. << >> \in Seq(Steps(rd)) /\ Len(<< >>) = 0
  BY EmptySeq
<1>2. transfersOf(<< >>) = 0
  BY <1>1, NoChangeYet DEF transfersOf
<1>3. \A j, k \in 0 .. Len(<< >>) : j = k
  BY <1>1
<1>4. \A k \in 1 .. Len(<< >>) : FALSE
  BY <1>1
<1> QED
  BY <1>1, <1>2, <1>3, <1>4 DEF Walkable, Paths

\* What the walk finds are paths that arrive.
LEMMA WalkArrives ==
  ASSUME NEW rd, Routes(rd), NEW q, q.transfers \in Nat, NEW order \in Seq(DOMAIN rd)
  PROVE  /\ Walk(rd, order, q) \in Seq(Paths(rd))
         /\ \A m \in 1 .. Len(Walk(rd, order, q)) : Arrives(rd, q, Walk(rd, order, q)[m])
<1> DEFINE G == {P \in Paths(rd) : Walkable(rd, q, P)}
           F == {f \in Seq(Paths(rd)) : \A m \in 1 .. Len(f) : Arrives(rd, q, f[m])}
<1>1. ASSUME NEW P \in G, NEW r \in DOMAIN rd, CanFollow(rd, q, P, r)
      PROVE  Onward(rd, q, P, r) \in G
  <2>1. Walkable(rd, q, Onward(rd, q, P, r))
    BY <1>1, FollowingWalks
  <2>2. Onward(rd, q, P, r) \in Paths(rd)
    BY OnwardPath
  <2> QED
    BY <2>1, <2>2
<1>2. ASSUME NEW P \in G, NEW f \in F, P # << >>, Here(rd, q, P) = q.to
      PROVE  Append(f, P) \in F
  <2>1. P \in Seq(Steps(rd)) /\ Walkable(rd, q, P)
    BY DEF Paths
  <2>2. At(rd, q, P, Len(P)) = q.to
    BY <1>2, <2>1, CitiesPassed
  <2>3. Arrives(rd, q, P)
    BY <1>2, <2>1, <2>2 DEF Arrives
  <2>4. /\ Append(f, P) \in Seq(Paths(rd)) /\ Len(Append(f, P)) = Len(f) + 1
        /\ \A m \in 1 .. Len(f) : Append(f, P)[m] = f[m]
        /\ Append(f, P)[Len(f) + 1] = P /\ Len(f) \in Nat
    BY AppendProperties, LenProperties
  <2>5. \A m \in 1 .. Len(f) : Arrives(rd, q, f[m])
    OBVIOUS
  <2> HIDE DEF F, G
  <2>6. \A m \in 1 .. Len(Append(f, P)) : Arrives(rd, q, Append(f, P)[m])
    BY <2>3, <2>4, <2>5
  <2> QED
    BY <2>4, <2>6 DEF F
<1>3. << >> \in G
  BY EmptyWalks
<1>4. << >> \in F
  BY EmptySeq
<1>5. G \in SUBSET Paths(rd) /\ F \in SUBSET Seq(Paths(rd))
  OBVIOUS
<1> HIDE DEF F, G
<1>6. \A P \in G : \A f \in F : WalkOf(rd, order, q)[P][f] \in F
  BY <1>1, <1>2, <1>5, WalkKeeps
<1>7. Walk(rd, order, q) \in F
  BY <1>3, <1>4, <1>6 DEF Walk
<1> QED
  BY <1>7 DEF F

-----------------------------------------------------------------------------
(***************************************************************************)
(* The order of the answer.                                                *)
(***************************************************************************)
\* A hop goes forward over edges of the graph.
LEMMA HopFacts ==
  ASSUME NEW rd, Routes(rd), NEW q, q.transfers \in Nat, NEW h \in Hops(rd, q)
  PROVE  /\ h.ride \in DOMAIN rd
         /\ h = [ride |-> h.ride, i |-> h.i, j |-> h.j]
         /\ h.i \in Nat /\ h.j \in Nat /\ h.i < h.j
         /\ \A x \in h.i .. h.j : x \in DOMAIN rd[h.ride].cities
         /\ \A s \in h.i .. (h.j - 1) : IsEdge(rd, q.date, h.ride, s)
<1>1. PICK r \in DOMAIN rd :
        h \in [ride : {r}, i : DOMAIN rd[r].cities, j : DOMAIN rd[r].cities]
  BY DEF Hops
<1>2. /\ h.ride = r /\ h.i \in DOMAIN rd[r].cities /\ h.j \in DOMAIN rd[r].cities
      /\ h = [ride |-> h.ride, i |-> h.i, j |-> h.j]
  BY <1>1
<1>3. /\ h.i < h.j /\ rd[r].status = "ACTIVE" /\ rd[r].date = q.date
      /\ \A s \in h.i .. (h.j - 1) : rd[r].avail[s] > 0
  BY <1>2 DEF Hops
<1>4. Route(rd[r])
  BY <1>1 DEF Routes
<1>5. /\ Len(rd[r].cities) \in Nat /\ DOMAIN rd[r].cities = 1 .. Len(rd[r].cities)
      /\ DOMAIN rd[r].avail = 1 .. (Len(rd[r].cities) - 1)
      /\ \A s \in DOMAIN rd[r].avail : rd[r].avail[s] \in Int
  BY <1>4 DEF Route
<1>6. h.i \in Nat /\ h.j \in Nat /\ h.i >= 1 /\ h.j <= Len(rd[r].cities)
  BY <1>2, <1>5
<1>7. \A x \in h.i .. h.j : x \in DOMAIN rd[r].cities
  BY <1>5, <1>6
<1>8. ASSUME NEW s \in h.i .. (h.j - 1) PROVE IsEdge(rd, q.date, r, s)
  <2>1. s \in DOMAIN rd[r].avail
    BY <1>5, <1>6
  <2>2. rd[r].avail[s] \in Int /\ rd[r].avail[s] > 0
    BY <1>3, <1>5, <2>1
  <2>3. rd[r].avail[s] >= 1
    BY <2>2
  <2> QED
    BY <1>3, <2>1, <2>3 DEF IsEdge
<1> QED
  BY <1>2, <1>3, <1>6, <1>7, <1>8

\* What a journey is made of.
LEMMA JourneyFacts ==
  ASSUME NEW rd, Routes(rd), NEW q, q.transfers \in Nat, NEW jn \in Journeys(rd, q)
  PROVE  /\ Len(jn) \in Nat /\ Len(jn) >= 1 /\ Len(jn) <= q.transfers + 1
         /\ DOMAIN jn = 1 .. Len(jn)
         /\ jn = [l \in 1 .. Len(jn) |-> jn[l]]
         /\ \A l \in 1 .. Len(jn) : jn[l] \in Hops(rd, q)
         /\ City(rd, jn[1], jn[1].i) = q.from
         /\ City(rd, jn[Len(jn)], jn[Len(jn)].j) = q.to
         /\ \A k \in 2 .. Len(jn) :
              /\ jn[k].ride # jn[k - 1].ride
              /\ City(rd, jn[k], jn[k].i) = City(rd, jn[k - 1], jn[k - 1].j)
         /\ \A k, l \in 1 .. Len(jn) : k < l =>
              Passed(rd, jn[k]) \cap Passed(rd, jn[l]) \subseteq
                IF l = k + 1 THEN {City(rd, jn[l], jn[l].i)} ELSE {}
<1>1. PICK n \in 1 .. (q.transfers + 1) : jn \in [1 .. n -> Hops(rd, q)]
  BY DEF Journeys
<1>2. q.transfers \in Nat /\ n \in Nat
  OBVIOUS
<1>3. Len(jn) = n
  BY <1>1, <1>2
<1>4. /\ City(rd, jn[1], jn[1].i) = q.from
      /\ City(rd, jn[Len(jn)], jn[Len(jn)].j) = q.to
      /\ \A k \in 2 .. Len(jn) :
           /\ jn[k].ride # jn[k - 1].ride
           /\ City(rd, jn[k], jn[k].i) = City(rd, jn[k - 1], jn[k - 1].j)
      /\ \A k, l \in 1 .. Len(jn) : k < l =>
           Passed(rd, jn[k]) \cap Passed(rd, jn[l]) \subseteq
             IF l = k + 1 THEN {City(rd, jn[l], jn[l].i)} ELSE {}
  BY DEF Journeys
<1> QED
  BY <1>1, <1>2, <1>3, <1>4

\* Hop h is leg k of itinerary it, and leaves from where leg k - 1 ended.
LegIs(rd, q, it, k, h) ==
  /\ it.legs[k] = [ride |-> h.ride, segs |-> h.i .. (h.j - 1),
                   origin |-> City(rd, h, h.i), destination |-> City(rd, h, h.j)]
  /\ City(rd, h, h.i) = IF k = 1 THEN q.from ELSE it.legs[k - 1].destination

\* What an itinerary shows, leg by leg: how many legs, each on a ride of the
\* copy from one stop of it to another, each from where the last one ended.
LEMMA ItineraryFacts ==
  ASSUME NEW rd, Routes(rd), NEW q, q.transfers \in Nat, NEW P, Arrives(rd, q, P)
  PROVE  LET it == buildItinerary(rd, P)
         IN  /\ it.total \in Nat /\ it.transfers \in Nat
             /\ it = [legs |-> it.legs, transfers |-> it.transfers, total |-> it.total]
             /\ it.legs = [k \in 1 .. (it.transfers + 1) |-> it.legs[k]]
             /\ \A k \in 1 .. (it.transfers + 1) :
                  \E h \in Hops(rd, q) : LegIs(rd, q, it, k, h)
<1> DEFINE it == buildItinerary(rd, P)
           jn == JourneyOf(P)
           n == it.transfers + 1
<1>1. it.total \in Nat /\ it.transfers \in Nat
  BY TotalType
<1>2. it = [legs |-> it.legs, transfers |-> it.transfers, total |-> it.total]
  BY DEF buildItinerary
<1>3. jn \in Journeys(rd, q) /\ Shows(rd, it, jn)
  BY PathShowsJourney
<1> HIDE DEF it, jn
<1>4. /\ Len(jn) \in Nat /\ Len(jn) >= 1 /\ DOMAIN jn = 1 .. Len(jn)
      /\ \A l \in 1 .. Len(jn) : jn[l] \in Hops(rd, q)
      /\ City(rd, jn[1], jn[1].i) = q.from
      /\ \A k \in 2 .. Len(jn) : City(rd, jn[k], jn[k].i) = City(rd, jn[k - 1], jn[k - 1].j)
  BY <1>3, JourneyFacts
<1>5. n = Len(jn)
  BY <1>3, <1>4 DEF Shows
<1>6. it.legs = [k \in 1 .. n |->
                   [ride |-> jn[k].ride, segs |-> jn[k].i .. (jn[k].j - 1),
                    origin |-> City(rd, jn[k], jn[k].i),
                    destination |-> City(rd, jn[k], jn[k].j)]]
  BY <1>3, <1>4, <1>5 DEF Shows
<1> HIDE DEF n
<1>7. \A k \in 1 .. n :
        it.legs[k] = [ride |-> jn[k].ride, segs |-> jn[k].i .. (jn[k].j - 1),
                      origin |-> City(rd, jn[k], jn[k].i),
                      destination |-> City(rd, jn[k], jn[k].j)]
  BY <1>6
<1>8. it.legs = [k \in 1 .. n |-> it.legs[k]]
  BY <1>6
<1>9. ASSUME NEW k \in 1 .. n
      PROVE  City(rd, jn[k], jn[k].i) = IF k = 1 THEN q.from ELSE it.legs[k - 1].destination
  <2>1. CASE k = 1
    BY <1>4, <2>1
  <2>2. CASE k # 1
    <3>1. k \in 2 .. Len(jn) /\ k - 1 \in 1 .. n
      BY <1>4, <1>5, <2>2
    <3>2. it.legs[k - 1].destination = City(rd, jn[k - 1], jn[k - 1].j)
      <4> DEFINE l == k - 1
      <4>1. l \in 1 .. n
        BY <3>1
      <4> HIDE DEF l
      <4>2. it.legs[l] = [ride |-> jn[l].ride, segs |-> jn[l].i .. (jn[l].j - 1),
                          origin |-> City(rd, jn[l], jn[l].i),
                          destination |-> City(rd, jn[l], jn[l].j)]
        BY <1>7, <4>1
      <4>3. it.legs[l].destination = City(rd, jn[l], jn[l].j)
        BY <4>2
      <4> QED
        BY <4>3 DEF l
    <3>3. City(rd, jn[k], jn[k].i) = City(rd, jn[k - 1], jn[k - 1].j)
      BY <1>4, <3>1
    <3> QED
      BY <2>2, <3>2, <3>3
  <2> QED
    BY <2>1, <2>2
<1>10. ASSUME NEW k \in 1 .. n
       PROVE  \E h \in Hops(rd, q) : LegIs(rd, q, it, k, h)
  <2>1. jn[k] \in Hops(rd, q)
    BY <1>4, <1>5
  <2>2. LegIs(rd, q, it, k, jn[k])
    BY <1>7, <1>9 DEF LegIs
  <2> QED
    BY <2>1, <2>2
<1> QED
  BY <1>1, <1>2, <1>8, <1>10 DEF it, n

\* The itineraries of the paths that arrive.
Itineraries(rd, q) ==
  {buildItinerary(rd, P) : P \in {R \in Paths(rd) : Arrives(rd, q, R)}}

LEMMA LegsAreHops ==
  ASSUME NEW rd, Routes(rd), NEW q, q.transfers \in Nat, NEW it \in Itineraries(rd, q)
  PROVE  /\ it.total \in Nat /\ it.transfers \in Nat
         /\ it = [legs |-> it.legs, transfers |-> it.transfers, total |-> it.total]
         /\ it.legs = [k \in 1 .. (it.transfers + 1) |-> it.legs[k]]
         /\ \A k \in 1 .. (it.transfers + 1) : \E h \in Hops(rd, q) : LegIs(rd, q, it, k, h)
BY ItineraryFacts DEF Itineraries

\* The legs of an itinerary have ranks.
LEMMA LegsRanked ==
  ASSUME NEW rd, Routes(rd), Ranked(rd), NEW q, q.transfers \in Nat,
         NEW it \in Itineraries(rd, q)
  PROVE  /\ it.total \in Nat /\ it.transfers \in Nat
         /\ DOMAIN it.legs = 1 .. (it.transfers + 1)
         /\ \A k \in 1 .. (it.transfers + 1) :
              /\ Rank[it.legs[k].ride] \in Int
              /\ Rank[it.legs[k].destination] \in Int
<1>2. /\ it.total \in Nat /\ it.transfers \in Nat
      /\ it.legs = [k \in 1 .. (it.transfers + 1) |-> it.legs[k]]
      /\ \A k \in 1 .. (it.transfers + 1) : \E h \in Hops(rd, q) : LegIs(rd, q, it, k, h)
  BY LegsAreHops
<1>3. ASSUME NEW k \in 1 .. (it.transfers + 1)
      PROVE  Rank[it.legs[k].ride] \in Int /\ Rank[it.legs[k].destination] \in Int
  <2>1. PICK h \in Hops(rd, q) : LegIs(rd, q, it, k, h)
    BY <1>2
  <2>2. h.ride \in DOMAIN rd /\ h.j \in DOMAIN rd[h.ride].cities
    <3>1. /\ h.ride \in DOMAIN rd /\ h.i \in Nat /\ h.j \in Nat /\ h.i < h.j
          /\ \A x \in h.i .. h.j : x \in DOMAIN rd[h.ride].cities
      BY HopFacts
    <3> QED
      BY <3>1
  <2>3. Rank[h.ride] \in Int
    BY <2>2 DEF Ranked, RanksApart
  <2>4. Rank[rd[h.ride].cities[h.j]] \in Int
    BY <2>2 DEF Ranked, RanksApart
  <2> QED
    BY <2>1, <2>3, <2>4 DEF City, LegIs
<1>4. DOMAIN it.legs = 1 .. (it.transfers + 1)
  BY <1>2
<1> QED
  BY <1>2, <1>3, <1>4

\* One leg before another by their key.
LegLess(a, b) ==
  \/ Rank[a.ride] < Rank[b.ride]
  \/ a.ride = b.ride /\ Rank[a.destination] < Rank[b.destination]

LEMMA LegOrder ==
  ASSUME NEW a, NEW b, NEW c,
         \A x \in {a, b, c} : Rank[x.ride] \in Int /\ Rank[x.destination] \in Int
  PROVE  /\ ~ LegLess(a, a)
         /\ LegLess(a, b) /\ LegLess(b, c) => LegLess(a, c)
<1>1. /\ Rank[a.ride] \in Int /\ Rank[a.destination] \in Int
      /\ Rank[b.ride] \in Int /\ Rank[b.destination] \in Int
      /\ Rank[c.ride] \in Int /\ Rank[c.destination] \in Int
  OBVIOUS
<1>2. ~ LegLess(a, a)
  BY <1>1 DEF LegLess
<1>3. ASSUME LegLess(a, b), LegLess(b, c) PROVE LegLess(a, c)
  <2>1. CASE a.ride = b.ride /\ b.ride = c.ride
    BY <1>1, <1>3, <2>1 DEF LegLess
  <2>2. CASE a.ride = b.ride /\ b.ride # c.ride
    BY <1>1, <1>3, <2>2 DEF LegLess
  <2>3. CASE a.ride # b.ride /\ b.ride = c.ride
    BY <1>1, <1>3, <2>3 DEF LegLess
  <2>4. CASE a.ride # b.ride /\ b.ride # c.ride
    BY <1>1, <1>3, <2>4 DEF LegLess
  <2> QED
    BY <2>1, <2>2, <2>3, <2>4
<1> QED
  BY <1>2, <1>3

\* The key orders itineraries of as many legs.
LEMMA KeyOrder ==
  ASSUME NEW rd, Routes(rd), Ranked(rd), NEW q, q.transfers \in Nat,
         NEW x \in Itineraries(rd, q), NEW y \in Itineraries(rd, q),
         NEW z \in Itineraries(rd, q),
         x.transfers = y.transfers, y.transfers = z.transfers
  PROVE  /\ ~ KeyLess(rd, x, x)
         /\ KeyLess(rd, x, y) /\ KeyLess(rd, y, z) => KeyLess(rd, x, z)
<1> DEFINE n == x.transfers + 1
<1>1. /\ DOMAIN x.legs = 1 .. n /\ DOMAIN y.legs = 1 .. n /\ n \in Nat
      /\ \A k \in 1 .. n : \A l \in {x.legs[k], y.legs[k], z.legs[k]} :
           Rank[l.ride] \in Int /\ Rank[l.destination] \in Int
  BY LegsRanked
<1> HIDE DEF n
<1>2. /\ KeyLess(rd, x, x) <=> \E k \in 1 .. n : LegLess(x.legs[k], x.legs[k])
      /\ KeyLess(rd, x, y) <=> \E k \in 1 .. n :
           (\A j \in 1 .. (k - 1) : x.legs[j] = y.legs[j]) /\ LegLess(x.legs[k], y.legs[k])
      /\ KeyLess(rd, y, z) <=> \E k \in 1 .. n :
           (\A j \in 1 .. (k - 1) : y.legs[j] = z.legs[j]) /\ LegLess(y.legs[k], z.legs[k])
      /\ KeyLess(rd, x, z) <=> \E k \in 1 .. n :
           (\A j \in 1 .. (k - 1) : x.legs[j] = z.legs[j]) /\ LegLess(x.legs[k], z.legs[k])
  BY <1>1, Zenon DEF KeyLess, LegLess
<1>3. \A k \in 1 .. n : /\ ~ LegLess(x.legs[k], x.legs[k])
                        /\ LegLess(x.legs[k], y.legs[k]) /\ LegLess(y.legs[k], z.legs[k]) =>
                             LegLess(x.legs[k], z.legs[k])
  BY <1>1, LegOrder
<1>4. ASSUME KeyLess(rd, x, y), KeyLess(rd, y, z) PROVE KeyLess(rd, x, z)
  <2>1. PICK k \in 1 .. n :
          (\A j \in 1 .. (k - 1) : x.legs[j] = y.legs[j]) /\ LegLess(x.legs[k], y.legs[k])
    BY <1>2, <1>4
  <2>2. PICK l \in 1 .. n :
          (\A j \in 1 .. (l - 1) : y.legs[j] = z.legs[j]) /\ LegLess(y.legs[l], z.legs[l])
    BY <1>2, <1>4
  <2>3. \E m \in 1 .. n :
          (\A j \in 1 .. (m - 1) : x.legs[j] = z.legs[j]) /\ LegLess(x.legs[m], z.legs[m])
    <3>1. CASE k < l
      <4>1. y.legs[k] = z.legs[k] /\ \A j \in 1 .. (k - 1) : j \in 1 .. (l - 1)
        BY <1>1, <2>2, <3>1
      <4>2. \A j \in 1 .. (k - 1) : x.legs[j] = z.legs[j]
        BY <2>1, <2>2, <4>1
      <4>3. LegLess(x.legs[k], z.legs[k])
        BY <2>1, <4>1
      <4> QED
        BY <4>2, <4>3
    <3>2. CASE k = l
      <4>1. LegLess(x.legs[k], z.legs[k])
        BY <1>3, <2>1, <2>2, <3>2
      <4>2. \A j \in 1 .. (k - 1) : x.legs[j] = z.legs[j]
        BY <2>1, <2>2, <3>2
      <4> QED
        BY <4>1, <4>2
    <3>3. CASE l < k
      <4>1. x.legs[l] = y.legs[l] /\ \A j \in 1 .. (l - 1) : j \in 1 .. (k - 1)
        BY <1>1, <2>1, <3>3
      <4>2. \A j \in 1 .. (l - 1) : x.legs[j] = z.legs[j]
        BY <2>1, <2>2, <4>1
      <4>3. LegLess(x.legs[l], z.legs[l])
        BY <2>2, <4>1
      <4> QED
        BY <4>2, <4>3
    <3> QED
      BY <1>1, <3>1, <3>2, <3>3
  <2> QED
    BY <1>2, <2>3
<1> QED
  BY <1>2, <1>3, <1>4

\* Better orders itineraries.
LEMMA BetterOrder ==
  ASSUME NEW rd, Routes(rd), Ranked(rd), NEW q, q.transfers \in Nat,
         NEW x \in Itineraries(rd, q), NEW y \in Itineraries(rd, q),
         NEW z \in Itineraries(rd, q)
  PROVE  /\ ~ Better(rd, x, x)
         /\ Better(rd, x, y) /\ Better(rd, y, z) => Better(rd, x, z)
<1>1. /\ x.total \in Nat /\ y.total \in Nat /\ z.total \in Nat
      /\ x.transfers \in Nat /\ y.transfers \in Nat /\ z.transfers \in Nat
  BY LegsRanked
<1>2. ~ KeyLess(rd, x, x)
  BY KeyOrder
<1>3. x.transfers = y.transfers /\ y.transfers = z.transfers =>
        (KeyLess(rd, x, y) /\ KeyLess(rd, y, z) => KeyLess(rd, x, z))
  BY KeyOrder
<1> QED
  BY <1>1, <1>2, <1>3 DEF Better

\* Two legs that leave one city with one ride for one city are the same leg.
LEMMA LegApart ==
  ASSUME NEW rd, Routes(rd), NEW q, q.transfers \in Nat,
         NEW g \in Hops(rd, q), NEW h \in Hops(rd, q), g.ride = h.ride,
         City(rd, g, g.i) = City(rd, h, h.i), City(rd, g, g.j) = City(rd, h, h.j)
  PROVE  g.i = h.i /\ g.j = h.j
<1> DEFINE r == g.ride
<1>1. /\ r \in DOMAIN rd /\ g.i \in Nat /\ g.j \in Nat /\ g.i < g.j
      /\ \A x \in g.i .. g.j : x \in DOMAIN rd[r].cities
  BY HopFacts
<1>2. /\ h.i \in Nat /\ h.j \in Nat /\ h.i < h.j
      /\ \A x \in h.i .. h.j : x \in DOMAIN rd[r].cities
  BY HopFacts
<1>3. /\ g.i \in DOMAIN rd[r].cities /\ g.j \in DOMAIN rd[r].cities
      /\ h.i \in DOMAIN rd[r].cities /\ h.j \in DOMAIN rd[r].cities
  BY <1>1, <1>2
<1>4. \A i, j \in DOMAIN rd[r].cities : rd[r].cities[i] = rd[r].cities[j] => i = j
  BY <1>1 DEF Routes, Route
<1>5. rd[r].cities[g.i] = rd[r].cities[h.i] /\ rd[r].cities[g.j] = rd[r].cities[h.j]
  BY DEF City
<1> QED
  BY <1>3, <1>4, <1>5

\* Of two different itineraries one is better: of as many legs at one price
\* they part at a leg, in the ride or in where it is left.
LEMMA BetterTotal ==
  ASSUME NEW rd, Routes(rd), Ranked(rd), NEW q, q.transfers \in Nat,
         NEW x \in Itineraries(rd, q), NEW y \in Itineraries(rd, q), x # y
  PROVE  Better(rd, x, y) \/ Better(rd, y, x)
<1> DEFINE n == x.transfers + 1
<1>3. /\ x.total \in Nat /\ x.transfers \in Nat
      /\ x = [legs |-> x.legs, transfers |-> x.transfers, total |-> x.total]
      /\ x.legs = [k \in 1 .. n |-> x.legs[k]]
      /\ \A k \in 1 .. n : \E h \in Hops(rd, q) : LegIs(rd, q, x, k, h)
  BY LegsAreHops
<1>4. /\ y.total \in Nat /\ y.transfers \in Nat
      /\ y = [legs |-> y.legs, transfers |-> y.transfers, total |-> y.total]
      /\ y.legs = [k \in 1 .. (y.transfers + 1) |-> y.legs[k]]
      /\ \A k \in 1 .. (y.transfers + 1) : \E h \in Hops(rd, q) : LegIs(rd, q, y, k, h)
  BY LegsAreHops
<1>5. CASE x.total # y.total \/ x.transfers # y.transfers
  BY <1>3, <1>4, <1>5 DEF Better
<1>6. CASE x.total = y.total /\ x.transfers = y.transfers
  <2> DEFINE D == {k \in 1 .. n : x.legs[k] # y.legs[k]}
  <2>1. D # {}
    <3> SUFFICES ASSUME D = {} PROVE FALSE
      OBVIOUS
    <3>1. \A k \in 1 .. n : x.legs[k] = y.legs[k]
      OBVIOUS
    <3>2. y.legs = [k \in 1 .. n |-> y.legs[k]]
      BY <1>4, <1>6
    <3>3. x.legs = y.legs
      BY <1>3, <3>1, <3>2
    <3> HIDE DEF D, n
    <3> QED
      BY <1>3, <1>4, <1>6, <3>3
  <2>2. PICK k \in D : \A m \in D : ~ (m < k)
    <3>1. D \in SUBSET Nat
      OBVIOUS
    <3> HIDE DEF D
    <3> QED
      BY <2>1, <3>1, LeastNatural
  <2>3. k \in 1 .. n /\ x.legs[k] # y.legs[k] /\ \A j \in 1 .. (k - 1) : x.legs[j] = y.legs[j]
    BY <1>3, <2>2
  <2>4. PICK g \in Hops(rd, q) : LegIs(rd, q, x, k, g)
    BY <1>3, <2>3
  <2>5. PICK h \in Hops(rd, q) : LegIs(rd, q, y, k, h)
    BY <1>4, <1>6, <2>3
  <2>6. City(rd, g, g.i) = City(rd, h, h.i)
    <3>1. CASE k = 1
      BY <2>4, <2>5, <3>1 DEF LegIs
    <3>2. CASE k # 1
      <4>1. k - 1 \in 1 .. (k - 1)
        BY <1>3, <2>3, <3>2
      <4>2. x.legs[k - 1] = y.legs[k - 1]
        BY <2>3, <4>1
      <4> QED
        BY <2>4, <2>5, <3>2, <4>2 DEF LegIs
    <3> QED
      BY <3>1, <3>2
  <2>7. /\ x.legs[k].ride = g.ride /\ x.legs[k].destination = City(rd, g, g.j)
        /\ y.legs[k].ride = h.ride /\ y.legs[k].destination = City(rd, h, h.j)
    BY <2>4, <2>5 DEF LegIs
  <2>8. /\ g.ride \in DOMAIN rd /\ g.j \in DOMAIN rd[g.ride].cities
        /\ h.ride \in DOMAIN rd /\ h.j \in DOMAIN rd[h.ride].cities
    <3>1. /\ g.ride \in DOMAIN rd /\ g.i \in Nat /\ g.j \in Nat /\ g.i < g.j
          /\ \A z \in g.i .. g.j : z \in DOMAIN rd[g.ride].cities
      BY HopFacts
    <3>2. /\ h.ride \in DOMAIN rd /\ h.i \in Nat /\ h.j \in Nat /\ h.i < h.j
          /\ \A z \in h.i .. h.j : z \in DOMAIN rd[h.ride].cities
      BY HopFacts
    <3> QED
      BY <3>1, <3>2
  <2>9. LegLess(x.legs[k], y.legs[k]) \/ LegLess(y.legs[k], x.legs[k])
    <3>1. CASE g.ride # h.ride
      <4>1. Rank[g.ride] \in Int /\ Rank[h.ride] \in Int /\ Rank[g.ride] # Rank[h.ride]
        BY <2>8, <3>1 DEF Ranked, RanksApart
      <4> QED
        BY <2>7, <4>1 DEF LegLess
    <3>2. CASE g.ride = h.ride
      <4>1. City(rd, g, g.j) # City(rd, h, h.j)
        <5> SUFFICES ASSUME City(rd, g, g.j) = City(rd, h, h.j) PROVE FALSE
          OBVIOUS
        <5>1. g.i = h.i /\ g.j = h.j
          BY <2>6, <3>2, LegApart
        <5> QED
          BY <2>3, <2>4, <2>5, <2>6, <3>2, <5>1 DEF LegIs
      <4> DEFINE a == City(rd, g, g.j)
                 b == City(rd, h, h.j)
      <4>2. Rank[a] \in Int /\ Rank[b] \in Int /\ (Rank[a] = Rank[b] => a = b)
        <5>1. RanksApart({rd[g.ride].cities[i] : i \in DOMAIN rd[g.ride].cities})
          BY <2>8 DEF Ranked
        <5>2. /\ a \in {rd[g.ride].cities[i] : i \in DOMAIN rd[g.ride].cities}
              /\ b \in {rd[g.ride].cities[i] : i \in DOMAIN rd[g.ride].cities}
          BY <2>8, <3>2 DEF City
        <5> HIDE DEF a, b
        <5> QED
          BY <5>1, <5>2 DEF RanksApart
      <4>3. Rank[a] < Rank[b] \/ Rank[b] < Rank[a]
        <5>1. a # b
          BY <4>1
        <5> HIDE DEF a, b
        <5> QED
          BY <4>2, <5>1
      <4>4. x.legs[k].destination = a /\ y.legs[k].destination = b
        BY <2>7
      <4> HIDE DEF a, b
      <4> QED
        BY <2>7, <3>2, <4>3, <4>4 DEF LegLess
    <3> QED
      BY <3>1, <3>2
  <2>10. k \in DOMAIN x.legs /\ k \in DOMAIN y.legs
    BY <1>3, <1>4, <1>6, <2>3
  <2>11. CASE LegLess(x.legs[k], y.legs[k])
    <3>1. KeyLess(rd, x, y)
      BY <2>3, <2>10, <2>11 DEF KeyLess, LegLess
    <3> QED
      BY <1>6, <3>1 DEF Better
  <2>12. CASE LegLess(y.legs[k], x.legs[k])
    <3>1. KeyLess(rd, y, x)
      <4>1. \A j \in 1 .. (k - 1) : y.legs[j] = x.legs[j]
        BY <2>3
      <4> QED
        BY <2>10, <2>12, <4>1 DEF KeyLess, LegLess
    <3> QED
      BY <1>6, <3>1 DEF Better
  <2> QED
    BY <2>9, <2>11, <2>12
<1> QED
  BY <1>5, <1>6

\* Better is a strict order of the itineraries.
StrictlyOrdered(rd, its) ==
  /\ \A m \in DOMAIN its : ~ Better(rd, its[m], its[m])
  /\ \A l \in DOMAIN its : \A m \in DOMAIN its : \A i \in DOMAIN its :
       Better(rd, its[l], its[m]) /\ Better(rd, its[m], its[i]) => Better(rd, its[l], its[i])

\* Itinerary it may be at place k.
FitsPlace(rd, its, k, it) ==
  /\ Cardinality({m \in DOMAIN its : Better(rd, its[m], it)}) < k
  /\ k <= Cardinality({m \in DOMAIN its : ~ Better(rd, it, its[m])})

\* A strict order leaves a candidate for every place: of those with room for all
\* that are better before place k, the last reaches place k.
LEMMA PlaceTaken ==
  ASSUME NEW rd, NEW its, NEW n \in Nat, DOMAIN its = 1 .. n,
         StrictlyOrdered(rd, its),
         NEW k \in 1 .. n
  PROVE  \E i \in 1 .. n : FitsPlace(rd, its, k, its[i])
<1> DEFINE R(m, i) == Better(rd, its[m], its[i])
           Before(i) == {m \in 1 .. n : R(m, i)}
           Upto(i) == {m \in 1 .. n : ~ R(i, m)}
           b(i) == Cardinality(Before(i))
<1>1. /\ \A m \in 1 .. n : ~ R(m, m)
      /\ \A l \in 1 .. n : \A m \in 1 .. n : \A i \in 1 .. n : R(l, m) /\ R(m, i) => R(l, i)
  BY DEF StrictlyOrdered
<1> HIDE DEF R
<1>2. IsFiniteSet(1 .. n) /\ Cardinality(1 .. n) = n
  BY FS_Interval
<1>3. \A S \in SUBSET (1 .. n) : IsFiniteSet(S) /\ Cardinality(S) \in Nat
  BY <1>2, FS_Subset, FS_CardinalityType
<1>4. \A i \in 1 .. n : Before(i) \in SUBSET (1 .. n) /\ b(i) \in Nat
  BY <1>3
<1>5. ASSUME NEW m \in 1 .. n, NEW i \in 1 .. n, R(m, i)
      PROVE  b(m) < b(i)
  <2>1. Before(m) \in SUBSET (Before(i) \ {m}) /\ m \in Before(i)
    BY <1>1, <1>5
  <2>2. IsFiniteSet(Before(i)) /\ IsFiniteSet(Before(i) \ {m})
    BY <1>3, <1>4
  <2> HIDE DEF Before
  <2>3. Cardinality(Before(m)) <= Cardinality(Before(i) \ {m})
    BY <2>1, <2>2, FS_Subset
  <2>4. Cardinality(Before(i) \ {m}) = Cardinality(Before(i)) - 1
    BY <2>1, <2>2, FS_RemoveElement
  <2> HIDE DEF b
  <2>5. b(m) <= b(i) - 1
    BY <2>3, <2>4 DEF b
  <2>6. b(m) \in Nat /\ b(i) \in Nat
    BY <1>4
  <2> QED
    BY <2>5, <2>6
<1>6. \A i \in 1 .. n : b(i) \in Nat
  BY <1>4
<1>7. \A i \in 1 .. n : Before(i) = {} => b(i) = 0
  BY FS_EmptySet
<1>8. \A i \in 1 .. n : \A m \in 1 .. n : m \in Before(i) <=> R(m, i)
  OBVIOUS
<1>9. \A i \in 1 .. n : \A S \in SUBSET (1 .. n) : Before(i) \in SUBSET S => b(i) <= Cardinality(S)
  BY <1>3, FS_Subset
<1>10. \A i \in 1 .. n : Before(i) \in SUBSET (1 .. n)
  OBVIOUS
<1> HIDE DEF b, Before
<1> DEFINE c == [i \in 1 .. n |-> b(i)]
           C == {i \in 1 .. n : b(i) < k}
<1>11. c \in [1 .. n -> Nat] /\ \A i \in 1 .. n : c[i] = b(i)
  BY <1>6
<1> HIDE DEF c
<1>12. C # {}
  <2>1. (1 .. n) # {}
    OBVIOUS
  <2>2. PICK i \in 1 .. n : \A m \in 1 .. n : c[i] <= c[m]
    BY <1>11, <2>1, LeastBy
  <2>3. \A m \in 1 .. n : ~ (b(m) < b(i))
    BY <1>6, <1>11, <2>2
  <2>4. \A m \in 1 .. n : m \notin Before(i)
    BY <1>5, <1>8, <2>3
  <2>5. b(i) = 0
    BY <1>7, <1>10, <2>4
  <2>6. b(i) < k
    BY <2>5
  <2> QED
    BY <2>6
<1>13. PICK i \in C : \A m \in C : b(m) <= b(i)
  <2>1. C \in SUBSET (1 .. n) /\ k \in Nat /\ \A m \in C : c[m] <= k
    BY <1>6, <1>11
  <2>2. \E i \in C : \A m \in C : c[m] <= c[i]
    <3> HIDE DEF C
    <3> QED
      BY <1>11, <1>12, <2>1, MostBy
  <2> QED
    BY <1>11, <2>2
<1>14. i \in 1 .. n /\ b(i) < k /\ b(i) \in Nat
  BY <1>6, <1>13
<1>15. \A m \in 1 .. n : b(m) < k => b(m) <= b(i)
  BY <1>13
<1> HIDE DEF C
<1>16. k <= Cardinality(Upto(i))
  <2>1. Upto(i) \in SUBSET (1 .. n)
    OBVIOUS
  <2>2. Cardinality(Upto(i)) \in Nat
    BY <1>3, <2>1
  <2>3. SUFFICES ASSUME Cardinality(Upto(i)) < k PROVE FALSE
    BY <2>2, <2>3
  <2> DEFINE V == {m \in 1 .. n : R(i, m)}
  <2>4. V # {}
    <3> SUFFICES ASSUME V = {} PROVE FALSE
      OBVIOUS
    <3>1. Upto(i) = 1 .. n
      OBVIOUS
    <3>2. Cardinality(Upto(i)) = n
      BY <1>2, <3>1
    <3> HIDE DEF Upto
    <3> QED
      BY <2>3, <3>2
  <2>5. PICK j \in V : \A m \in V : ~ (b(m) < b(j))
    <3>1. V \in SUBSET (1 .. n)
      OBVIOUS
    <3> HIDE DEF V
    <3>2. PICK j \in V : \A m \in V : c[j] <= c[m]
      BY <1>11, <2>4, <3>1, LeastBy
    <3> QED
      BY <1>6, <1>11, <3>1, <3>2
  <2>6. j \in 1 .. n /\ R(i, j)
    BY <2>5
  <2>7. Before(j) \in SUBSET Upto(i)
    <3> SUFFICES ASSUME NEW m \in 1 .. n, m \in Before(j), R(i, m) PROVE FALSE
      BY <1>10, <2>6
    <3>1. R(m, j)
      BY <1>8, <2>6
    <3>2. b(m) < b(j)
      BY <1>5, <2>6, <3>1
    <3> QED
      BY <2>5, <3>2
  <2> HIDE DEF Upto, V
  <2>8. b(j) <= Cardinality(Upto(i))
    BY <1>9, <2>1, <2>6, <2>7
  <2>9. b(j) \in Nat
    BY <1>6, <2>6
  <2>10. b(j) < k
    BY <2>2, <2>3, <2>8, <2>9
  <2>11. b(i) < b(j)
    BY <1>5, <1>14, <2>6
  <2>12. b(j) <= b(i)
    BY <1>15, <2>6, <2>10
  <2> QED
    BY <1>14, <2>9, <2>11, <2>12
<1> QED
  BY <1>14, <1>16 DEF R, b, Before, FitsPlace

\* What is at a place of the sorted itineraries is one of them.
LEMMA SortedFrom ==
  ASSUME NEW rd, NEW its, NEW n \in Nat, DOMAIN its = 1 .. n,
         StrictlyOrdered(rd, its),
         NEW k \in 1 .. n
  PROVE  /\ DOMAIN Sorted(rd, its) = 1 .. n
         /\ \E i \in 1 .. n :
              Sorted(rd, its)[k] = its[i] /\ FitsPlace(rd, its, k, its[i])
<1> DEFINE S == {its[m] : m \in 1 .. n}
<1>1. \E i \in 1 .. n : FitsPlace(rd, its, k, its[i])
  BY PlaceTaken
<1>2. Sorted(rd, its)[k] = CHOOSE it \in S : FitsPlace(rd, its, k, it)
  BY DEF Sorted, FitsPlace
<1>3. DOMAIN Sorted(rd, its) = 1 .. n
  BY DEF Sorted
<1>4. \E it \in S : FitsPlace(rd, its, k, it)
  BY <1>1
<1>5. Sorted(rd, its)[k] \in S /\ FitsPlace(rd, its, k, Sorted(rd, its)[k])
  BY <1>2, <1>4
<1> QED
  BY <1>3, <1>5

\* g sends one member of A to each place up to p, so there are p of them.
OneEach(A, p, g) ==
  /\ \A m \in A : g[m] \in 1 .. p
  /\ \A k \in 1 .. p : \E m \in A : g[m] = k
  /\ \A m \in A : \A l \in A : g[m] = g[l] => m = l

LEMMA CountPlaces ==
  ASSUME NEW A, NEW p \in Nat, NEW g, OneEach(A, p, g)
  PROVE  Cardinality(A) = p
<1> DEFINE h == [m \in A |-> g[m]]
<1>1. h \in [A -> 1 .. p] /\ \A m \in A : h[m] = g[m]
  BY DEF OneEach
<1> HIDE DEF h
<1>2. h \in Injection(A, 1 .. p)
  BY <1>1 DEF Injection, IsInjective, OneEach
<1>3. h \in Surjection(A, 1 .. p)
  BY <1>1 DEF Surjection, OneEach
<1>4. IsFiniteSet(1 .. p) /\ Cardinality(1 .. p) = p
  BY FS_Interval
<1>5. Cardinality(A) = Cardinality(1 .. p)
  BY <1>2, <1>3, <1>4, FS_Injection
<1> QED
  BY <1>4, <1>5

\* List holds the n itineraries, each better than those behind it.
InOrder(rd, its, n, list) ==
  /\ \A k \in 1 .. n : \E m \in 1 .. n : list[k] = its[m]
  /\ \A m \in 1 .. n : \E k \in 1 .. n : list[k] = its[m]
  /\ \A k \in 1 .. n : \A l \in 1 .. n : k < l => Better(rd, list[k], list[l])

\* There is one such list, the sorted one.
LEMMA SortedOnce ==
  ASSUME NEW rd, NEW its, NEW n \in Nat, DOMAIN its = 1 .. n, StrictlyOrdered(rd, its),
         \A l \in 1 .. n : \A m \in 1 .. n : its[l] = its[m] => l = m,
         NEW list, InOrder(rd, its, n, list), NEW k \in 1 .. n
  PROVE  Sorted(rd, its)[k] = list[k]
<1> USE DEF InOrder
<1> DEFINE R(x, y) == Better(rd, x, y)
           g == [m \in 1 .. n |-> CHOOSE l \in 1 .. n : list[l] = its[m]]
<1>1. \A m \in 1 .. n : g[m] \in 1 .. n /\ list[g[m]] = its[m]
  OBVIOUS
<1>2. /\ \A m \in 1 .. n : ~ R(its[m], its[m])
      /\ \A l \in 1 .. n : \A m \in 1 .. n : \A i \in 1 .. n :
           R(its[l], its[m]) /\ R(its[m], its[i]) => R(its[l], its[i])
  BY DEF StrictlyOrdered
<1>3. \A i \in 1 .. n : \A l \in 1 .. n : i < l => R(list[i], list[l])
  OBVIOUS
<1> HIDE DEF g
<1> HIDE DEF R
<1>4. \A i \in 1 .. n : ~ R(list[i], list[i])
  BY <1>2
<1>5. ASSUME NEW i \in 1 .. n, NEW l \in 1 .. n
      PROVE  R(list[i], list[l]) <=> i < l
  <2>1. CASE i < l
    BY <1>3, <2>1
  <2>2. CASE i = l
    BY <1>4, <2>2
  <2>3. CASE l < i
    <3> SUFFICES ASSUME R(list[i], list[l]) PROVE FALSE
      BY <2>3
    <3>1. R(list[l], list[i])
      BY <1>3, <2>3
    <3>2. PICK a \in 1 .. n : list[i] = its[a]
      OBVIOUS
    <3>3. PICK b \in 1 .. n : list[l] = its[b]
      OBVIOUS
    <3>4. R(its[a], its[b]) /\ R(its[b], its[a])
      BY <3>1, <3>2, <3>3
    <3> QED
      BY <1>2, <3>4
  <2> QED
    BY <2>1, <2>2, <2>3
<1>6. \A m \in 1 .. n : \A l \in 1 .. n : g[m] = g[l] => m = l
  <2> SUFFICES ASSUME NEW m \in 1 .. n, NEW l \in 1 .. n, g[m] = g[l] PROVE m = l
    OBVIOUS
  <2>1. list[g[m]] = its[m] /\ list[g[l]] = its[l]
    BY <1>1
  <2>2. its[m] = its[l]
    BY <2>1
  <2> QED
    BY <2>2
<1>7. \A l \in 1 .. n : \E m \in 1 .. n : g[m] = l
  <2> TAKE l \in 1 .. n
  <2>1. PICK m \in 1 .. n : list[l] = its[m]
    OBVIOUS
  <2>2. list[g[m]] = list[l] /\ g[m] \in 1 .. n
    BY <1>1, <2>1
  <2>3. g[m] = l
    <3> SUFFICES ASSUME g[m] # l PROVE FALSE
      OBVIOUS
    <3> DEFINE i == g[m]
    <3>1. i \in 1 .. n /\ list[i] = list[l] /\ i # l
      BY <2>2
    <3> HIDE DEF i
    <3>2. R(list[l], list[l])
      <4>1. i < l \/ l < i
        BY <3>1
      <4> QED
        BY <1>5, <3>1, <4>1
    <3> QED
      BY <1>4, <3>2
  <2> QED
    BY <2>3
<1>8. ASSUME NEW l \in 1 .. n
      PROVE  /\ Cardinality({m \in 1 .. n : R(its[m], list[l])}) = l - 1
             /\ Cardinality({m \in 1 .. n : ~ R(list[l], its[m])}) = l
  <2> DEFINE A == {m \in 1 .. n : R(its[m], list[l])}
             B == {m \in 1 .. n : ~ R(list[l], its[m])}
             p == l - 1
  <2>1. p \in Nat /\ l \in Nat /\ l <= n /\ \A i \in 1 .. p : i \in 1 .. n
    OBVIOUS
  <2>2. \A m \in 1 .. n : m \in A <=> g[m] \in 1 .. p
    <3> TAKE m \in 1 .. n
    <3>1. R(its[m], list[l]) <=> g[m] < l
      BY <1>1, <1>5
    <3> DEFINE i == g[m]
    <3>2. i \in 1 .. n
      BY <1>1
    <3> HIDE DEF i
    <3>3. i < l <=> i \in 1 .. p
      BY <3>2
    <3> QED
      BY <3>1, <3>3 DEF i
  <2>3. \A m \in 1 .. n : m \in B <=> g[m] \in 1 .. l
    <3> TAKE m \in 1 .. n
    <3>1. R(list[l], its[m]) <=> l < g[m]
      BY <1>1, <1>5
    <3> DEFINE i == g[m]
    <3>2. i \in 1 .. n
      BY <1>1
    <3> HIDE DEF i
    <3>3. ~ (l < i) <=> i \in 1 .. l
      BY <3>2
    <3> QED
      BY <3>1, <3>3 DEF i
  <2>4. A \subseteq 1 .. n /\ B \subseteq 1 .. n
    OBVIOUS
  <2> HIDE DEF A, B, p
  <2>5. Cardinality(A) = p
    <3>1. \A m \in A : g[m] \in 1 .. p
      BY <2>2, <2>4
    <3>2. \A i \in 1 .. p : \E m \in A : g[m] = i
      BY <1>7, <2>1, <2>2
    <3>3. \A m \in A : \A i \in A : g[m] = g[i] => m = i
      BY <1>6, <2>4
    <3>4. OneEach(A, p, g)
      BY <3>1, <3>2, <3>3 DEF OneEach
    <3> QED
      BY <2>1, <3>4, CountPlaces
  <2>6. Cardinality(B) = l
    <3>1. \A m \in B : g[m] \in 1 .. l
      BY <2>3, <2>4
    <3>2. \A i \in 1 .. l : \E m \in B : g[m] = i
      <4>1. \A i \in 1 .. l : i \in 1 .. n
        BY <2>1
      <4> QED
        BY <1>7, <2>3, <4>1
    <3>3. \A m \in B : \A i \in B : g[m] = g[i] => m = i
      BY <1>6, <2>4
    <3>4. OneEach(B, l, g)
      BY <3>1, <3>2, <3>3 DEF OneEach
    <3> QED
      BY <2>1, <3>4, CountPlaces
  <2> QED
    BY <2>5, <2>6 DEF A, B, p
<1>9. PICK i \in 1 .. n : Sorted(rd, its)[k] = its[i] /\ FitsPlace(rd, its, k, its[i])
  BY SortedFrom
<1> DEFINE l == g[i]
<1>10. l \in 1 .. n /\ list[l] = its[i]
  BY <1>1
<1> HIDE DEF l
<1>11. FitsPlace(rd, its, k, list[l])
  BY <1>9, <1>10
<1>12. /\ Cardinality({m \in 1 .. n : R(its[m], list[l])}) < k
       /\ k <= Cardinality({m \in 1 .. n : ~ R(list[l], its[m])})
  BY <1>11 DEF FitsPlace, R
<1>13. l - 1 < k /\ k <= l
  BY <1>8, <1>10, <1>12
<1>14. k = l
  BY <1>10, <1>13
<1> QED
  BY <1>9, <1>10, <1>14

-----------------------------------------------------------------------------
(***************************************************************************)
(* The answer.                                                             *)
(***************************************************************************)
\* A listing of finitely many rides is a sequence.
LEMMA OrderSeq ==
  ASSUME NEW S, IsFiniteSet(S), NEW f \in Orders(S)
  PROVE  f \in Seq(S)
<1>1. Cardinality(S) \in Nat
  BY FS_CardinalityType
<1>2. f \in [1 .. Cardinality(S) -> S]
  BY DEF Orders
<1> QED
  BY <1>1, <1>2

\* The paths an answer is made of, and their itineraries.
PathsFor(rd, order, q) == IF q.from = q.to THEN << >> ELSE Walk(rd, order, q)

ItinerariesFor(rd, paths) == [k \in DOMAIN paths |-> buildItinerary(rd, paths[k])]

\* Paths that arrive have itineraries that can be sorted.
LEMMA ArrivingOrdered ==
  ASSUME NEW rd, Routes(rd), Ranked(rd), NEW q, q.transfers \in Nat,
         NEW paths \in Seq(Paths(rd)), \A m \in 1 .. Len(paths) : Arrives(rd, q, paths[m])
  PROVE  /\ Len(paths) \in Nat
         /\ DOMAIN ItinerariesFor(rd, paths) = 1 .. Len(paths)
         /\ \A m \in 1 .. Len(paths) :
              /\ ItinerariesFor(rd, paths)[m] = buildItinerary(rd, paths[m])
              /\ ItinerariesFor(rd, paths)[m] \in Itineraries(rd, q)
         /\ StrictlyOrdered(rd, ItinerariesFor(rd, paths))
<1> DEFINE its == ItinerariesFor(rd, paths)
<1>1. Len(paths) \in Nat /\ DOMAIN paths = 1 .. Len(paths)
  BY LenProperties
<1>2. DOMAIN its = 1 .. Len(paths)
  BY <1>1 DEF ItinerariesFor
<1>3. ASSUME NEW m \in 1 .. Len(paths)
      PROVE  its[m] = buildItinerary(rd, paths[m]) /\ its[m] \in Itineraries(rd, q)
  <2>1. its[m] = buildItinerary(rd, paths[m])
    BY <1>1 DEF ItinerariesFor
  <2>2. paths[m] \in Paths(rd)
    BY ElementOfSeq
  <2> QED
    BY <2>1, <2>2 DEF Itineraries
<1> HIDE DEF its
<1>4. \A m \in DOMAIN its : its[m] \in Itineraries(rd, q)
  BY <1>2, <1>3
<1>5. \A m \in DOMAIN its : ~ Better(rd, its[m], its[m])
  BY <1>4, BetterOrder
<1>6. \A l \in DOMAIN its : \A m \in DOMAIN its : \A i \in DOMAIN its :
        Better(rd, its[l], its[m]) /\ Better(rd, its[m], its[i]) => Better(rd, its[l], its[i])
  BY <1>4, BetterOrder
<1>7. StrictlyOrdered(rd, its)
  BY <1>5, <1>6 DEF StrictlyOrdered
<1> QED
  BY <1>1, <1>2, <1>3, <1>7 DEF its

\* The search finds paths that arrive, sorts their itineraries and answers the first.
LEMMA SearchAnswer ==
  ASSUME NEW rd, Routes(rd), Ranked(rd), NEW q, q.transfers \in Nat, q.results \in Nat,
         NEW order \in Orders(DOMAIN rd)
  PROVE  LET paths == PathsFor(rd, order, q)
             n == Len(paths)
         IN  /\ paths \in Seq(Paths(rd))
             /\ \A m \in 1 .. n : Arrives(rd, q, paths[m])
             /\ Search(rd, order, q) =
                  [k \in 1 .. (IF n > q.results THEN q.results ELSE n)
                     |-> Sorted(rd, ItinerariesFor(rd, paths))[k]]
<1> DEFINE paths == PathsFor(rd, order, q)
           n == Len(paths)
           its == ItinerariesFor(rd, paths)
<1>1. order \in Seq(DOMAIN rd)
  BY OrderSeq DEF Routes
<1>2. paths \in Seq(Paths(rd)) /\ \A m \in 1 .. n : Arrives(rd, q, paths[m])
  <2>1. CASE q.from = q.to
    BY <2>1, EmptySeq DEF PathsFor
  <2>2. CASE q.from # q.to
    BY <1>1, <2>2, WalkArrives DEF PathsFor
  <2> QED
    BY <2>1, <2>2
<1>3. Search(rd, order, q) =
        [k \in 1 .. (IF Len(Sorted(rd, its)) > q.results
                     THEN q.results ELSE Len(Sorted(rd, its)))
           |-> Sorted(rd, its)[k]]
  BY DEF Search, PathsFor, ItinerariesFor
<1>4. n \in Nat /\ DOMAIN its = 1 .. n
  BY <1>2, ArrivingOrdered
<1> HIDE DEF paths, n, its
<1>5. Len(Sorted(rd, its)) = n
  <2>1. DOMAIN Sorted(rd, its) = 1 .. n
    BY <1>4 DEF Sorted
  <2> HIDE DEF Sorted
  <2> QED
    BY <1>4, <2>1
<1> QED
  BY <1>2, <1>3, <1>5 DEF paths, n, its

\* So it answers journeys that there are.
LEMMA SearchShowsJourneys ==
  ASSUME NEW rd, Routes(rd), Ranked(rd), NEW q, q.transfers \in Nat, q.results \in Nat,
         NEW order \in Orders(DOMAIN rd), NEW k \in DOMAIN Search(rd, order, q)
  PROVE  \E jn \in Journeys(rd, q) : Shows(rd, Search(rd, order, q)[k], jn)
<1> DEFINE paths == PathsFor(rd, order, q)
           n == Len(paths)
           its == ItinerariesFor(rd, paths)
           size == IF n > q.results THEN q.results ELSE n
<1>1. /\ paths \in Seq(Paths(rd))
      /\ \A m \in 1 .. n : Arrives(rd, q, paths[m])
      /\ Search(rd, order, q) = [l \in 1 .. size |-> Sorted(rd, its)[l]]
  BY SearchAnswer
<1>2. /\ n \in Nat /\ DOMAIN its = 1 .. n
      /\ \A m \in 1 .. n : its[m] = buildItinerary(rd, paths[m])
      /\ StrictlyOrdered(rd, its)
  BY <1>1, ArrivingOrdered
<1> HIDE DEF paths, its
<1>3. k \in 1 .. size /\ Search(rd, order, q)[k] = Sorted(rd, its)[k]
  BY <1>1
<1>4. k \in 1 .. n
  BY <1>2, <1>3
<1> HIDE DEF n
<1>5. PICK i \in 1 .. n : Sorted(rd, its)[k] = its[i]
  BY <1>2, <1>4, SortedFrom
<1>6. Arrives(rd, q, paths[i]) /\ Search(rd, order, q)[k] = buildItinerary(rd, paths[i])
  BY <1>1, <1>2, <1>3, <1>5
<1>7. /\ JourneyOf(paths[i]) \in Journeys(rd, q)
      /\ Shows(rd, buildItinerary(rd, paths[i]), JourneyOf(paths[i]))
  BY <1>6, PathShowsJourney
<1> QED
  BY <1>6, <1>7

=============================================================================

---------------------------- MODULE SearchProofs -----------------------------
(***************************************************************************)
(* Proofs about the search for all copies of the rides, requests and       *)
(* orders of the copy.                                                     *)
(***************************************************************************)
EXTENDS SearchSpec, PathProofs

-----------------------------------------------------------------------------
(***************************************************************************)
(* The walk.                                                               *)
(***************************************************************************)
Given ==
  rides \in Snapshots /\ query \in Queries /\ order \in Orders(DOMAIN rides)

\* Every open call but the innermost stands behind the ride its path took.
Walking ==
  /\ Walkable(rides, query, path)
  /\ next \in Seq(Nat \ {0})
  /\ next # << >> => Len(next) = Len(path) + 1 /\ query.from # query.to
  /\ next = << >> => path = << >>
  /\ \A k \in 1 .. Len(path) :
       /\ next[k] - 1 \in 1 .. Len(order)
       /\ order[next[k] - 1] = path[k].ride
       /\ At(rides, query, path, k) # query.to

\* The walk along w has been through path P: where the two part, P takes a ride
\* that the call which is open there has looked at, and is not w's.
Tried(ord, w, nx, P) ==
  \E k \in 1 .. Len(nx) :
    /\ k <= Len(P)
    /\ \A i \in 1 .. (k - 1) : P[i] = w[i]
    /\ \E j \in 1 .. Len(ord) : j < nx[k] /\ ord[j] = P[k].ride
    /\ k <= Len(w) => P[k].ride # w[k].ride

\* What is found are different paths that arrive, and all of those the walk has
\* been through unless it is cut off.
FoundKept ==
  /\ found \in Seq(Seq(Steps(rides)))
  /\ Len(found) <= CutOff(query)
  /\ \A m \in 1 .. Len(found) :
       /\ Arrives(rides, query, found[m])
       /\ next # << >> => Tried(order, path, next, found[m])
  /\ \A m, n \in 1 .. Len(found) : found[m] = found[n] => m = n
  /\ Len(found) < CutOff(query) =>
       \A P \in Seq(Steps(rides)) :
         Arrives(rides, query, P) /\ (next # << >> => Tried(order, path, next, P)) =>
           \E m \in 1 .. Len(found) : found[m] = P

\* The order of the copy lists every ride once.
LEMMA OrderFacts ==
  ASSUME Given
  PROVE  /\ Routes(rides)
         /\ query.transfers \in Nat /\ query.results \in Nat
         /\ order \in Seq(DOMAIN rides)
         /\ Len(order) \in Nat
         /\ \A j \in 1 .. Len(order) : order[j] \in DOMAIN rides
         /\ \A i, j \in 1 .. Len(order) : order[i] = order[j] => i = j
         /\ \A r \in DOMAIN rides : \E j \in 1 .. Len(order) : order[j] = r
<1> DEFINE D == DOMAIN rides
           n == Cardinality(D)
<1>1. Routes(rides) /\ query.transfers \in Nat /\ query.results \in Nat
  BY SnapshotsType, QueriesType DEF Given, Routes
<1>2. IsFiniteSet(D) /\ n \in Nat
  BY <1>1, FS_CardinalityType DEF Routes
<1>3. order \in [1 .. n -> D] /\ \A i, j \in 1 .. n : order[i] = order[j] => i = j
  BY DEF Given, Orders
<1> HIDE DEF D, n
<1>4. order \in Seq(D) /\ Len(order) = n
  BY <1>2, <1>3
<1>5. order \in Injection(1 .. n, D)
  BY <1>3 DEF Injection, IsInjective
<1>6. Cardinality(1 .. n) = Cardinality(D)
  <2>1. Cardinality(1 .. n) = n
    BY <1>2, FS_Interval
  <2> QED
    BY <2>1 DEF n
<1>7. order \in Surjection(1 .. n, D)
  BY <1>2, <1>5, <1>6, FS_Injection
<1>8. \A r \in D : \E j \in 1 .. n : order[j] = r
  BY <1>7 DEF Surjection
<1> QED
  BY <1>1, <1>2, <1>3, <1>4, <1>8 DEF D

\* The innermost loop goes on with the first ride it can follow.
LEMMA GoingOn ==
  ASSUME Given, Walking, next # << >>, Ahead # {}
  PROVE  LET f == First(Ahead)
         IN  /\ f \in 1 .. Len(order) /\ next[Len(next)] <= f
             /\ \A j \in Ahead : f <= j
             /\ Longer \in Seq(Steps(rides))
             /\ Walkable(rides, query, Longer)
             /\ Len(Longer) = Len(path) + 1
             /\ Longer[Len(path) + 1].ride = order[f]
             /\ \A k \in 1 .. Len(path) : Longer[k] = path[k]
             /\ \A k \in 0 .. Len(path) :
                  At(rides, query, Longer, k) = At(rides, query, path, k)
             /\ Here(rides, query, Longer) = At(rides, query, Longer, Len(Longer))
             /\ Behind \in Seq(Nat \ {0}) /\ Len(Behind) = Len(path) + 1
             /\ \A k \in 1 .. Len(path) : Behind[k] = next[k]
             /\ Behind[Len(path) + 1] = f + 1
<1> DEFINE f == First(Ahead)
<1>1. next \in Seq(Nat \ {0}) /\ Len(next) \in Nat /\ Len(next) = Len(path) + 1
  BY LenProperties DEF Walking
<1>2. Len(path) \in Nat /\ Len(next) \in 1 .. Len(next)
  BY <1>1, LenProperties DEF Walking, Walkable
<1>3. next[Len(next)] \in Nat \ {0}
  BY <1>1, <1>2, ElementOfSeq
<1>4. Ahead \in SUBSET Nat
  BY <1>3, OrderFacts DEF Ahead
<1>5. f \in Ahead /\ \A j \in Ahead : f <= j
  BY <1>4, FirstIn
<1> HIDE DEF f
<1>6. f \in 1 .. Len(order) /\ next[Len(next)] <= f
  BY <1>3, <1>5, OrderFacts DEF Ahead
<1>7. CanFollow(rides, query, path, order[f])
  BY <1>5 DEF Ahead
<1>8. order[f] \in DOMAIN rides /\ Routes(rides) /\ query.transfers \in Nat
  BY <1>6, OrderFacts
<1>9. Longer = Onward(rides, query, path, order[f])
  BY DEF Longer, f
<1>10. Walkable(rides, query, path)
  BY DEF Walking
<1>11. /\ Walkable(rides, query, Longer)
       /\ Len(Longer) = Len(path) + 1
       /\ Longer[Len(Longer)].ride = order[f]
       /\ \A k \in 1 .. Len(path) : Longer[k] = path[k]
       /\ \A k \in 0 .. Len(path) :
            At(rides, query, Longer, k) = At(rides, query, path, k)
       /\ Here(rides, query, Longer) = At(rides, query, Longer, Len(Longer))
  BY <1>7, <1>8, <1>9, <1>10, FollowingWalks
<1>12. Behind = [next EXCEPT ![Len(next)] = f + 1] /\ f + 1 \in Nat \ {0}
  BY <1>6 DEF Behind, f
<1>13. /\ Behind \in Seq(Nat \ {0}) /\ Len(Behind) = Len(next)
       /\ \A k \in 1 .. Len(next) : Behind[k] = IF k = Len(next) THEN f + 1 ELSE next[k]
  BY <1>1, <1>2, <1>12, ExceptSeq
<1>14. /\ Len(Behind) = Len(path) + 1
       /\ \A k \in 1 .. Len(path) : Behind[k] = next[k]
       /\ Behind[Len(path) + 1] = f + 1
  BY <1>1, <1>2, <1>13
<1>15. Longer \in Seq(Steps(rides))
  BY <1>11 DEF Walkable
<1> QED
  BY <1>5, <1>6, <1>11, <1>13, <1>14, <1>15 DEF f

\* The loop leaves out no path that arrives.
LEMMA NoneMissed ==
  ASSUME Given, Walking, next # << >>, NEW P, Arrives(rides, query, P),
         Len(path) < Len(P), \A k \in 1 .. Len(path) : P[k] = path[k],
         NEW j \in 1 .. Len(order), order[j] = P[Len(path) + 1].ride,
         next[Len(next)] <= j
  PROVE  j \in Ahead /\ Onward(rides, query, path, order[j]) = Append(path, P[Len(path) + 1])
<1>1. Walkable(rides, query, path) /\ Walkable(rides, query, P)
  BY DEF Walking, Arrives
<1>2. /\ CanFollow(rides, query, path, order[j])
      /\ Onward(rides, query, path, order[j]) = Append(path, P[Len(path) + 1])
  <2>1. Routes(rides) /\ query.transfers \in Nat
    BY OrderFacts
  <2>2. /\ CanFollow(rides, query, path, P[Len(path) + 1].ride)
        /\ Onward(rides, query, path, P[Len(path) + 1].ride) = Append(path, P[Len(path) + 1])
    BY <1>1, <2>1, CanFollowThere
  <2> QED
    BY <2>2
<1>3. next[Len(next)] \in Nat
  <2>1. next \in Seq(Nat \ {0}) /\ Len(next) \in 1 .. Len(next)
    BY EmptySeq DEF Walking
  <2> QED
    BY <2>1, ElementOfSeq
<1>4. j \in next[Len(next)] .. Len(order)
  BY <1>3, OrderFacts
<1> QED
  BY <1>2, <1>4 DEF Ahead

\* The end of the innermost loop takes the last step back.
LEMMA GoingBack ==
  ASSUME Given, Walking, next # << >>, Return
  PROVE  /\ Len(next') = Len(path)
         /\ Len(path') = IF path = << >> THEN 0 ELSE Len(path) - 1
         /\ path' \in Seq(Steps(rides)) /\ next' \in Seq(Nat \ {0})
         /\ path = << >> => path' = << >> /\ next' = << >>
         /\ path # << >> => next' # << >>
         /\ \A k \in 1 .. Len(path') : path'[k] = path[k]
         /\ \A k \in 1 .. Len(path) : next'[k] = next[k]
<1>1. next \in Seq(Nat \ {0}) /\ Len(next) = Len(path) + 1 /\ path \in Seq(Steps(rides))
  BY DEF Walking, Walkable
<1>2. Len(path) \in Nat /\ (path = << >> <=> Len(path) = 0)
  BY <1>1, EmptySeq, LenProperties
<1>3. next' = SubSeq(next, 1, Len(path)) /\ path' = SubSeq(path, 1, Len(path) - 1)
  BY <1>1, <1>2 DEF Return
<1>4. \A k \in 1 .. Len(path) : next[k] \in Nat \ {0}
  BY <1>1, <1>2, ElementOfSeq
<1>5. \A k \in 1 .. (Len(path) - 1) : path[k] \in Steps(rides)
  BY <1>1, <1>2, ElementOfSeq
<1>6. /\ next' \in Seq(Nat \ {0}) /\ Len(next') = Len(path)
      /\ \A k \in 1 .. Len(path) : next'[k] = next[k]
  BY <1>2, <1>3, <1>4, SubSeqProperties
<1>7. /\ path' \in Seq(Steps(rides))
      /\ Len(path') = IF path = << >> THEN 0 ELSE Len(path) - 1
      /\ \A k \in 1 .. (Len(path) - 1) : path'[k] = path[k]
  BY <1>2, <1>3, <1>5, SubSeqProperties
<1>8. path = << >> => path' = << >> /\ next' = << >>
  BY <1>2, <1>3, SubSeqEmpty
<1>9. path # << >> => next' # << >>
  BY <1>2, <1>6, EmptySeq
<1> QED
  BY <1>2, <1>6, <1>7, <1>8, <1>9

\* A piece of a walkable path from its start is walkable.
LEMMA PrefixWalks ==
  ASSUME NEW rd, NEW q, q.transfers \in Nat, NEW P, Walkable(rd, q, P),
         NEW Q \in Seq(Steps(rd)), Len(Q) <= Len(P), \A k \in 1 .. Len(Q) : Q[k] = P[k]
  PROVE  Walkable(rd, q, Q) /\ \A k \in 0 .. Len(Q) : At(rd, q, Q, k) = At(rd, q, P, k)
<1>1. Len(P) \in Nat /\ Len(Q) \in Nat
  BY LenProperties DEF Walkable
<1>2. \A k \in 0 .. Len(Q) : At(rd, q, Q, k) = At(rd, q, P, k)
  BY <1>1 DEF At
<1>3. ASSUME NEW k \in 1 .. Len(Q)
      PROVE  /\ IsEdge(rd, q.date, Q[k].ride, Q[k].seg)
             /\ rd[Q[k].ride].cities[Q[k].seg] = At(rd, q, Q, k - 1)
  <2>1. k \in 1 .. Len(P) /\ k - 1 \in 0 .. Len(Q)
    BY <1>1
  <2>2. /\ IsEdge(rd, q.date, P[k].ride, P[k].seg)
        /\ rd[P[k].ride].cities[P[k].seg] = At(rd, q, P, k - 1)
    BY <2>1 DEF Walkable
  <2> QED
    BY <1>2, <2>1, <2>2
<1>4. \A j, k \in 0 .. Len(Q) : At(rd, q, Q, j) = At(rd, q, Q, k) => j = k
  <2>1. \A k \in 0 .. Len(Q) : k \in 0 .. Len(P)
    BY <1>1
  <2> QED
    BY <1>2, <2>1 DEF Walkable
<1>5. transfersOf(Q) <= q.transfers
  <2>1. Changes(Q, Len(Q)) = Changes(P, Len(Q))
    BY <1>1, ChangesSame
  <2>2. Changes(P, Len(Q)) <= Changes(P, Len(P))
    BY <1>1, ChangesGrow
  <2>3. Changes(P, Len(Q)) \in Nat /\ Changes(P, Len(P)) \in Nat
    BY <1>1, ChangesType
  <2> QED
    BY <2>1, <2>2, <2>3 DEF Walkable, transfersOf
<1> QED
  BY <1>2, <1>3, <1>4, <1>5 DEF Walkable

\* Descend keeps the walk in order.
LEMMA DescendWalking ==
  ASSUME Given, Walking, Descend
  PROVE  Walking' /\ Len(next') = Len(path) + 2 /\ next'[Len(path) + 2] = 1
<1> DEFINE f == First(Ahead)
           n == Len(path)
<1>1. /\ f \in 1 .. Len(order)
      /\ Longer \in Seq(Steps(rides))
      /\ Walkable(rides, query, Longer)
      /\ Len(Longer) = n + 1
      /\ Longer[n + 1].ride = order[f]
      /\ \A k \in 1 .. n : Longer[k] = path[k]
      /\ \A k \in 0 .. n : At(rides, query, Longer, k) = At(rides, query, path, k)
      /\ Here(rides, query, Longer) = At(rides, query, Longer, n + 1)
      /\ Behind \in Seq(Nat \ {0}) /\ Len(Behind) = n + 1
      /\ \A k \in 1 .. n : Behind[k] = next[k]
      /\ Behind[n + 1] = f + 1
  BY GoingOn DEF Descend
<1>2. n \in Nat /\ query.from # query.to
  BY LenProperties DEF Walking, Walkable, Descend
<1>3. path' = Longer /\ next' = Append(Behind, 1) /\ UNCHANGED <<rides, query, order>>
  BY DEF Descend, request
<1>4. Here(rides, query, Longer) # query.to
  BY DEF Descend
<1>5. \A k \in 1 .. n : /\ next[k] - 1 \in 1 .. Len(order)
                        /\ order[next[k] - 1] = path[k].ride
                        /\ At(rides, query, path, k) # query.to
  BY DEF Walking
<1> HIDE DEF f, n
<1>6. /\ next' \in Seq(Nat \ {0}) /\ Len(next') = n + 2
      /\ \A k \in 1 .. (n + 1) : next'[k] = Behind[k]
      /\ next'[n + 2] = 1
  BY <1>1, <1>2, <1>3, AppendProperties
<1>7. ASSUME NEW k \in 1 .. (n + 1)
      PROVE  /\ next'[k] - 1 \in 1 .. Len(order)
             /\ order[next'[k] - 1] = Longer[k].ride
             /\ At(rides, query, Longer, k) # query.to
  <2>1. CASE k \in 1 .. n
    <3>1. /\ next'[k] = next[k] /\ Longer[k] = path[k]
          /\ At(rides, query, Longer, k) = At(rides, query, path, k)
      BY <1>1, <1>2, <1>6, <2>1
    <3> QED
      BY <1>5, <2>1, <3>1
  <2>2. CASE k = n + 1
    BY <1>1, <1>2, <1>4, <1>6, <2>2
  <2> QED
    BY <1>2, <2>1, <2>2
<1>8. Walkable(rides', query', path')
  BY <1>1, <1>3
<1>9. next' # << >>
  BY <1>2, <1>6, EmptySeq
<1>10. Len(path') = n + 1 /\ Len(next') = Len(path') + 1
  BY <1>1, <1>2, <1>3, <1>6
<1>11. \A k \in 1 .. Len(path') :
         /\ next'[k] - 1 \in 1 .. Len(order')
         /\ order'[next'[k] - 1] = path'[k].ride
         /\ At(rides', query', path', k) # query'.to
  BY <1>3, <1>7, <1>10
<1>12. Walking'
  BY <1>2, <1>3, <1>6, <1>8, <1>9, <1>10, <1>11 DEF Walking
<1> QED
  BY <1>6, <1>12 DEF n

\* Arrive keeps the walk in order.
LEMMA ArriveWalking ==
  ASSUME Given, Walking, Arrive
  PROVE  Walking' /\ next' # << >>
<1> DEFINE n == Len(path)
<1>1. /\ Behind \in Seq(Nat \ {0}) /\ Len(Behind) = n + 1
      /\ \A k \in 1 .. n : Behind[k] = next[k]
  BY GoingOn DEF Arrive
<1>2. n \in Nat /\ query.from # query.to
  BY LenProperties DEF Walking, Walkable, Arrive
<1>3. next' = Behind /\ UNCHANGED <<rides, query, order, path>>
  BY DEF Arrive, request
<1>4. next' # << >>
  BY <1>1, <1>2, <1>3, EmptySeq
<1> QED
  BY <1>1, <1>2, <1>3, <1>4 DEF Walking

\* Return keeps the walk in order.
LEMMA ReturnWalking ==
  ASSUME Given, Walking, Return
  PROVE  Walking'
<1>1. next # << >> /\ UNCHANGED <<rides, query, order>>
  BY DEF Return, request
<1>2. /\ Len(next') = Len(path)
      /\ Len(path') = IF path = << >> THEN 0 ELSE Len(path) - 1
      /\ path' \in Seq(Steps(rides)) /\ next' \in Seq(Nat \ {0})
      /\ path = << >> => path' = << >> /\ next' = << >>
      /\ path # << >> => next' # << >>
      /\ \A k \in 1 .. Len(path') : path'[k] = path[k]
      /\ \A k \in 1 .. Len(path) : next'[k] = next[k]
  BY <1>1, GoingBack
<1>3. Len(path) \in Nat /\ (path = << >> <=> Len(path) = 0) /\ path \in Seq(Steps(rides))
  BY EmptySeq, LenProperties DEF Walking, Walkable
<1>4. Len(path') \in Nat /\ Len(path') <= Len(path)
  BY <1>2, <1>3
<1>5. /\ Walkable(rides, query, path')
      /\ \A k \in 0 .. Len(path') : At(rides, query, path', k) = At(rides, query, path, k)
  <2>1. Walkable(rides, query, path) /\ query.transfers \in Nat
    BY OrderFacts DEF Walking
  <2> QED
    BY <1>2, <1>4, <2>1, PrefixWalks
<1>6. next' # << >> => Len(next') = Len(path') + 1 /\ query.from # query.to
  BY <1>1, <1>2, <1>3 DEF Walking
<1>7. next' = << >> => path' = << >>
  BY <1>2
<1>8. ASSUME NEW k \in 1 .. Len(path')
      PROVE  /\ next'[k] - 1 \in 1 .. Len(order)
             /\ order[next'[k] - 1] = path'[k].ride
             /\ At(rides, query, path', k) # query.to
  <2>1. k \in 1 .. Len(path) /\ k \in 0 .. Len(path')
    BY <1>3, <1>4
  <2> QED
    BY <1>2, <1>5, <2>1 DEF Walking
<1> QED
  BY <1>1, <1>2, <1>5, <1>6, <1>7, <1>8 DEF Walking

\* Of a path that arrives, the walk has been through it or has not been as far
\* as it on the path they share, or it is the path the walk is about to take.
LEMMA OnlyLonger ==
  ASSUME Given, Walking, next # << >>, NEW P \in Seq(Steps(rides)), Arrives(rides, query, P),
         Len(path) < Len(P), \A k \in 1 .. Len(path) : P[k] = path[k],
         NEW j \in 1 .. Len(order), order[j] = P[Len(path) + 1].ride,
         ~ Tried(order, path, next, P)
  PROVE  /\ j \in Ahead /\ First(Ahead) <= j
         /\ j = First(Ahead) => /\ \A k \in 1 .. (Len(path) + 1) : P[k] = Longer[k]
                                /\ Here(rides, query, Longer) = query.to => P = Longer
<1> DEFINE n == Len(path)
<1>1. Len(next) = n + 1 /\ n \in Nat /\ Len(P) \in Nat /\ next \in Seq(Nat \ {0})
  BY LenProperties DEF Walking, Walkable
<1>2. n + 1 \in 1 .. Len(next) /\ next[n + 1] \in Nat
  BY <1>1, ElementOfSeq
<1>3. ~ (j < next[Len(next)])
  <2> SUFFICES ASSUME j < next[n + 1] PROVE Tried(order, path, next, P)
    BY <1>1
  <2>1. n + 1 <= Len(P) /\ (n + 1) - 1 = n /\ ~ (n + 1 <= n)
    BY <1>1
  <2>2. \E x \in 1 .. Len(order) : x < next[n + 1] /\ order[x] = P[n + 1].ride
    OBVIOUS
  <2>3. \A x \in 1 .. ((n + 1) - 1) : P[x] = path[x]
    BY <2>1
  <2>4. ~ (n + 1 <= Len(path))
    BY <2>1
  <2> HIDE DEF n
  <2> QED
    BY <1>2, <2>1, <2>2, <2>3, <2>4 DEF Tried
<1>4. next[Len(next)] <= j
  BY <1>1, <1>2, <1>3, OrderFacts
<1>5. j \in Ahead /\ Onward(rides, query, path, order[j]) = Append(path, P[n + 1])
  BY <1>4, NoneMissed
<1>6. First(Ahead) <= j
  BY <1>5, GoingOn
<1>7. ASSUME j = First(Ahead)
      PROVE  /\ \A k \in 1 .. (n + 1) : P[k] = Longer[k]
             /\ Here(rides, query, Longer) = query.to => P = Longer
  <2>1. Longer = Append(path, P[n + 1])
    BY <1>5, <1>7 DEF Longer
  <2>2. P[n + 1] \in Steps(rides) /\ path \in Seq(Steps(rides))
    BY <1>1, ElementOfSeq DEF Walking, Walkable
  <2>3. Longer[n + 1] = P[n + 1]
    BY <2>1, <2>2, AppendProperties
  <2>4. /\ Longer \in Seq(Steps(rides)) /\ Len(Longer) = n + 1
        /\ \A k \in 1 .. n : Longer[k] = path[k]
        /\ Here(rides, query, Longer) = At(rides, query, Longer, n + 1)
    BY <1>5, GoingOn
  <2> HIDE DEF n
  <2>5. \A k \in 1 .. (n + 1) : P[k] = Longer[k]
    <3> TAKE k \in 1 .. (n + 1)
    <3>1. CASE k \in 1 .. n
      BY <2>4, <3>1 DEF n
    <3>2. CASE k = n + 1
      BY <2>3, <3>2
    <3> QED
      BY <1>1, <3>1, <3>2
  <2>6. ASSUME Here(rides, query, Longer) = query.to PROVE P = Longer
    <3>1. At(rides, query, P, n + 1) = query.to
      BY <1>1, <2>3, <2>4, <2>6 DEF At
    <3>2. n + 1 \in 0 .. Len(P) /\ Len(P) \in 0 .. Len(P)
      BY <1>1 DEF n
    <3>3. n + 1 = Len(P)
      BY <3>1, <3>2 DEF Arrives, Walkable
    <3> QED
      BY <2>4, <2>5, <3>3, SeqEqual
  <2> QED
    BY <2>5, <2>6
<1> QED
  BY <1>5, <1>6, <1>7 DEF n

\* What the walk has been through stays so.
LEMMA TriedStays ==
  ASSUME Given, Walking, next # << >>, Arrive \/ Descend \/ Return, next' # << >>,
         NEW P \in Seq(Steps(rides)), Tried(order, path, next, P)
  PROVE  Tried(order, path', next', P)
<1> DEFINE n == Len(path)
<1>1. n \in Nat /\ Len(next) = n + 1 /\ Len(P) \in Nat /\ next \in Seq(Nat \ {0})
  BY LenProperties DEF Walking, Walkable
<1>2. PICK k \in 1 .. Len(next) :
        /\ k <= Len(P)
        /\ \A i \in 1 .. (k - 1) : P[i] = path[i]
        /\ \E j \in 1 .. Len(order) : j < next[k] /\ order[j] = P[k].ride
        /\ k <= Len(path) => P[k].ride # path[k].ride
  BY DEF Tried
<1>3. PICK j \in 1 .. Len(order) : j < next[k] /\ order[j] = P[k].ride
  BY <1>2
<1>4. next[k] \in Nat /\ j \in Nat
  BY <1>1, OrderFacts, ElementOfSeq
<1> HIDE DEF n
<1>5. CASE Arrive \/ Descend
  <2> DEFINE f == First(Ahead)
  <2>1. /\ f \in 1 .. Len(order) /\ next[n + 1] <= f
        /\ Len(Longer) = n + 1
        /\ Longer[n + 1].ride = order[f]
        /\ \A i \in 1 .. n : Longer[i] = path[i]
        /\ Behind \in Seq(Nat \ {0}) /\ Len(Behind) = n + 1
        /\ \A i \in 1 .. n : Behind[i] = next[i]
        /\ Behind[n + 1] = f + 1
    BY <1>1, <1>5, GoingOn DEF Arrive, Descend, n
  <2>2. f \in Nat
    BY <2>1, OrderFacts
  <2> HIDE DEF f
  <2>3. k \in 1 .. (n + 1)
    BY <1>1
  <2>4. k <= Len(next') /\ next'[k] = Behind[k]
    <3>1. CASE Arrive
      BY <1>1, <2>1, <2>3, <3>1 DEF Arrive
    <3>2. CASE Descend
      <4>1. next' = Append(Behind, 1)
        BY <3>2 DEF Descend
      <4>2. Len(next') = n + 2 /\ next'[k] = Behind[k]
        BY <1>1, <2>1, <2>3, <4>1, AppendProperties
      <4> QED
        BY <1>1, <2>3, <4>2
    <3> QED
      BY <1>5, <3>1, <3>2
  <2>5. j < next'[k]
    <3>1. CASE k = n + 1
      BY <1>3, <1>4, <2>1, <2>2, <2>4, <3>1
    <3>2. CASE k \in 1 .. n
      BY <1>3, <2>1, <2>4, <3>2
    <3> QED
      BY <1>1, <2>3, <3>1, <3>2
  <2>6. \A i \in 1 .. (k - 1) : P[i] = path'[i]
    <3>1. \A i \in 1 .. (k - 1) : i \in 1 .. n
      BY <1>1, <2>3
    <3>2. \A i \in 1 .. n : path'[i] = path[i]
      BY <1>5, <2>1 DEF Arrive, Descend
    <3> QED
      BY <1>2, <3>1, <3>2
  <2>7. k <= Len(path') => P[k].ride # path'[k].ride
    <3>1. CASE Arrive
      BY <1>2, <3>1 DEF Arrive
    <3>2. CASE Descend
      <4>1. path' = Longer
        BY <3>2 DEF Descend
      <4>2. CASE k = n + 1
        <5>1. j # f
          BY <1>3, <1>4, <2>1, <2>2, <4>2
        <5>2. order[j] # order[f]
          BY <2>1, <5>1, OrderFacts
        <5> QED
          BY <1>3, <2>1, <4>1, <4>2, <5>2
      <4>3. CASE k \in 1 .. n
        <5>1. P[k].ride # path[k].ride
          BY <1>1, <1>2, <4>3 DEF n
        <5> QED
          BY <2>1, <4>1, <4>3, <5>1
      <4> QED
        BY <1>1, <2>3, <4>2, <4>3
    <3> QED
      BY <1>5, <3>1, <3>2
  <2>8. k \in 1 .. Len(next')
    <3>1. Len(next') \in Nat
      BY <1>1, <2>1, <1>5, AppendProperties DEF Arrive, Descend
    <3> QED
      BY <2>3, <2>4, <3>1, <1>1
  <2>9. order' = order
    BY <1>5 DEF Arrive, Descend, request
  <2> QED
    BY <1>2, <1>3, <2>5, <2>6, <2>7, <2>8, <2>9 DEF Tried
<1>6. CASE Return
  <2>1. /\ Len(next') = n
        /\ Len(path') = IF path = << >> THEN 0 ELSE n - 1
        /\ path = << >> => path' = << >> /\ next' = << >>
        /\ \A i \in 1 .. Len(path') : path'[i] = path[i]
        /\ \A i \in 1 .. n : next'[i] = next[i]
    BY <1>6, GoingBack DEF n
  <2>2. path # << >> /\ Len(path') = n - 1 /\ n >= 1
    <3>1. path \in Seq(Steps(rides))
      BY DEF Walking, Walkable
    <3> QED
      BY <2>1, <3>1, EmptySeq DEF n
  <2>3. order' = order
    BY <1>6 DEF Return, request
  <2>4. CASE k \in 1 .. n
    <3>1. k \in 1 .. Len(next') /\ next'[k] = next[k]
      BY <2>1, <2>4
    <3>2. \A i \in 1 .. (k - 1) : P[i] = path'[i]
      <4>1. \A i \in 1 .. (k - 1) : i \in 1 .. Len(path')
        BY <1>1, <2>2, <2>4
      <4> QED
        BY <1>2, <2>1, <4>1
    <3>3. k <= Len(path') => P[k].ride # path'[k].ride
      <4> HAVE k <= Len(path')
      <4>1. k \in 1 .. Len(path')
        BY <1>1, <2>2, <2>4
      <4>2. k <= Len(path)
        BY <1>1, <2>4 DEF n
      <4> QED
        BY <1>2, <2>1, <4>1, <4>2
    <3> QED
      BY <1>2, <1>3, <2>3, <3>1, <3>2, <3>3 DEF Tried
  <2>5. CASE k = n + 1
    <3>1. P[n] = path[n] /\ n <= Len(P) /\ n \in 1 .. n
      <4>1. n \in 1 .. (k - 1) /\ n <= Len(P) /\ n \in 1 .. n
        BY <1>1, <1>2, <2>2, <2>5
      <4> QED
        BY <1>2, <4>1
    <3>2. next[n] - 1 \in 1 .. Len(order) /\ order[next[n] - 1] = P[n].ride
      BY <3>1 DEF Walking, n
    <3>3. n \in 1 .. Len(next') /\ next'[n] = next[n]
      BY <1>1, <2>1, <2>2
    <3>4. \A i \in 1 .. (n - 1) : P[i] = path'[i]
      <4>1. \A i \in 1 .. (n - 1) : i \in 1 .. Len(path') /\ i \in 1 .. (k - 1)
        BY <1>1, <2>2, <2>5
      <4> QED
        BY <1>2, <2>1, <4>1
    <3>5. ~ (n <= Len(path'))
      BY <1>1, <2>2
    <3>6. next[n] \in Nat /\ next[n] - 1 < next[n]
      <4>1. n \in 1 .. Len(next)
        BY <1>1, <2>2
      <4>2. next[n] \in Nat
        BY <1>1, <4>1, ElementOfSeq
      <4> QED
        BY <4>2
    <3> QED
      BY <2>3, <3>1, <3>2, <3>3, <3>4, <3>5, <3>6 DEF Tried
  <2> QED
    BY <1>1, <2>4, <2>5
<1> QED
  BY <1>5, <1>6

\* What the walk has newly been through, if it arrives, is the path it found.
LEMMA TriedGrows ==
  ASSUME Given, Walking, next # << >>, Arrive \/ Descend \/ (Return /\ Ahead = {}),
         NEW P \in Seq(Steps(rides)), Arrives(rides, query, P),
         next' # << >> => Tried(order, path', next', P)
  PROVE  Tried(order, path, next, P) \/ (Arrive /\ P = Longer)
<1> SUFFICES ASSUME ~ Tried(order, path, next, P)
             PROVE  Arrive /\ P = Longer
  OBVIOUS
<1> DEFINE n == Len(path)
<1>1. n \in Nat /\ Len(next) = n + 1 /\ Len(P) \in Nat /\ next \in Seq(Nat \ {0})
  BY LenProperties DEF Walking, Walkable
<1>2. order' = order
  BY DEF Arrive, Descend, Return, request
<1>3. P # << >> /\ Len(P) >= 1
  BY <1>1, EmptySeq DEF Arrives
<1>4. ASSUME NEW k \in 1 .. n, \A i \in 1 .. (k - 1) : P[i] = path[i],
             k <= Len(P), NEW j \in 1 .. Len(order), j < next[k], order[j] = P[k].ride
      PROVE  P[k] = path[k] /\ k < Len(P)
  <2>1. k \in 1 .. Len(next) /\ k <= Len(path)
    BY <1>1
  <2>2. P[k].ride = path[k].ride
    BY <1>4, <2>1 DEF Tried
  <2>3. P[k] = path[k]
    <3>1. /\ k \in 1 .. Len(P) /\ k - 1 \in 0 .. Len(path)
          /\ k \in 1 .. Len(path)
      BY <1>1, <1>4
    <3>2. At(rides, query, P, k - 1) = At(rides, query, path, k - 1)
      <4>1. k - 1 # 0 => k - 1 \in 1 .. (k - 1)
        BY <1>1
      <4> QED
        BY <1>4, <4>1 DEF At
    <3>3. Walkable(rides, query, P) /\ Walkable(rides, query, path) /\ Routes(rides)
      BY OrderFacts DEF Walking, Arrives
    <3> QED
      BY <2>2, <3>1, <3>2, <3>3, SameStep
  <2>4. k # Len(P)
    <3> SUFFICES ASSUME k = Len(P) PROVE FALSE
      OBVIOUS
    <3>1. At(rides, query, P, k) = query.to
      BY DEF Arrives
    <3>2. At(rides, query, P, k) = At(rides, query, path, k)
      BY <2>3, <1>1 DEF At
    <3> QED
      BY <3>1, <3>2 DEF Walking
  <2> QED
    BY <1>1, <1>4, <2>3, <2>4
<1>5. ASSUME n < Len(P), \A i \in 1 .. n : P[i] = path[i]
      PROVE  \E j \in 1 .. Len(order) :
               /\ order[j] = P[n + 1].ride
               /\ j \in Ahead /\ First(Ahead) <= j
               /\ j = First(Ahead) =>
                    /\ \A k \in 1 .. (n + 1) : P[k] = Longer[k]
                    /\ Here(rides, query, Longer) = query.to => P = Longer
  <2>1. n + 1 \in 1 .. Len(P)
    BY <1>1, <1>5
  <2>2. P[n + 1] \in Steps(rides)
    BY <2>1, ElementOfSeq
  <2>3. P[n + 1].ride \in DOMAIN rides
    BY <2>2 DEF Steps
  <2>4. PICK j \in 1 .. Len(order) : order[j] = P[n + 1].ride
    BY <2>3, OrderFacts
  <2> QED
    BY <1>5, <2>4, OnlyLonger
<1>6. CASE Return /\ Ahead = {}
  <2>1. /\ Len(next') = n
        /\ Len(path') = IF path = << >> THEN 0 ELSE n - 1
        /\ path = << >> => path' = << >> /\ next' = << >>
        /\ path # << >> => next' # << >>
        /\ \A i \in 1 .. Len(path') : path'[i] = path[i]
        /\ \A i \in 1 .. n : next'[i] = next[i]
    BY <1>6, GoingBack
  <2>2. n < Len(P) /\ \A i \in 1 .. n : P[i] = path[i]
    <3>1. CASE path = << >>
      BY <1>3, <3>1, EmptySeq
    <3>2. CASE path # << >>
      <4>1. n >= 1 /\ Len(path') = n - 1
        <5>1. path \in Seq(Steps(rides))
          BY DEF Walking, Walkable
        <5> QED
          BY <2>1, <3>2, <5>1, EmptySeq
      <4>2. PICK k \in 1 .. n :
              /\ k <= Len(P)
              /\ \A i \in 1 .. (k - 1) : P[i] = path'[i]
              /\ \E j \in 1 .. Len(order) : j < next'[k] /\ order[j] = P[k].ride
              /\ k <= Len(path') => P[k].ride # path'[k].ride
        BY <1>2, <2>1, <3>2 DEF Tried
      <4>3. \A i \in 1 .. (k - 1) : P[i] = path[i]
        <5>1. \A i \in 1 .. (k - 1) : i \in 1 .. Len(path')
          BY <1>1, <4>1
        <5> QED
          BY <2>1, <4>2, <5>1
      <4>4. PICK j \in 1 .. Len(order) : j < next[k] /\ order[j] = P[k].ride
        BY <2>1, <4>2
      <4>5. P[k] = path[k] /\ k < Len(P)
        BY <1>4, <4>2, <4>3, <4>4
      <4>6. k = n
        <5>1. ~ (k <= Len(path'))
          <6> SUFFICES ASSUME k <= Len(path') PROVE FALSE
            OBVIOUS
          <6>1. k \in 1 .. Len(path')
            BY <1>1, <4>1
          <6> QED
            BY <2>1, <4>2, <4>5, <6>1
        <5> QED
          BY <1>1, <4>1, <5>1
      <4>7. \A i \in 1 .. n : i \in 1 .. (k - 1) \/ i = k
        BY <1>1, <4>6
      <4> QED
        BY <4>3, <4>5, <4>6, <4>7
    <3> QED
      BY <3>1, <3>2
  <2> QED
    BY <1>5, <1>6, <2>2
<1>7. CASE Arrive \/ Descend
  <2> DEFINE f == First(Ahead)
  <2>1. /\ f \in 1 .. Len(order) /\ next[n + 1] <= f
        /\ Len(Longer) = n + 1 /\ Longer \in Seq(Steps(rides))
        /\ Longer[n + 1].ride = order[f]
        /\ \A i \in 1 .. n : Longer[i] = path[i]
        /\ Behind \in Seq(Nat \ {0}) /\ Len(Behind) = n + 1
        /\ \A i \in 1 .. n : Behind[i] = next[i]
        /\ Behind[n + 1] = f + 1
    BY <1>1, <1>7, GoingOn DEF Arrive, Descend
  <2>2. f \in Nat
    BY <2>1, OrderFacts
  <2> HIDE DEF f
  <2>3. /\ Len(next') = IF Arrive THEN n + 1 ELSE n + 2
        /\ ~ Arrive => next'[n + 2] = 1
        /\ \A i \in 1 .. (n + 1) : next'[i] = Behind[i]
        /\ path' = IF Arrive THEN path ELSE Longer
    <3>1. CASE Arrive
      BY <2>1, <3>1 DEF Arrive
    <3>2. CASE ~ Arrive
      <4>1. next' = Append(Behind, 1) /\ path' = Longer
        BY <1>7, <3>2 DEF Descend
      <4> QED
        BY <1>1, <2>1, <3>2, <4>1, AppendProperties
    <3> QED
      BY <3>1, <3>2
  <2>4. next' # << >>
    BY <1>1, <2>3, EmptySeq
  <2>5. PICK k \in 1 .. Len(next') :
          /\ k <= Len(P)
          /\ \A i \in 1 .. (k - 1) : P[i] = path'[i]
          /\ \E j \in 1 .. Len(order) : j < next'[k] /\ order[j] = P[k].ride
          /\ k <= Len(path') => P[k].ride # path'[k].ride
    BY <1>2, <2>4 DEF Tried
  <2>6. PICK j \in 1 .. Len(order) : j < next'[k] /\ order[j] = P[k].ride
    BY <2>5
  <2>7. j \in Nat /\ j >= 1
    BY OrderFacts
  <2>8. k \in 1 .. (n + 1)
    <3>1. k \in 1 .. (n + 2)
      BY <1>1, <2>3
    <3>2. k # n + 2
      <4> SUFFICES ASSUME k = n + 2 PROVE FALSE
        OBVIOUS
      <4>1. ~ Arrive
        BY <1>1, <2>3
      <4> QED
        BY <2>3, <2>6, <2>7, <4>1
    <3> QED
      BY <1>1, <3>1, <3>2
  <2>9. \A i \in 1 .. (k - 1) : P[i] = path[i]
    <3>1. \A i \in 1 .. (k - 1) : i \in 1 .. n
      BY <1>1, <2>8
    <3>2. \A i \in 1 .. n : path'[i] = path[i]
      BY <2>1, <2>3
    <3> QED
      BY <2>5, <3>1, <3>2
  <2>10. k = n + 1
    <3> SUFFICES ASSUME k \in 1 .. n PROVE FALSE
      BY <1>1, <2>8
    <3>1. next'[k] = next[k]
      <4>1. k \in 1 .. (n + 1)
        BY <1>1
      <4> QED
        BY <2>1, <2>3, <4>1
    <3>2. P[k] = path[k]
      BY <1>4, <2>5, <2>6, <2>9, <3>1
    <3>3. k <= Len(path') /\ path'[k] = path[k]
      <4>1. k <= n /\ k <= n + 1
        BY <1>1
      <4> QED
        BY <2>1, <2>3, <4>1
    <3> QED
      BY <2>5, <3>2, <3>3
  <2>11. n < Len(P) /\ \A i \in 1 .. n : P[i] = path[i]
    BY <1>1, <2>5, <2>9, <2>10
  <2>12. PICK i \in 1 .. Len(order) :
           /\ order[i] = P[n + 1].ride
           /\ f <= i
           /\ i = f => /\ \A l \in 1 .. (n + 1) : P[l] = Longer[l]
                       /\ Here(rides, query, Longer) = query.to => P = Longer
    BY <1>5, <2>11 DEF f
  <2>13. i = j
    BY <2>6, <2>10, <2>12, OrderFacts
  <2>14. j < f + 1
    BY <1>1, <2>1, <2>3, <2>6, <2>10
  <2>15. i = f
    BY <2>2, <2>7, <2>12, <2>13, <2>14
  <2>16. Arrive
    <3> SUFFICES ASSUME ~ Arrive PROVE FALSE
      OBVIOUS
    <3>1. path' = Longer /\ k <= Len(path')
      BY <1>1, <2>1, <2>3, <2>10
    <3>2. P[n + 1] = Longer[n + 1]
      BY <1>1, <2>12, <2>15
    <3> QED
      BY <2>5, <2>10, <3>1, <3>2
  <2>17. Here(rides, query, Longer) = query.to
    BY <2>16 DEF Arrive
  <2> QED
    BY <2>12, <2>15, <2>16, <2>17
<1> QED
  BY <1>6, <1>7

\* At the start nothing is found and nothing has been tried.
LEMMA FoundInit ==
  ASSUME Init
  PROVE  Given /\ Walking /\ FoundKept
<1>1. Given
  BY DEF Init, Given
<1>2. /\ path = << >> /\ found = << >>
      /\ next = IF query.from = query.to THEN << >> ELSE <<1>>
  BY DEF Init
<1>3. Routes(rides) /\ query.transfers \in Nat /\ query.results \in Nat
  BY <1>1, OrderFacts
<1>4. Walkable(rides, query, path)
  <2>1. path \in Seq(Steps(rides)) /\ Len(path) = 0
    BY <1>2, EmptySeq
  <2>2. transfersOf(path) = 0
    <3>1. Changes(path, 0) = 0
      BY NoChangeYet
    <3> QED
      BY <2>1, <3>1 DEF transfersOf
  <2>3. \A k \in 1 .. Len(path) : FALSE
    BY <2>1
  <2>4. \A j, k \in 0 .. Len(path) : j = k
    BY <2>1
  <2> QED
    BY <1>3, <2>1, <2>2, <2>3, <2>4 DEF Walkable
<1>5. Walking
  <2>1. Len(path) = 0
    BY <1>2, EmptySeq
  <2>2. next \in Seq(Nat \ {0}) /\ (next # << >> => Len(next) = 1 /\ query.from # query.to)
    <3>1. CASE query.from = query.to
      BY <1>2, <3>1, EmptySeq
    <3>2. CASE query.from # query.to
      <4>1. <<1>> \in Seq(Nat \ {0}) /\ Len(<<1>>) = 1
        OBVIOUS
      <4> QED
        BY <1>2, <3>2, <4>1
    <3> QED
      BY <3>1, <3>2
  <2>3. \A k \in 1 .. Len(path) : FALSE
    BY <2>1
  <2> QED
    BY <1>2, <1>4, <2>1, <2>2, <2>3 DEF Walking
<1>6. FoundKept
  <2>1. found \in Seq(Seq(Steps(rides))) /\ Len(found) = 0
    BY <1>2, EmptySeq
  <2>2. CutOff(query) \in Nat
    BY <1>3 DEF CutOff
  <2>3. \A m \in 1 .. Len(found) : FALSE
    BY <2>1
  <2>4. ASSUME NEW P \in Seq(Steps(rides)), Arrives(rides, query, P),
               next # << >> => Tried(order, path, next, P)
        PROVE  FALSE
    <3>1. CASE query.from = query.to
      <4>1. Len(P) \in Nat \ {0}
        BY <2>4, EmptySeq DEF Arrives
      <4>2. At(rides, query, P, 0) = At(rides, query, P, Len(P))
        BY <2>4, <3>1 DEF Arrives, At
      <4>3. 0 \in 0 .. Len(P) /\ Len(P) \in 0 .. Len(P)
        BY <4>1
      <4>4. 0 = Len(P)
        BY <2>4, <4>2, <4>3 DEF Arrives, Walkable
      <4> QED
        BY <4>1, <4>4
    <3>2. CASE query.from # query.to
      <4>1. next = <<1>>
        BY <1>2, <3>2
      <4>2. Len(next) = 1 /\ next[1] = 1 /\ next # << >>
        BY <4>1
      <4>3. PICK k \in 1 .. Len(next) : \E j \in 1 .. Len(order) : j < next[k]
        BY <2>4, <4>2 DEF Tried
      <4>4. k = 1
        BY <4>2
      <4> QED
        BY <1>1, <4>2, <4>3, <4>4, OrderFacts
    <3> QED
      BY <3>1, <3>2
  <2> QED
    BY <2>1, <2>2, <2>3, <2>4 DEF FoundKept
<1> QED
  BY <1>1, <1>5, <1>6

\* What is found stays as described, whatever the walk does next.
LEMMA FoundStep ==
  ASSUME Given, Walking, FoundKept, Arrive \/ Descend \/ Return
  PROVE  FoundKept'
<1>1. UNCHANGED <<rides, query, order>> /\ next # << >>
  BY DEF Arrive, Descend, Return, request
<1>2. CutOff(query) \in Nat
  BY OrderFacts DEF CutOff
<1>3. Len(found) \in Nat /\ \A m \in 1 .. Len(found) : found[m] \in Seq(Steps(rides))
  BY LenProperties, ElementOfSeq DEF FoundKept
<1>4. ASSUME NEW m \in 1 .. Len(found)
      PROVE  /\ Arrives(rides, query, found[m])
             /\ next' # << >> => Tried(order, path', next', found[m])
  <2>1. Arrives(rides, query, found[m]) /\ Tried(order, path, next, found[m])
    BY <1>1 DEF FoundKept
  <2> QED
    BY <1>1, <1>3, <2>1, TriedStays
<1>5. CASE Arrive
  <2> DEFINE n == Len(path)
             f == First(Ahead)
  <2>1. /\ f \in 1 .. Len(order) /\ next[Len(next)] <= f
        /\ Longer \in Seq(Steps(rides))
        /\ Walkable(rides, query, Longer)
        /\ Len(Longer) = n + 1
        /\ Longer[n + 1].ride = order[f]
        /\ \A k \in 1 .. n : Longer[k] = path[k]
        /\ Here(rides, query, Longer) = At(rides, query, Longer, Len(Longer))
        /\ Len(Behind) = n + 1
        /\ Behind[n + 1] = f + 1
    BY <1>5, GoingOn DEF Arrive
  <2>2. n \in Nat /\ Len(next) = n + 1 /\ next \in Seq(Nat \ {0}) /\ f \in Nat
    BY <1>1, <2>1, LenProperties, OrderFacts DEF Walking, Walkable
  <2> HIDE DEF n, f
  <2>3. Longer # << >>
    BY <2>1, <2>2, EmptySeq
  <2>4. Arrives(rides, query, Longer)
    BY <1>5, <2>1, <2>3 DEF Arrives, Arrive
  <2>5. ~ Tried(order, path, next, Longer)
    <3> SUFFICES ASSUME NEW k \in 1 .. Len(next), k <= Len(Longer),
                        k <= Len(path) => Longer[k].ride # path[k].ride,
                        NEW j \in 1 .. Len(order), j < next[k], order[j] = Longer[k].ride
                 PROVE  FALSE
      BY DEF Tried
    <3>1. CASE k \in 1 .. n
      BY <2>1, <2>2, <3>1 DEF n
    <3>2. CASE k = n + 1
      <4>1. j = f
        BY <2>1, <3>2, OrderFacts
      <4>2. next[n + 1] \in Nat
        BY <2>2, ElementOfSeq
      <4> QED
        BY <2>1, <2>2, <3>2, <4>1, <4>2
    <3> QED
      BY <2>2, <3>1, <3>2
  <2>6. Tried(order, path', next', Longer)
    <3>1. next' = Behind /\ path' = path
      BY <1>5 DEF Arrive
    <3>2. n + 1 \in 1 .. Len(next') /\ ~ (n + 1 <= Len(path'))
      BY <2>1, <2>2, <3>1 DEF n
    <3>3. \A i \in 1 .. n : Longer[i] = path'[i]
      BY <2>1, <3>1
    <3>4. f < next'[n + 1]
      BY <2>1, <2>2, <3>1
    <3>5. n + 1 <= Len(Longer) /\ (n + 1) - 1 = n /\ n + 1 \in Nat
      BY <2>1, <2>2
    <3>6. \A i \in 1 .. ((n + 1) - 1) : Longer[i] = path'[i]
      BY <3>3, <3>5
    <3> QED
      BY <1>1, <2>1, <3>2, <3>4, <3>5, <3>6 DEF Tried
  <2>7. \A m \in 1 .. Len(found) : found[m] # Longer
    BY <1>1, <2>5 DEF FoundKept
  <2>8. /\ found' \in Seq(Seq(Steps(rides)))
        /\ Len(found') = Len(found) + 1
        /\ \A m \in 1 .. Len(found) : found'[m] = found[m]
        /\ found'[Len(found) + 1] = Longer
    BY <1>5, <2>1, AppendProperties DEF Arrive, FoundKept
  <2>9. Len(found') <= CutOff(query)
    BY <1>2, <1>3, <1>5, <2>8 DEF Arrive, Full
  <2>10. \A m \in 1 .. Len(found') : m \in 1 .. Len(found) \/ m = Len(found) + 1
    BY <1>3, <2>8
  <2>11. \A m \in 1 .. Len(found') : /\ Arrives(rides, query, found'[m])
                                     /\ next' # << >> => Tried(order, path', next', found'[m])
    BY <1>4, <2>4, <2>6, <2>8, <2>10
  <2>12. \A l, m \in 1 .. Len(found') : found'[l] = found'[m] => l = m
    <3> TAKE l, m \in 1 .. Len(found')
    <3>1. CASE l \in 1 .. Len(found) /\ m \in 1 .. Len(found)
      BY <2>8, <3>1 DEF FoundKept
    <3> QED
      BY <2>7, <2>8, <2>10, <3>1
  <2>13. ASSUME NEW P \in Seq(Steps(rides)), Arrives(rides, query, P),
                next' # << >> => Tried(order, path', next', P)
         PROVE  \E m \in 1 .. Len(found') : found'[m] = P
    <3>1. Tried(order, path, next, P) \/ P = Longer
      BY <1>1, <1>5, <2>13, TriedGrows
    <3>2. CASE Tried(order, path, next, P)
      <4>1. Len(found) < CutOff(query)
        BY <1>2, <1>3, <1>5 DEF Arrive, Full
      <4>2. PICK m \in 1 .. Len(found) : found[m] = P
        BY <2>13, <3>2, <4>1 DEF FoundKept
      <4>3. m \in 1 .. Len(found') /\ found'[m] = P
        BY <1>3, <2>8, <4>2
      <4> QED
        BY <4>3
    <3>3. CASE P = Longer
      BY <1>3, <2>8, <3>3
    <3> QED
      BY <3>1, <3>2, <3>3
  <2> QED
    BY <1>1, <2>8, <2>9, <2>11, <2>12, <2>13 DEF FoundKept
<1>6. CASE Descend \/ (Return /\ Ahead = {})
  <2>1. found' = found
    BY <1>6 DEF Descend, Return
  <2>2. ASSUME Len(found) < CutOff(query), NEW P \in Seq(Steps(rides)),
               Arrives(rides, query, P), next' # << >> => Tried(order, path', next', P)
        PROVE  \E m \in 1 .. Len(found) : found[m] = P
    <3>1. Tried(order, path, next, P) \/ (Arrive /\ P = Longer)
      BY <1>1, <1>6, <2>2, TriedGrows
    <3>2. ~ Arrive
      <4>1. CASE Descend
        BY <4>1 DEF Arrive, Descend
      <4>2. CASE Return /\ Ahead = {}
        BY <4>2 DEF Arrive
      <4> QED
        BY <1>6, <4>1, <4>2
    <3> QED
      BY <2>2, <3>1, <3>2 DEF FoundKept
  <2> QED
    BY <1>1, <1>4, <2>1, <2>2 DEF FoundKept
<1>7. CASE Return /\ Ahead # {}
  <2>1. found' = found /\ ~ (Len(found) < CutOff(query))
    BY <1>2, <1>3, <1>7 DEF Return, Full
  <2> QED
    BY <1>1, <1>4, <2>1 DEF FoundKept
<1> QED
  BY <1>5, <1>6, <1>7
(***************************************************************************)
(* The answer.                                                             *)
(***************************************************************************)
\* Price, then transfers: the documented order.
NotAfter(x, y) ==
  \/ x.total < y.total
  \/ x.total = y.total /\ x.transfers <= y.transfers

\* best holds the itineraries of the first paths found, in order.
SortedKept ==
  /\ best \in Seq({buildItinerary(rides, found[m]) : m \in 1 .. Len(found)})
  /\ Len(best) <= Len(found)
  /\ next # << >> => best = << >>
  /\ \A m \in 1 .. Len(best) : \E k \in 1 .. Len(best) : best[k] = buildItinerary(rides, found[m])
  /\ \A k \in 1 .. Len(best) : \E m \in 1 .. Len(best) : best[k] = buildItinerary(rides, found[m])
  /\ \A k, l \in 1 .. Len(best) : best[k] = best[l] => k = l
  /\ \A k, l \in 1 .. Len(best) : k < l => Better(rides, best[k], best[l])

\* An answer is made of the best that there are.
AnswerKept ==
  Answered =>
    /\ next = << >> /\ Len(best) = Len(found)
    /\ answer = <<[k \in 1 .. (IF Len(best) > query.results THEN query.results ELSE Len(best))
                     |-> best[k]]>>

\* The paths found have comparable itineraries, no two of them alike.
LEMMA FoundItineraries ==
  ASSUME Given, FoundKept
  PROVE  /\ Len(found) \in Nat
         /\ \A m \in 1 .. Len(found) : /\ buildItinerary(rides, found[m]).total \in Nat
                                       /\ buildItinerary(rides, found[m]).transfers \in Nat
         /\ \A m, n \in 1 .. Len(found) :
              buildItinerary(rides, found[m]) = buildItinerary(rides, found[n]) => m = n
<1>1. Len(found) \in Nat
  BY LenProperties DEF FoundKept
<1>2. \A m \in 1 .. Len(found) : Arrives(rides, query, found[m])
  BY DEF FoundKept
<1>3. \A m \in 1 .. Len(found) : /\ buildItinerary(rides, found[m]).total \in Nat
                                 /\ buildItinerary(rides, found[m]).transfers \in Nat
  BY <1>2, TotalType, OrderFacts
<1>4. \A m, n \in 1 .. Len(found) :
        buildItinerary(rides, found[m]) = buildItinerary(rides, found[n]) => found[m] = found[n]
  BY <1>2, PathsShowApart, OrderFacts
<1> QED
  BY <1>1, <1>3, <1>4 DEF FoundKept

\* And one of any two is better.
LEMMA FoundOrdered ==
  ASSUME Given, FoundKept
  PROVE  /\ {buildItinerary(rides, found[m]) : m \in 1 .. Len(found)} \subseteq
              Itineraries(rides, query)
         /\ Routes(rides) /\ Ranked(rides) /\ query.transfers \in Nat
<1>1. \A m \in 1 .. Len(found) : found[m] \in Paths(rides) /\ Arrives(rides, query, found[m])
  BY ElementOfSeq DEF FoundKept, Paths
<1>2. Ranked(rides)
  BY RanksType DEF Given
<1> QED
  BY <1>1, <1>2, OrderFacts DEF Itineraries

\* Sorting in one more itinerary keeps best in order.
LEMMA SortStep ==
  ASSUME Given, FoundKept, SortedKept, Sort
  PROVE  SortedKept'
<1> DEFINE n == Len(best)
           it == buildItinerary(rides, found[n + 1])
           p == PlaceOf(it)
           worse == {k \in DOMAIN best : Better(rides, it, best[k])}
           X == {buildItinerary(rides, found[m]) : m \in 1 .. Len(found)}
<1>1. /\ n \in Nat /\ best \in Seq(X) /\ DOMAIN best = 1 .. n
      /\ n < Len(found) /\ Len(found) \in Nat /\ n + 1 \in 1 .. Len(found)
  <2>1. n \in Nat /\ best \in Seq(X) /\ DOMAIN best = 1 .. n
    BY LenProperties DEF SortedKept
  <2>2. n < Len(found) /\ Len(found) \in Nat
    BY FoundItineraries DEF Sort
  <2> QED
    BY <2>1, <2>2
<1>2. it \in X /\ it = buildItinerary(rides, found[n + 1])
  BY <1>1
<1>3. /\ X \subseteq Itineraries(rides, query)
      /\ Routes(rides) /\ Ranked(rides) /\ query.transfers \in Nat
  BY FoundOrdered
<1>4. \A k \in 1 .. n : best[k] \in X
  BY <1>1, ElementOfSeq
<1>5. /\ UNCHANGED <<rides, query, order, next, found, answer>>
      /\ next = << >>
      /\ best' = [k \in 1 .. (n + 1) |->
                    IF k < p THEN best[k] ELSE IF k = p THEN it ELSE best[k - 1]]
  BY DEF Sort, request
<1>6. p = IF worse = {} THEN n + 1 ELSE First(worse)
  BY DEF PlaceOf
<1> HIDE DEF it, p, X, n
<1>7. /\ p \in 1 .. (n + 1)
      /\ \A k \in 1 .. n : k < p => ~ Better(rides, it, best[k])
      /\ p <= n => Better(rides, it, best[p])
  <2>1. CASE worse = {}
    BY <1>1, <1>6, <2>1
  <2>2. CASE worse # {}
    <3>1. worse \in SUBSET Nat
      BY <1>1
    <3>2. First(worse) \in worse /\ \A k \in worse : First(worse) <= k
      <4> HIDE DEF worse
      <4> QED
        BY <2>2, <3>1, FirstIn
    <3>3. p = First(worse)
      BY <1>6, <2>2
    <3>4. p \in DOMAIN best /\ Better(rides, it, best[p]) /\ \A k \in worse : p <= k
      BY <3>2, <3>3
    <3>5. \A k \in 1 .. n : k < p => k \notin worse
      BY <1>1, <3>4
    <3> QED
      BY <1>1, <3>4, <3>5
  <2> QED
    BY <2>1, <2>2
<1>8. ASSUME NEW x \in X, NEW y \in X, x # y, ~ Better(rides, x, y)
      PROVE  Better(rides, y, x)
  BY <1>3, <1>8, BetterTotal
<1>9. ASSUME NEW x \in X, NEW y \in X, NEW z \in X, Better(rides, x, y), Better(rides, y, z)
      PROVE  Better(rides, x, z)
  BY <1>3, <1>9, BetterOrder
<1>10. \A k \in 1 .. n : best[k] # it
  <2> SUFFICES ASSUME NEW k \in 1 .. n, best[k] = it PROVE FALSE
    OBVIOUS
  <2>1. PICK m \in 1 .. n : it = buildItinerary(rides, found[m])
    BY DEF SortedKept, n
  <2>2. m \in 1 .. Len(found) /\ m # n + 1
    BY <1>1
  <2> QED
    BY <1>1, <1>2, <2>1, <2>2, FoundItineraries
<1>11. \A k \in 1 .. n : IF k < p THEN Better(rides, best[k], it) ELSE Better(rides, it, best[k])
  <2> TAKE k \in 1 .. n
  <2>1. CASE k < p
    BY <1>2, <1>4, <1>7, <1>8, <1>10, <2>1
  <2>2. CASE ~ (k < p)
    <3>1. p \in 1 .. n /\ p <= n /\ (p = k \/ p < k)
      BY <1>1, <1>7, <2>2
    <3>2. Better(rides, it, best[p])
      BY <1>7, <3>1
    <3>3. p < k => Better(rides, best[p], best[k])
      BY <3>1 DEF SortedKept, n
    <3> QED
      BY <1>2, <1>4, <1>9, <2>2, <3>1, <3>2, <3>3
  <2> QED
    BY <2>1, <2>2
<1> DEFINE b2 == [k \in 1 .. (n + 1) |->
                    IF k < p THEN best[k] ELSE IF k = p THEN it ELSE best[k - 1]]
           old(k) == IF k < p THEN k ELSE k - 1
<1>12. \A k \in 1 .. (n + 1) : k # p => old(k) \in 1 .. n /\ b2[k] = best[old(k)]
  BY <1>1, <1>7
<1>13. b2[p] = it
  BY <1>7
<1>14. b2 \in Seq(X) /\ Len(b2) = n + 1
  <2>1. \A k \in 1 .. (n + 1) : b2[k] \in X
    BY <1>2, <1>4, <1>12, <1>13
  <2>2. b2 \in [1 .. (n + 1) -> X]
    BY <2>1
  <2> HIDE DEF b2
  <2> QED
    BY <1>1, <2>2
<1>15. b2 = best' /\ X = {buildItinerary(rides', found'[m]) : m \in 1 .. Len(found')}
  BY <1>5 DEF X
<1> HIDE DEF b2
<1>16. \A m \in 1 .. (n + 1) : \E k \in 1 .. (n + 1) : b2[k] = buildItinerary(rides, found[m])
  <2> TAKE m \in 1 .. (n + 1)
  <2>1. CASE m = n + 1
    BY <1>2, <1>7, <1>13, <2>1
  <2>2. CASE m \in 1 .. n
    <3>1. PICK k \in 1 .. n : best[k] = buildItinerary(rides, found[m])
      BY <2>2 DEF SortedKept, n
    <3>2. \E l \in 1 .. (n + 1) : l # p /\ old(l) = k
      <4>1. CASE k < p
        BY <1>1, <1>7, <4>1
      <4>2. CASE ~ (k < p)
        <5>1. k + 1 \in 1 .. (n + 1) /\ k + 1 # p /\ ~ (k + 1 < p) /\ (k + 1) - 1 = k
          BY <1>1, <1>7, <4>2
        <5> QED
          BY <5>1
      <4> QED
        BY <4>1, <4>2
    <3> QED
      BY <1>12, <3>1, <3>2
  <2> QED
    BY <1>1, <2>1, <2>2
<1>17. \A k \in 1 .. (n + 1) : \E m \in 1 .. (n + 1) : b2[k] = buildItinerary(rides, found[m])
  <2> TAKE k \in 1 .. (n + 1)
  <2>1. CASE k = p
    BY <1>1, <1>2, <1>13, <2>1
  <2>2. CASE k # p
    <3>1. PICK m \in 1 .. n : best[old(k)] = buildItinerary(rides, found[m])
      <4>1. old(k) \in 1 .. n
        BY <1>12, <2>2
      <4> HIDE DEF old
      <4> QED
        BY <4>1 DEF SortedKept, n
    <3>2. m \in 1 .. (n + 1)
      BY <1>1
    <3> QED
      BY <1>12, <2>2, <3>1, <3>2
  <2> QED
    BY <2>1, <2>2
<1>18. \A k, l \in 1 .. (n + 1) : b2[k] = b2[l] => k = l
  <2> TAKE k, l \in 1 .. (n + 1)
  <2> HAVE b2[k] = b2[l]
  <2>1. CASE k = p \/ l = p
    BY <1>12, <1>13, <1>10, <2>1
  <2>2. CASE k # p /\ l # p
    <3>1. old(k) = old(l)
      <4>1. old(k) \in 1 .. n /\ old(l) \in 1 .. n /\ best[old(k)] = best[old(l)]
        BY <1>12, <2>2
      <4> HIDE DEF old
      <4> QED
        BY <4>1 DEF SortedKept, n
    <3> QED
      BY <1>1, <1>7, <2>2, <3>1
  <2> QED
    BY <2>1, <2>2
<1>19. \A k, l \in 1 .. (n + 1) : k < l => Better(rides, b2[k], b2[l])
  <2> TAKE k, l \in 1 .. (n + 1)
  <2> HAVE k < l
  <2>1. CASE k = p
    <3>1. l # p /\ ~ (old(l) < p)
      BY <1>1, <1>7, <2>1
    <3>2. old(l) \in 1 .. n /\ b2[l] = best[old(l)] /\ b2[k] = it
      BY <1>12, <1>13, <2>1, <3>1
    <3> HIDE DEF old, b2
    <3> QED
      BY <1>11, <3>1, <3>2
  <2>2. CASE l = p
    <3>1. k # p /\ old(k) < p
      BY <1>1, <1>7, <2>2
    <3>2. old(k) \in 1 .. n /\ b2[k] = best[old(k)] /\ b2[l] = it
      BY <1>12, <1>13, <2>2, <3>1
    <3> HIDE DEF old, b2
    <3> QED
      BY <1>11, <3>1, <3>2
  <2>3. CASE k # p /\ l # p
    <3>1. old(k) < old(l)
      BY <1>1, <1>7, <2>3
    <3>2. old(k) \in 1 .. n /\ old(l) \in 1 .. n /\ b2[k] = best[old(k)] /\ b2[l] = best[old(l)]
      BY <1>12, <2>3
    <3>3. \A i, j \in 1 .. n : i < j => Better(rides, best[i], best[j])
      BY DEF SortedKept, n
    <3> HIDE DEF old, b2, n
    <3> QED
      BY <3>1, <3>2, <3>3
  <2> QED
    BY <2>1, <2>2, <2>3
<1>20. n + 1 <= Len(found)
  BY <1>1
<1>21. rides' = rides /\ found' = found /\ next' = << >> /\ Len(best') = n + 1 /\ best' = b2
  BY <1>5, <1>14, <1>15
<1>22. best' \in Seq({buildItinerary(rides', found'[m]) : m \in 1 .. Len(found')})
  BY <1>14, <1>15
<1> HIDE DEF X
<1> QED
  BY <1>16, <1>17, <1>18, <1>19, <1>20, <1>21, <1>22 DEF SortedKept

\* All that holds while a request is served.
SearchKept == Given /\ Walking /\ FoundKept /\ SortedKept /\ AnswerKept

\* No step of a request breaks it.
LEMMA SearchStep ==
  ASSUME SearchKept, [Next]_vars
  PROVE  SearchKept'
<1>1. /\ Given /\ Walking /\ FoundKept /\ SortedKept /\ AnswerKept
      /\ (Arrive \/ Descend \/ Return) \/ Sort \/ Answer \/ UNCHANGED vars
  BY DEF SearchKept, Next
<1>2. UNCHANGED request
  BY <1>1 DEF Arrive, Descend, Return, Sort, Answer, vars
<1>3. Given'
  BY <1>1, <1>2 DEF Given, request
<1>4. CASE Arrive \/ Descend \/ Return
  <2>1. Walking'
    BY <1>1, <1>4, ArriveWalking, DescendWalking, ReturnWalking
  <2>2. FoundKept'
    BY <1>1, <1>4, FoundStep
  <2>3. next # << >> /\ best' = best /\ answer' = answer
    BY <1>4 DEF Arrive, Descend, Return
  <2>4. best = << >>
    BY <1>1, <2>3 DEF SortedKept
  <2>5. best' = << >> /\ Len(best') = 0 /\ Len(found') \in Nat
    <3>1. Len(found') \in Nat
      BY <2>2, LenProperties DEF FoundKept
    <3> QED
      BY <2>3, <2>4, <3>1, EmptySeq
  <2>6. SortedKept'
    <3>1. best' \in Seq({buildItinerary(rides', found'[m]) : m \in 1 .. Len(found')})
      BY <2>5, EmptySeq
    <3>2. \A k \in 1 .. Len(best') : FALSE
      BY <2>5
    <3> QED
      BY <2>5, <3>1, <3>2 DEF SortedKept
  <2>7. AnswerKept'
    BY <1>1, <2>3 DEF AnswerKept, Answered
  <2> QED
    BY <1>3, <2>1, <2>2, <2>6, <2>7 DEF SearchKept
<1>5. CASE Sort
  <2>1. UNCHANGED <<rides, query, order, path, next, found, answer>> /\ Len(best) < Len(found)
    BY <1>5 DEF Sort, request
  <2>2. Walking'
    BY <1>1, <2>1 DEF Walking
  <2>3. FoundKept'
    BY <1>1, <2>1 DEF FoundKept
  <2>6. SortedKept'
    BY <1>1, <1>5, SortStep
  <2>4. ~ Answered
    <3>1. Len(found) \in Nat /\ Len(best) \in Nat
      BY <1>1, LenProperties DEF FoundKept, SortedKept
    <3> QED
      BY <1>1, <2>1, <3>1 DEF AnswerKept
  <2>5. AnswerKept'
    BY <2>1, <2>4 DEF AnswerKept, Answered
  <2> QED
    BY <1>3, <2>2, <2>3, <2>5, <2>6 DEF SearchKept
<1>6. CASE Answer
  <2>1. UNCHANGED <<rides, query, order, path, next, found, best>>
    BY <1>6 DEF Answer, request
  <2>2. Walking'
    BY <1>1, <2>1 DEF Walking
  <2>3. FoundKept'
    BY <1>1, <2>1 DEF FoundKept
  <2>4. SortedKept'
    BY <1>1, <2>1 DEF SortedKept
  <2>5. AnswerKept'
    BY <1>6, <2>1 DEF AnswerKept, Answer
  <2> QED
    BY <1>3, <2>2, <2>3, <2>4, <2>5 DEF SearchKept
<1>7. CASE UNCHANGED vars
  <2>1. UNCHANGED <<rides, query, order, path, next, found, best, answer>>
    BY <1>7 DEF vars, request
  <2>2. Walking'
    BY <1>1, <2>1 DEF Walking
  <2>3. FoundKept'
    BY <1>1, <2>1 DEF FoundKept
  <2>4. SortedKept'
    BY <1>1, <2>1 DEF SortedKept
  <2>5. AnswerKept'
    BY <1>1, <2>1 DEF AnswerKept, Answered
  <2> QED
    BY <1>3, <2>2, <2>3, <2>4, <2>5 DEF SearchKept
<1> QED
  BY <1>1, <1>4, <1>5, <1>6, <1>7

\* The walk along any copy of the rides keeps its path walkable, finds paths
\* that arrive and no two that are one, leaves none out but for the limit, and
\* the sort keeps what it has found in order.
THEOREM SearchInvariant == Spec => []SearchKept
<1>1. Init => SearchKept
  <2> SUFFICES ASSUME Init PROVE SearchKept
    OBVIOUS
  <2>1. Given /\ Walking /\ FoundKept
    BY FoundInit
  <2>2. best = << >> /\ answer = << >> /\ found = << >>
    BY DEF Init
  <2>3. SortedKept
    <3>1. Len(best) = 0 /\ Len(found) = 0
      BY <2>2, EmptySeq
    <3>2. best \in Seq({buildItinerary(rides, found[m]) : m \in 1 .. Len(found)})
      BY <2>2, EmptySeq
    <3>3. \A k \in 1 .. Len(best) : FALSE
      BY <3>1
    <3> QED
      BY <2>2, <3>1, <3>2, <3>3 DEF SortedKept
  <2>4. AnswerKept
    BY <2>2 DEF AnswerKept, Answered
  <2> QED
    BY <2>1, <2>3, <2>4 DEF SearchKept
<1>2. SearchKept /\ [Next]_vars => SearchKept'
  BY SearchStep
<1> QED
  BY <1>1, <1>2, PTL DEF Spec

\* What is shown is a piece of the sorted list.
LEMMA ShownIsBest ==
  ASSUME SearchKept, Answered
  PROVE  /\ Len(best) \in Nat /\ Len(best) = Len(found) /\ next = << >>
         /\ Len(Shown) = IF Len(best) > query.results THEN query.results ELSE Len(best)
         /\ Len(Shown) \in Nat /\ Len(Shown) <= Len(best)
         /\ DOMAIN Shown = 1 .. Len(Shown)
         /\ \A n \in 1 .. Len(Shown) : n \in 1 .. Len(best) /\ Shown[n] = best[n]
<1> DEFINE n == IF Len(best) > query.results THEN query.results ELSE Len(best)
<1>1. Len(best) \in Nat /\ query.results \in Nat /\ Len(best) = Len(found) /\ next = << >>
  BY LenProperties, OrderFacts DEF SearchKept, SortedKept, AnswerKept
<1>2. n \in Nat /\ n <= Len(best)
  BY <1>1
<1>3. Shown = [k \in 1 .. n |-> best[k]]
  BY DEF Shown, SearchKept, AnswerKept
<1> HIDE DEF n
<1>4. Len(Shown) = n /\ DOMAIN Shown = 1 .. n
  BY <1>2, <1>3
<1>5. \A k \in 1 .. n : k \in 1 .. Len(best) /\ Shown[k] = best[k]
  BY <1>1, <1>2, <1>3
<1> QED
  BY <1>1, <1>2, <1>4, <1>5 DEF n

\* And the sorted list is in the documented order.
LEMMA BestInOrder ==
  ASSUME SearchKept, NEW k \in 1 .. Len(best), NEW l \in 1 .. Len(best), k < l
  PROVE  NotAfter(best[k], best[l])
<1>1. best[k].total \in Nat /\ best[k].transfers \in Nat
  <2>1. PICK m \in 1 .. Len(best) : best[k] = buildItinerary(rides, found[m])
    BY DEF SearchKept, SortedKept
  <2>2. m \in 1 .. Len(found)
    BY FoundItineraries, LenProperties DEF SearchKept, SortedKept
  <2> QED
    BY <2>1, <2>2, FoundItineraries DEF SearchKept
<1>2. best[l].total \in Nat /\ best[l].transfers \in Nat
  <2>1. PICK m \in 1 .. Len(best) : best[l] = buildItinerary(rides, found[m])
    BY DEF SearchKept, SortedKept
  <2>2. m \in 1 .. Len(found)
    BY FoundItineraries, LenProperties DEF SearchKept, SortedKept
  <2> QED
    BY <2>1, <2>2, FoundItineraries DEF SearchKept
<1>3. Better(rides, best[k], best[l])
  BY DEF SearchKept, SortedKept
<1> QED
  BY <1>1, <1>2, <1>3 DEF Better, NotAfter

\* Every itinerary of an answer is a journey the passenger could have booked on
\* the copy, at its price, and none is there twice.
THEOREM AnswersReal == Spec => []RealJourneys
<1>1. SearchKept => RealJourneys
  <2> SUFFICES ASSUME SearchKept, Answered
               PROVE  /\ \A n \in DOMAIN Shown :
                           \E jn \in Journeys(rides, query) : Shows(rides, Shown[n], jn)
                      /\ \A m, n \in DOMAIN Shown : m # n => Shown[m] # Shown[n]
    BY DEF RealJourneys
  <2>1. /\ DOMAIN Shown = 1 .. Len(Shown) /\ Len(best) = Len(found)
        /\ \A n \in 1 .. Len(Shown) : n \in 1 .. Len(best) /\ Shown[n] = best[n]
    BY ShownIsBest
  <2>2. ASSUME NEW n \in DOMAIN Shown
        PROVE  \E jn \in Journeys(rides, query) : Shows(rides, Shown[n], jn)
    <3>3. n \in 1 .. Len(best) /\ Shown[n] = best[n]
      BY <2>1
    <3>4. PICK m \in 1 .. Len(best) : best[n] = buildItinerary(rides, found[m])
      BY <3>3 DEF SearchKept, SortedKept
    <3>1. m \in 1 .. Len(found) /\ Shown[n] = buildItinerary(rides, found[m])
      BY <2>1, <3>3, <3>4
    <3>2. Given /\ Arrives(rides, query, found[m])
      BY <3>1 DEF SearchKept, FoundKept
    <3> QED
      BY <3>1, <3>2, PathShowsJourney, OrderFacts
  <2>3. \A m, n \in DOMAIN Shown : m # n => Shown[m] # Shown[n]
    BY <2>1 DEF SearchKept, SortedKept
  <2> QED
    BY <2>2, <2>3
<1> QED
  BY <1>1, SearchInvariant, PTL

\* Answers come in the documented order.
THEOREM AnswersSorted == Spec => []CheapestFirst
<1>1. SearchKept => CheapestFirst
  <2> SUFFICES ASSUME SearchKept, Answered, NEW m \in DOMAIN Shown, NEW n \in DOMAIN Shown, m < n
               PROVE  NotAfter(Shown[m], Shown[n])
    BY DEF CheapestFirst, NotAfter
  <2>1. /\ DOMAIN Shown = 1 .. Len(Shown)
        /\ \A k \in 1 .. Len(Shown) : k \in 1 .. Len(best) /\ Shown[k] = best[k]
    BY ShownIsBest
  <2> QED
    BY <2>1, BestInOrder
<1> QED
  BY <1>1, SearchInvariant, PTL

-----------------------------------------------------------------------------
(***************************************************************************)
(* The path of a journey.                                                  *)
(***************************************************************************)
\* The first and the last number of an interval.
LEMMA IntervalEnds ==
  ASSUME NEW a \in Nat, NEW b \in Nat, a <= b
  PROVE  First(a .. b) = a /\ Final(a .. b) = b
<1> DEFINE T == a .. b
<1>1. T \in SUBSET Nat /\ a \in T /\ b \in T /\ \A t \in T : a <= t /\ t <= b
  OBVIOUS
<1> HIDE DEF T
<1>2. First(T) \in T /\ \A t \in T : First(T) <= t
  BY <1>1, FirstIn
<1>3. Final(T) \in T /\ \A t \in T : t <= Final(T)
  BY <1>1, FinalIn
<1>4. First(T) \in Nat /\ Final(T) \in Nat
  BY <1>1, <1>2, <1>3
<1>5. First(T) = a
  BY <1>1, <1>2, <1>4
<1>6. Final(T) = b
  BY <1>1, <1>3, <1>4
<1> QED
  BY <1>5, <1>6 DEF T

\* Where on a path the hops of a journey end.
Marks(jn, e) ==
  /\ e \in [0 .. Len(jn) -> Nat]
  /\ e[0] = 0
  /\ \A l \in 1 .. Len(jn) : e[l] = e[l - 1] + (jn[l].j - jn[l].i)

LEMMA MarksExist ==
  ASSUME Given, NEW jn \in Journeys(rides, query)
  PROVE  \E e : Marks(jn, e)
<1> DEFINE N == Len(jn)
           Upto(e, n) == /\ e \in [0 .. n -> Nat]
                         /\ e[0] = 0
                         /\ \A l \in 1 .. n : e[l] = e[l - 1] + (jn[l].j - jn[l].i)
           T == {n \in 0 .. N : ~ \E e : Upto(e, n)}
<1>1. N \in Nat /\ \A l \in 1 .. N : jn[l].i \in Nat /\ jn[l].j \in Nat /\ jn[l].i < jn[l].j
  BY JourneyFacts, HopFacts, OrderFacts
<1>2. SUFFICES ASSUME T # {} PROVE FALSE
  <2>1. N \in 0 .. N
    BY <1>1
  <2> QED
    BY <1>2, <2>1 DEF Marks
<1>3. PICK n \in T : \A m \in T : ~ (m < n)
  <2>1. T \in SUBSET Nat
    BY <1>1
  <2> HIDE DEF T
  <2> QED
    BY <1>2, <2>1, LeastNatural
<1>4. n # 0
  <2>1. Upto([l \in 0 .. 0 |-> 0], 0)
    OBVIOUS
  <2> QED
    BY <1>3, <2>1
<1>5. n - 1 \in 0 .. N /\ n - 1 \notin T /\ n \in 1 .. N
  <2>1. n \in 0 .. N
    BY <1>3
  <2> HIDE DEF T
  <2>2. n - 1 \in 0 .. N /\ n \in 1 .. N /\ n - 1 < n
    BY <1>1, <1>4, <2>1
  <2> QED
    BY <1>3, <2>2
<1>6. PICK e : Upto(e, n - 1)
  BY <1>5
<1> DEFINE w == jn[n].j - jn[n].i
           f == [l \in 0 .. n |-> IF l = n THEN e[n - 1] + w ELSE e[l]]
<1>7. w \in Nat
  BY <1>1, <1>5
<1> HIDE DEF w
<1>8. n \in Nat /\ \A l \in 0 .. (n - 1) : e[l] \in Nat
  BY <1>1, <1>5, <1>6
<1>9. f \in [0 .. n -> Nat] /\ f[0] = 0
  BY <1>4, <1>6, <1>7, <1>8
<1>10. ASSUME NEW l \in 1 .. n PROVE f[l] = f[l - 1] + (jn[l].j - jn[l].i)
  <2>1. CASE l = n
    BY <1>8, <2>1 DEF w
  <2>2. CASE l # n
    <3>1. l \in 1 .. (n - 1) /\ l - 1 \in 0 .. n /\ l - 1 # n
      BY <1>8, <2>2
    <3>2. e[l] = e[l - 1] + (jn[l].j - jn[l].i)
      BY <1>6, <3>1
    <3> QED
      BY <1>8, <2>2, <3>1, <3>2
  <2> QED
    BY <2>1, <2>2
<1>11. Upto(f, n)
  BY <1>9, <1>10
<1> HIDE DEF f
<1> QED
  BY <1>3, <1>11

\* They grow from hop to hop.
LEMMA MarksGrow ==
  ASSUME Given, NEW jn \in Journeys(rides, query), NEW e, Marks(jn, e),
         NEW l \in 0 .. Len(jn), NEW m \in 0 .. Len(jn), l < m
  PROVE  e[l] < e[m]
<1> DEFINE T == {n \in (l + 1) .. m : ~ (e[l] < e[n])}
<1>1. Len(jn) \in Nat /\ \A n \in 1 .. Len(jn) : jn[n].i \in Nat /\ jn[n].j \in Nat /\ jn[n].i < jn[n].j
  BY JourneyFacts, HopFacts, OrderFacts
<1>2. SUFFICES ASSUME T # {} PROVE FALSE
  <2>1. m \in (l + 1) .. m
    BY <1>1
  <2> QED
    BY <1>2, <2>1
<1>3. PICK n \in T : \A k \in T : ~ (k < n)
  <2>1. T \in SUBSET Nat
    BY <1>1
  <2> HIDE DEF T
  <2> QED
    BY <1>2, <2>1, LeastNatural
<1>4. n \in 1 .. Len(jn) /\ n - 1 \in 0 .. Len(jn) /\ n \in (l + 1) .. m /\ ~ (e[l] < e[n])
  BY <1>1, <1>3
<1>5. e[n] = e[n - 1] + (jn[n].j - jn[n].i) /\ e[n - 1] \in Nat /\ e[n] \in Nat /\ e[l] \in Nat
  <2>1. n \in 0 .. Len(jn)
    BY <1>1, <1>4
  <2> QED
    BY <1>4, <2>1 DEF Marks
<1>6. jn[n].j \in Nat /\ jn[n].i \in Nat /\ jn[n].i < jn[n].j
  BY <1>1, <1>4
<1>7. e[n - 1] < e[n]
  <2> DEFINE a == e[n - 1]
             b == e[n]
             i == jn[n].i
             j == jn[n].j
  <2>1. a \in Nat /\ b \in Nat /\ i \in Nat /\ j \in Nat /\ i < j /\ b = a + (j - i)
    BY <1>5, <1>6
  <2> HIDE DEF a, b, i, j
  <2>2. a < b
    BY <2>1
  <2> QED
    BY <2>2 DEF a, b
<1>8. CASE n = l + 1
  <2>1. n - 1 = l
    BY <1>4, <1>8
  <2> QED
    BY <1>4, <1>7, <2>1
<1>9. CASE n # l + 1
  <2>1. n - 1 \in (l + 1) .. m /\ n - 1 < n
    BY <1>4, <1>9
  <2>2. e[l] < e[n - 1]
    BY <1>3, <2>1
  <2> QED
    BY <1>4, <1>5, <1>7, <2>2
<1> QED
  BY <1>8, <1>9

\* The hop on which step k of the path is.
HopAt(jn, e, k) == First({l \in 1 .. Len(jn) : k <= e[l]})

LEMMA HopAtFacts ==
  ASSUME Given, NEW jn \in Journeys(rides, query), NEW e, Marks(jn, e), NEW k \in 1 .. e[Len(jn)]
  PROVE  /\ HopAt(jn, e, k) \in 1 .. Len(jn)
         /\ e[HopAt(jn, e, k) - 1] < k /\ k <= e[HopAt(jn, e, k)]
         /\ \A m \in 1 .. Len(jn) : e[m - 1] < k /\ k <= e[m] => m = HopAt(jn, e, k)
<1> DEFINE T == {l \in 1 .. Len(jn) : k <= e[l]}
           l == HopAt(jn, e, k)
<1>1. Len(jn) \in Nat /\ Len(jn) >= 1 /\ e \in [0 .. Len(jn) -> Nat] /\ e[0] = 0
  BY JourneyFacts, OrderFacts DEF Marks
<1>2. e[Len(jn)] \in Nat /\ k \in Nat /\ k >= 1 /\ k <= e[Len(jn)]
  BY <1>1
<1>3. T \in SUBSET Nat /\ Len(jn) \in T
  BY <1>1, <1>2
<1> HIDE DEF T
<1>4. l \in T /\ \A t \in T : l <= t
  BY <1>3, FirstIn DEF HopAt, T
<1> HIDE DEF l
<1>5. l \in 1 .. Len(jn) /\ k <= e[l]
  BY <1>4 DEF T
<1>6. l - 1 \in 0 .. Len(jn) /\ e[l - 1] \in Nat
  BY <1>1, <1>5
<1>7. e[l - 1] < k
  <2>1. CASE l = 1
    BY <1>1, <1>2, <2>1
  <2>2. CASE l # 1
    <3>1. l - 1 \in 1 .. Len(jn) /\ ~ (l <= l - 1)
      BY <1>1, <1>5, <2>2
    <3>2. ~ (k <= e[l - 1])
      BY <1>4, <3>1 DEF T
    <3> QED
      BY <1>2, <1>6, <3>2
  <2> QED
    BY <2>1, <2>2
<1>8. ASSUME NEW m \in 1 .. Len(jn), e[m - 1] < k, k <= e[m] PROVE m = l
  <2>1. l <= m
    BY <1>4, <1>8 DEF T
  <2>2. CASE l < m
    <3>1. l \in 0 .. Len(jn) /\ m - 1 \in 0 .. Len(jn) /\ (l < m - 1 \/ l = m - 1)
      BY <1>1, <1>5, <2>2
    <3>2. e[l] < e[m - 1] \/ e[l] = e[m - 1]
      BY <3>1, MarksGrow
    <3>3. e[l] \in Nat /\ e[m - 1] \in Nat
      BY <1>1, <3>1
    <3> QED
      BY <1>2, <1>5, <1>8, <3>2, <3>3
  <2> QED
    BY <1>1, <1>5, <2>1, <2>2
<1> QED
  BY <1>5, <1>7, <1>8 DEF l

\* The path itself: hop by hop, segment by segment.
PathOf(jn, e) ==
  [k \in 1 .. e[Len(jn)] |->
     [ride |-> jn[HopAt(jn, e, k)].ride,
      seg |-> jn[HopAt(jn, e, k)].i + (k - e[HopAt(jn, e, k) - 1]) - 1]]

\* Where in its hop a step is.
LEMMA InHop ==
  ASSUME NEW a \in Nat, NEW b \in Nat, NEW i \in Nat, NEW j \in Nat, NEW k \in Nat,
         a < k, k <= b, b = a + (j - i)
  PROVE  /\ i + (k - a) - 1 \in Nat
         /\ i + (k - a) - 1 \in i .. (j - 1)
         /\ (i + (k - a) - 1) + 1 = i + (k - a)
  OBVIOUS

\* It is a sequence of steps over the cities of the hops.
LEMMA PathOfSteps ==
  ASSUME Given, NEW jn \in Journeys(rides, query), NEW e, Marks(jn, e)
  PROVE  LET P == PathOf(jn, e)
         IN  /\ P \in Seq(Steps(rides)) /\ Len(P) = e[Len(jn)]
             /\ Len(P) \in Nat /\ Len(P) >= 1 /\ DOMAIN P = 1 .. Len(P)
             /\ \A k \in 1 .. Len(P), l \in 1 .. Len(jn) : HopAt(jn, e, k) = l =>
                  /\ e[l - 1] \in Nat /\ e[l] \in Nat /\ e[l - 1] < k /\ k <= e[l]
                  /\ e[l] = e[l - 1] + (jn[l].j - jn[l].i)
                  /\ P[k].ride = jn[l].ride
                  /\ P[k].seg = jn[l].i + (k - e[l - 1]) - 1
                  /\ P[k].seg \in jn[l].i .. (jn[l].j - 1)
                  /\ EndOf(rides, P[k]) = City(rides, jn[l], jn[l].i + (k - e[l - 1]))
<1> DEFINE P == PathOf(jn, e)
           n == e[Len(jn)]
<1>1. /\ Len(jn) \in Nat /\ Len(jn) >= 1 /\ e \in [0 .. Len(jn) -> Nat] /\ e[0] = 0
      /\ \A l \in 1 .. Len(jn) : e[l] = e[l - 1] + (jn[l].j - jn[l].i)
  BY JourneyFacts, OrderFacts DEF Marks
<1>2. n \in Nat /\ n >= 1
  <2>1. 0 \in 0 .. Len(jn) /\ Len(jn) \in 0 .. Len(jn) /\ 0 < Len(jn)
    BY <1>1
  <2>2. e[0] < e[Len(jn)]
    BY <2>1, MarksGrow
  <2> QED
    BY <1>1, <2>1, <2>2
<1>3. ASSUME NEW k \in 1 .. n, NEW l \in 1 .. Len(jn), HopAt(jn, e, k) = l
      PROVE  /\ e[l - 1] \in Nat /\ e[l] \in Nat /\ e[l - 1] < k /\ k <= e[l]
             /\ e[l] = e[l - 1] + (jn[l].j - jn[l].i)
             /\ jn[l].ride \in DOMAIN rides
             /\ P[k] = [ride |-> jn[l].ride, seg |-> jn[l].i + (k - e[l - 1]) - 1]
             /\ jn[l].i + (k - e[l - 1]) - 1 \in Nat
             /\ jn[l].i + (k - e[l - 1]) - 1 \in jn[l].i .. (jn[l].j - 1)
             /\ (jn[l].i + (k - e[l - 1]) - 1) + 1 = jn[l].i + (k - e[l - 1])
  <2>1. e[l - 1] < k /\ k <= e[l]
    BY <1>3, HopAtFacts
  <2>2. e[l - 1] \in Nat /\ e[l] \in Nat /\ e[l] = e[l - 1] + (jn[l].j - jn[l].i)
    <3>1. l - 1 \in 0 .. Len(jn) /\ l \in 0 .. Len(jn)
      BY <1>1
    <3> QED
      BY <1>1, <3>1
  <2>3. jn[l].i \in Nat /\ jn[l].j \in Nat /\ jn[l].ride \in DOMAIN rides
    BY JourneyFacts, HopFacts, OrderFacts
  <2>4. P[k] = [ride |-> jn[l].ride, seg |-> jn[l].i + (k - e[l - 1]) - 1]
    BY <1>3 DEF PathOf
  <2>5. k \in Nat
    BY <1>2
  <2> HIDE DEF P
  <2>6. /\ jn[l].i + (k - e[l - 1]) - 1 \in Nat
        /\ jn[l].i + (k - e[l - 1]) - 1 \in jn[l].i .. (jn[l].j - 1)
        /\ (jn[l].i + (k - e[l - 1]) - 1) + 1 = jn[l].i + (k - e[l - 1])
    <3> DEFINE a == e[l - 1]
               b == e[l]
               i == jn[l].i
               j == jn[l].j
    <3>1. a \in Nat /\ b \in Nat /\ i \in Nat /\ j \in Nat /\ a < k /\ k <= b /\ b = a + (j - i)
      BY <2>1, <2>2, <2>3
    <3> HIDE DEF a, b, i, j
    <3>2. /\ i + (k - a) - 1 \in Nat
          /\ i + (k - a) - 1 \in i .. (j - 1)
          /\ (i + (k - a) - 1) + 1 = i + (k - a)
      BY <2>5, <3>1, InHop
    <3> QED
      BY <3>2 DEF a, b, i, j
  <2> QED
    BY <2>1, <2>2, <2>3, <2>4, <2>6
<1> HIDE DEF P, n
<1>4. ASSUME NEW k \in 1 .. n PROVE P[k] \in Steps(rides)
  <2>1. HopAt(jn, e, k) \in 1 .. Len(jn)
    BY HopAtFacts DEF n
  <2>2. PICK l \in 1 .. Len(jn) : HopAt(jn, e, k) = l
    BY <2>1
  <2> DEFINE s == jn[l].i + (k - e[l - 1]) - 1
  <2>3. P[k] = [ride |-> jn[l].ride, seg |-> s] /\ jn[l].ride \in DOMAIN rides /\ s \in Nat
    BY <1>3, <2>2
  <2> HIDE DEF s
  <2> QED
    BY <2>3 DEF Steps
<1>5. P = [k \in 1 .. n |-> P[k]]
  BY DEF PathOf, P, n
<1>6. P \in Seq(Steps(rides)) /\ Len(P) = n /\ DOMAIN P = 1 .. n
  BY <1>2, <1>4, <1>5
<1>7. ASSUME NEW k \in 1 .. n, NEW l \in 1 .. Len(jn), HopAt(jn, e, k) = l
      PROVE  /\ P[k].ride = jn[l].ride
             /\ P[k].seg = jn[l].i + (k - e[l - 1]) - 1
             /\ P[k].seg \in jn[l].i .. (jn[l].j - 1)
             /\ EndOf(rides, P[k]) = City(rides, jn[l], jn[l].i + (k - e[l - 1]))
  <2> DEFINE s == jn[l].i + (k - e[l - 1]) - 1
             t == jn[l].i + (k - e[l - 1])
             r == jn[l].ride
  <2>1. P[k] = [ride |-> r, seg |-> s] /\ s + 1 = t /\ s \in jn[l].i .. (jn[l].j - 1)
    BY <1>3, <1>7
  <2> HIDE DEF s, t
  <2>2. P[k].ride = r /\ P[k].seg = s /\ P[k].seg + 1 = t
    BY <2>1
  <2>3. EndOf(rides, P[k]) = City(rides, jn[l], t)
    BY <2>2 DEF EndOf, City
  <2> QED
    BY <2>1, <2>2, <2>3 DEF s, t
<1>8. \A k \in 1 .. n, l \in 1 .. Len(jn) : HopAt(jn, e, k) = l =>
        /\ e[l - 1] \in Nat /\ e[l] \in Nat /\ e[l - 1] < k /\ k <= e[l]
        /\ e[l] = e[l - 1] + (jn[l].j - jn[l].i)
        /\ P[k].ride = jn[l].ride
        /\ P[k].seg = jn[l].i + (k - e[l - 1]) - 1
        /\ P[k].seg \in jn[l].i .. (jn[l].j - 1)
        /\ EndOf(rides, P[k]) = City(rides, jn[l], jn[l].i + (k - e[l - 1]))
  <2> SUFFICES ASSUME NEW k \in 1 .. n, NEW l \in 1 .. Len(jn), HopAt(jn, e, k) = l
               PROVE  /\ e[l - 1] \in Nat /\ e[l] \in Nat /\ e[l - 1] < k /\ k <= e[l]
                      /\ e[l] = e[l - 1] + (jn[l].j - jn[l].i)
                      /\ P[k].ride = jn[l].ride
                      /\ P[k].seg = jn[l].i + (k - e[l - 1]) - 1
                      /\ P[k].seg \in jn[l].i .. (jn[l].j - 1)
                      /\ EndOf(rides, P[k]) = City(rides, jn[l], jn[l].i + (k - e[l - 1]))
    OBVIOUS
  <2>1. /\ e[l - 1] \in Nat /\ e[l] \in Nat /\ e[l - 1] < k /\ k <= e[l]
        /\ e[l] = e[l - 1] + (jn[l].j - jn[l].i)
    BY <1>3
  <2>2. /\ P[k].ride = jn[l].ride
        /\ P[k].seg = jn[l].i + (k - e[l - 1]) - 1
        /\ P[k].seg \in jn[l].i .. (jn[l].j - 1)
        /\ EndOf(rides, P[k]) = City(rides, jn[l], jn[l].i + (k - e[l - 1]))
    BY <1>7
  <2> QED
    BY <2>1, <2>2
<1>9. Len(P) \in Nat /\ Len(P) >= 1 /\ DOMAIN P = 1 .. Len(P)
  BY <1>2, <1>6
<1>10. P = PathOf(jn, e) /\ n = e[Len(jn)]
  BY DEF P, n
<1> QED
  BY <1>6, <1>8, <1>9, <1>10

\* It has changed the car once for every hop before.
LEMMA PathOfChanges ==
  ASSUME Given, NEW jn \in Journeys(rides, query), NEW e, Marks(jn, e), NEW k \in 1 .. e[Len(jn)]
  PROVE  Changes(PathOf(jn, e), k) = HopAt(jn, e, k) - 1
<1> DEFINE P == PathOf(jn, e)
           n == e[Len(jn)]
           at(x) == HopAt(jn, e, x)
           T == {x \in 1 .. n : Changes(P, x) # at(x) - 1}
<1>1. /\ Len(jn) \in Nat /\ Len(jn) >= 1 /\ e \in [0 .. Len(jn) -> Nat] /\ e[0] = 0
      /\ \A l \in 2 .. Len(jn) : jn[l].ride # jn[l - 1].ride
  BY JourneyFacts, OrderFacts DEF Marks
<1>2. n \in Nat
  BY <1>1
<1>3. \A x \in 1 .. n : /\ at(x) \in 1 .. Len(jn) /\ e[at(x) - 1] < x /\ x <= e[at(x)]
                        /\ \A m \in 1 .. Len(jn) : e[m - 1] < x /\ x <= e[m] => m = at(x)
  BY HopAtFacts
<1>4. \A x \in 1 .. n : P[x].ride = jn[at(x)].ride
  <2> TAKE x \in 1 .. n
  <2>1. x \in 1 .. Len(P)
    BY PathOfSteps
  <2>2. HopAt(jn, e, x) \in 1 .. Len(jn)
    BY HopAtFacts
  <2> QED
    BY <2>1, <2>2, PathOfSteps
<1> HIDE DEF P, n, at
<1>5. SUFFICES ASSUME T # {} PROVE FALSE
  BY <1>5 DEF n, P, at
<1>6. PICK x \in T : \A y \in T : ~ (y < x)
  <2>1. T \in SUBSET Nat
    BY <1>2
  <2> HIDE DEF T
  <2> QED
    BY <1>5, <2>1, LeastNatural
<1>7. x \in 1 .. n /\ Changes(P, x) # at(x) - 1 /\ x \in Nat /\ x >= 1
  BY <1>2, <1>6
<1>8. CASE x = 1
  <2>1. 1 \in 1 .. Len(jn) /\ 1 - 1 = 0
    BY <1>1
  <2>2. e[1] \in Nat /\ e[0] < e[1]
    <3>1. 0 \in 0 .. Len(jn) /\ 1 \in 0 .. Len(jn) /\ 0 < 1
      BY <1>1
    <3> QED
      BY <1>1, <3>1, MarksGrow
  <2>3. e[1 - 1] < x /\ x <= e[1]
    BY <1>1, <1>8, <2>1, <2>2
  <2>4. at(x) = 1
    BY <1>3, <1>7, <2>1, <2>3
  <2> QED
    BY <1>7, <1>8, <2>4, NoChangeYet
<1>9. CASE x # 1
  <2> DEFINE y == x - 1
  <2>1. y \in 1 .. n /\ y \in Nat /\ y >= 1 /\ y + 1 = x /\ y < x
    BY <1>2, <1>7, <1>9
  <2> HIDE DEF y
  <2>2. Changes(P, y) = at(y) - 1
    BY <1>6, <2>1
  <2>3. Changes(P, x) = Changes(P, y) + (IF P[x].ride # P[y].ride THEN 1 ELSE 0)
    BY <2>1, ChangesStep
  <2>4. /\ at(y) \in 1 .. Len(jn) /\ e[at(y) - 1] < y /\ y <= e[at(y)]
        /\ e[at(y) - 1] \in Nat /\ e[at(y)] \in Nat
    <3>1. at(y) \in 1 .. Len(jn) /\ e[at(y) - 1] < y /\ y <= e[at(y)]
      BY <1>3, <2>1
    <3>2. at(y) - 1 \in 0 .. Len(jn) /\ at(y) \in 0 .. Len(jn)
      BY <1>1, <3>1
    <3> QED
      BY <1>1, <3>1, <3>2
  <2>5. CASE x <= e[at(y)]
    <3>1. e[at(y) - 1] < x
      BY <2>1, <2>4
    <3>2. at(y) = at(x)
      BY <1>3, <1>7, <2>4, <2>5, <3>1
    <3>3. P[x].ride = P[y].ride
      BY <1>4, <1>7, <2>1, <3>2
    <3> QED
      BY <1>7, <2>2, <2>3, <2>4, <3>2, <3>3
  <2>6. CASE ~ (x <= e[at(y)])
    <3>1. e[at(y)] = y
      BY <2>1, <2>4, <2>6
    <3>2. at(y) # Len(jn)
      BY <1>2, <1>7, <2>1, <3>1 DEF n
    <3>3. at(y) + 1 \in 1 .. Len(jn) /\ (at(y) + 1) - 1 = at(y) /\ at(y) + 1 \in 2 .. Len(jn)
      BY <1>1, <2>4, <3>2
    <3>4. x <= e[at(y) + 1] /\ e[(at(y) + 1) - 1] < x
      <4>1. at(y) \in 0 .. Len(jn) /\ at(y) + 1 \in 0 .. Len(jn) /\ at(y) < at(y) + 1
        BY <1>1, <2>4, <3>3
      <4>2. e[at(y)] < e[at(y) + 1] /\ e[at(y) + 1] \in Nat
        BY <1>1, <4>1, MarksGrow
      <4> QED
        BY <2>1, <3>1, <3>3, <4>2
    <3>5. at(y) + 1 = at(x)
      BY <1>3, <1>7, <3>3, <3>4
    <3>6. P[x].ride # P[y].ride
      <4>1. jn[at(y) + 1].ride # jn[at(y)].ride
        BY <1>1, <3>3
      <4> QED
        BY <1>4, <1>7, <2>1, <3>5, <4>1
    <3>7. Changes(P, x) = (at(y) - 1) + 1
      BY <2>2, <2>3, <3>6
    <3> QED
      BY <1>7, <2>4, <3>5, <3>7
  <2> QED
    BY <2>5, <2>6
<1> QED
  BY <1>8, <1>9

\* Which step of the path comes to a stop of a hop.
LEMMA StopInHop ==
  ASSUME NEW a \in Nat, NEW b \in Nat, NEW i \in Nat, NEW j \in Nat, NEW y \in Nat,
         i < y, y <= j, b = a + (j - i)
  PROVE  LET k == a + (y - i)
         IN  k \in Nat /\ a < k /\ k <= b /\ i + (k - a) = y
<1>1. a + (y - i) \in Nat /\ a < a + (y - i) /\ a + (y - i) <= b
  OBVIOUS
<1>2. i + ((a + (y - i)) - a) = y
  OBVIOUS
<1> QED
  BY <1>1, <1>2

\* The stops of a hop are where the path has come to, step by step.
LEMMA PathOfCities ==
  ASSUME Given, NEW jn \in Journeys(rides, query), NEW e, Marks(jn, e),
         NEW l \in 1 .. Len(jn), NEW x, x \in jn[l].i .. jn[l].j
  PROVE  /\ e[l - 1] + (x - jn[l].i) \in 0 .. e[Len(jn)]
         /\ City(rides, jn[l], x) = At(rides, query, PathOf(jn, e), e[l - 1] + (x - jn[l].i))
<1> DEFINE P == PathOf(jn, e)
           n == e[Len(jn)]
<1>1. /\ Len(jn) \in Nat /\ Len(jn) >= 1 /\ e \in [0 .. Len(jn) -> Nat] /\ e[0] = 0
      /\ \A m \in 1 .. Len(jn) : /\ e[m] = e[m - 1] + (jn[m].j - jn[m].i)
                                 /\ jn[m].i \in Nat /\ jn[m].j \in Nat /\ jn[m].i < jn[m].j
  BY JourneyFacts, HopFacts, OrderFacts DEF Marks
<1>2. \A m \in 1 .. Len(jn) : e[m - 1] \in Nat /\ e[m] \in Nat /\ e[m] <= n /\ n \in Nat
  <2> TAKE m \in 1 .. Len(jn)
  <2>1. m - 1 \in 0 .. Len(jn) /\ m \in 0 .. Len(jn) /\ Len(jn) \in 0 .. Len(jn)
    BY <1>1
  <2>2. m = Len(jn) \/ m < Len(jn)
    BY <1>1
  <2>3. e[m] = n \/ e[m] < n
    BY <2>1, <2>2, MarksGrow
  <2>4. e[m - 1] \in Nat /\ e[m] \in Nat /\ n \in Nat
    BY <1>1, <2>1
  <2> QED
    BY <2>3, <2>4
<1>3. ASSUME NEW m \in 1 .. Len(jn), NEW y, y \in jn[m].i .. jn[m].j, y # jn[m].i
      PROVE  /\ e[m - 1] + (y - jn[m].i) \in 1 .. n
             /\ City(rides, jn[m], y) = At(rides, query, P, e[m - 1] + (y - jn[m].i))
  <2> DEFINE a == e[m - 1]
             b == e[m]
             i == jn[m].i
             j == jn[m].j
             k == a + (y - i)
  <2>1. /\ a \in Nat /\ b \in Nat /\ b <= n /\ n \in Nat /\ i \in Nat /\ j \in Nat /\ y \in Nat
        /\ i < y /\ y <= j /\ b = a + (j - i)
    <3>1. a \in Nat /\ b \in Nat /\ b <= n /\ n \in Nat
      BY <1>2
    <3>2. i \in Nat /\ j \in Nat /\ b = a + (j - i)
      BY <1>1
    <3>3. y \in i .. j /\ y # i
      BY <1>3
    <3> HIDE DEF a, b, i, j, n
    <3>4. y \in Nat /\ i < y /\ y <= j
      BY <3>2, <3>3
    <3> QED
      BY <3>1, <3>2, <3>4
  <2> HIDE DEF a, b, i, j, n
  <2>2. k \in Nat /\ a < k /\ k <= b /\ i + (k - a) = y
    BY <2>1, StopInHop
  <2> HIDE DEF k
  <2>3. k \in 1 .. n /\ k # 0
    BY <2>1, <2>2
  <2>4. HopAt(jn, e, k) = m
    <3>1. k \in 1 .. e[Len(jn)] /\ e[m - 1] < k /\ k <= e[m]
      BY <2>2, <2>3 DEF n, a, b
    <3> QED
      BY <3>1, HopAtFacts
  <2>5. k \in 1 .. Len(P)
    BY <2>3, PathOfSteps DEF n
  <2>6. EndOf(rides, P[k]) = City(rides, jn[m], i + (k - a))
    BY <2>4, <2>5, PathOfSteps DEF a, i
  <2> HIDE DEF P
  <2>7. City(rides, jn[m], y) = At(rides, query, P, k)
    BY <2>2, <2>3, <2>6 DEF At
  <2> QED
    BY <2>3, <2>7 DEF k, a, i
<1>4. CASE x # jn[l].i
  <2>1. /\ e[l - 1] + (x - jn[l].i) \in 1 .. n
        /\ City(rides, jn[l], x) = At(rides, query, P, e[l - 1] + (x - jn[l].i))
    BY <1>3, <1>4
  <2> HIDE DEF P, n
  <2>2. e[l - 1] + (x - jn[l].i) \in 0 .. n
    BY <2>1
  <2> QED
    BY <2>1, <2>2 DEF P, n
<1>5. CASE x = jn[l].i
  <2>1. e[l - 1] + (x - jn[l].i) = e[l - 1] /\ e[l - 1] \in 0 .. n
    <3> DEFINE a == e[l - 1]
               b == e[l]
               i == jn[l].i
               j == jn[l].j
    <3>1. /\ a \in Nat /\ b \in Nat /\ b <= n /\ n \in Nat /\ i \in Nat /\ j \in Nat
          /\ i < j /\ b = a + (j - i)
      BY <1>1, <1>2
    <3> HIDE DEF n, a, b, i, j
    <3>2. a + (i - i) = a /\ a \in 0 .. n
      BY <3>1
    <3> QED
      BY <1>5, <3>2 DEF a, i
  <2>2. City(rides, jn[l], x) = At(rides, query, P, e[l - 1])
    <3>1. CASE l = 1
      <4>1. e[l - 1] = 0 /\ City(rides, jn[l], x) = query.from
        BY <1>1, <1>5, <3>1, JourneyFacts, OrderFacts
      <4> QED
        BY <4>1 DEF At
    <3>2. CASE l # 1
      <4> DEFINE m == l - 1
      <4>1. m \in 1 .. Len(jn) /\ l \in 2 .. Len(jn)
        BY <1>1, <3>2
      <4>2. City(rides, jn[l], x) = City(rides, jn[m], jn[m].j)
        BY <1>5, <4>1, JourneyFacts, OrderFacts
      <4> HIDE DEF m
      <4>3. /\ jn[m].j \in jn[m].i .. jn[m].j /\ jn[m].j # jn[m].i
            /\ e[m - 1] + (jn[m].j - jn[m].i) = e[m]
        <5>1. jn[m].i \in Nat /\ jn[m].j \in Nat /\ jn[m].i < jn[m].j
          BY <1>1, <4>1
        <5>2. e[m] = e[m - 1] + (jn[m].j - jn[m].i)
          BY <1>1, <4>1
        <5> QED
          BY <5>1, <5>2
      <4>4. City(rides, jn[m], jn[m].j) = At(rides, query, P, e[m])
        BY <1>3, <4>1, <4>3
      <4> QED
        BY <4>2, <4>4 DEF m
    <3> QED
      BY <3>1, <3>2
  <2> HIDE DEF P, n
  <2> QED
    BY <2>1, <2>2 DEF P, n
<1> QED
  BY <1>4, <1>5

\* A path follows a journey to where it goes, with a transfer between hops.
LEMMA PathOfArrives ==
  ASSUME Given, NEW jn \in Journeys(rides, query), NEW e, Marks(jn, e)
  PROVE  /\ Arrives(rides, query, PathOf(jn, e))
         /\ transfersOf(PathOf(jn, e)) = Len(jn) - 1
<1> DEFINE P == PathOf(jn, e)
           n == e[Len(jn)]
           at(k) == HopAt(jn, e, k)
           N == Len(jn)
<1>1. /\ N \in Nat /\ N >= 1 /\ N <= query.transfers + 1 /\ query.transfers \in Nat
      /\ e \in [0 .. N -> Nat] /\ e[0] = 0
      /\ \A l \in 1 .. N : /\ e[l] = e[l - 1] + (jn[l].j - jn[l].i)
                           /\ jn[l].i \in Nat /\ jn[l].j \in Nat /\ jn[l].i < jn[l].j
  BY JourneyFacts, HopFacts, OrderFacts DEF Marks
<1>2. /\ P \in Seq(Steps(rides)) /\ Len(P) = n /\ n \in Nat /\ n >= 1 /\ DOMAIN P = 1 .. n
  BY PathOfSteps
<1>3. ASSUME NEW k \in 1 .. n
      PROVE  /\ at(k) \in 1 .. N
             /\ e[at(k) - 1] \in Nat /\ e[at(k)] \in Nat /\ e[at(k) - 1] < k /\ k <= e[at(k)]
             /\ P[k].ride = jn[at(k)].ride
             /\ P[k].seg = jn[at(k)].i + (k - e[at(k) - 1]) - 1
             /\ P[k].seg \in jn[at(k)].i .. (jn[at(k)].j - 1)
  <2>1. at(k) \in 1 .. N /\ k \in 1 .. Len(P) /\ k \in 1 .. e[Len(jn)]
    BY <1>2, HopAtFacts
  <2> DEFINE l == at(k)
  <2>2. l \in 1 .. Len(jn) /\ HopAt(jn, e, k) = l
    BY <2>1
  <2> HIDE DEF l, P, n
  <2>3. /\ e[l - 1] \in Nat /\ e[l] \in Nat /\ e[l - 1] < k /\ k <= e[l]
        /\ P[k].ride = jn[l].ride
        /\ P[k].seg = jn[l].i + (k - e[l - 1]) - 1
        /\ P[k].seg \in jn[l].i .. (jn[l].j - 1)
    BY <2>1, <2>2, PathOfSteps DEF P
  <2> QED
    BY <2>1, <2>3 DEF l
<1>4. \A l \in 1 .. N : \A x \in jn[l].i .. jn[l].j :
        City(rides, jn[l], x) = At(rides, query, P, e[l - 1] + (x - jn[l].i))
  BY PathOfCities
<1>5. transfersOf(P) = N - 1
  <2>1. n \in 1 .. n
    BY <1>2
  <2>2. at(n) = N
    <3>1. N - 1 \in 0 .. N /\ N \in 0 .. N /\ N - 1 < N
      BY <1>1
    <3>2. e[N - 1] < e[N]
      BY <3>1, MarksGrow
    <3>3. N \in 1 .. N /\ e[N] = n /\ n <= n
      BY <1>1, <1>2
    <3>4. e[N - 1] < n /\ n <= e[N] /\ N \in 1 .. N
      BY <3>2, <3>3
    <3> QED
      BY <2>1, <3>4, HopAtFacts
  <2> QED
    BY <1>2, <2>1, <2>2, PathOfChanges DEF transfersOf
<1>6. ASSUME NEW k \in 1 .. n
      PROVE  /\ IsEdge(rides, query.date, P[k].ride, P[k].seg)
             /\ rides[P[k].ride].cities[P[k].seg] = At(rides, query, P, k - 1)
  <2>1. PICK l \in 1 .. N : l = at(k)
    BY <1>3
  <2>2. /\ e[l - 1] \in Nat /\ e[l - 1] < k
        /\ P[k].ride = jn[l].ride
        /\ P[k].seg = jn[l].i + (k - e[l - 1]) - 1
        /\ P[k].seg \in jn[l].i .. (jn[l].j - 1)
    BY <1>3, <2>1
  <2>3. jn[l].i \in Nat /\ jn[l].j \in Nat
    BY <1>1
  <2> DEFINE s == P[k].seg
             i == jn[l].i
             j == jn[l].j
             a == e[l - 1]
  <2>4. IsEdge(rides, query.date, jn[l].ride, s)
    BY <2>2, JourneyFacts, HopFacts, OrderFacts
  <2>5. i \in Nat /\ j \in Nat /\ a \in Nat /\ k \in Nat /\ s = i + (k - a) - 1 /\ s \in i .. (j - 1)
    BY <1>2, <2>2, <2>3
  <2>6. City(rides, jn[l], s) = rides[P[k].ride].cities[P[k].seg]
    BY <2>2 DEF City
  <2>7. \A x \in i .. j : City(rides, jn[l], x) = At(rides, query, P, a + (x - i))
    BY <1>4
  <2> HIDE DEF s, i, j, a, P
  <2>8. s \in i .. j /\ a + (s - i) = k - 1
    BY <2>5
  <2>9. City(rides, jn[l], s) = At(rides, query, P, k - 1)
    BY <2>7, <2>8
  <2> QED
    BY <2>2, <2>4, <2>6, <2>9 DEF s
<1>7. ASSUME NEW j \in 0 .. n, NEW k \in 0 .. n, j < k,
             At(rides, query, P, j) = At(rides, query, P, k)
      PROVE  FALSE
  <2>0. j \in Nat /\ k \in Nat /\ k \in 1 .. n
    BY <1>2, <1>7
  <2>1. PICK l \in 1 .. N : l = at(k)
    BY <1>3, <2>0
  <2>2. /\ e[l - 1] \in Nat /\ e[l] \in Nat /\ e[l - 1] < k /\ k <= e[l]
        /\ e[l] = e[l - 1] + (jn[l].j - jn[l].i) /\ jn[l].i \in Nat /\ jn[l].j \in Nat
    BY <1>1, <1>3, <2>0, <2>1
  <2> DEFINE y == jn[l].i + (k - e[l - 1])
  <2>3. y \in jn[l].i .. jn[l].j /\ y # jn[l].i /\ e[l - 1] + (y - jn[l].i) = k
    <3> DEFINE i == jn[l].i
               jj == jn[l].j
               a == e[l - 1]
               b == e[l]
    <3>1. /\ i \in Nat /\ jj \in Nat /\ a \in Nat /\ b \in Nat /\ a < k /\ k <= b
          /\ b = a + (jj - i)
      BY <2>2
    <3> HIDE DEF i, jj, a, b
    <3>2. i + (k - a) \in i .. jj /\ i + (k - a) # i /\ a + ((i + (k - a)) - i) = k
      BY <2>0, <3>1
    <3> QED
      BY <3>2 DEF i, jj, a, b
  <2> HIDE DEF y
  <2>4. City(rides, jn[l], y) = At(rides, query, P, k)
    BY <1>4, <2>3
  <2>5. jn[l] \in Hops(rides, query)
    BY JourneyFacts, OrderFacts
  <2>6. \A u, v \in jn[l].i .. jn[l].j : City(rides, jn[l], u) = City(rides, jn[l], v) => u = v
    <3> TAKE u, v \in jn[l].i .. jn[l].j
    <3>1. /\ jn[l].ride \in DOMAIN rides
          /\ u \in DOMAIN rides[jn[l].ride].cities /\ v \in DOMAIN rides[jn[l].ride].cities
      BY <2>5, HopFacts, OrderFacts
    <3>2. Routes(rides)
      BY OrderFacts
    <3> QED
      BY <3>1, <3>2, SameStop DEF City
  <2>7. CASE j >= e[l - 1]
    <3> DEFINE x == jn[l].i + (j - e[l - 1])
               i == jn[l].i
               jj == jn[l].j
               a == e[l - 1]
               b == e[l]
    <3>1. x \in jn[l].i .. jn[l].j /\ e[l - 1] + (x - jn[l].i) = j
      <4>1. /\ i \in Nat /\ jj \in Nat /\ a \in Nat /\ b \in Nat /\ a <= j /\ j <= b
            /\ b = a + (jj - i)
        BY <1>7, <2>0, <2>2, <2>7
      <4> HIDE DEF i, jj, a, b
      <4>2. i + (j - a) \in i .. jj /\ a + ((i + (j - a)) - i) = j
        BY <2>0, <4>1
      <4> QED
        BY <4>2 DEF i, jj, a, b
    <3> HIDE DEF x
    <3>2. City(rides, jn[l], x) = At(rides, query, P, j)
      BY <1>4, <3>1
    <3>3. x = y
      BY <1>7, <2>3, <2>4, <2>6, <3>1, <3>2
    <3> QED
      BY <1>7, <2>0, <2>3, <3>1, <3>3
  <2>8. CASE j < e[l - 1]
    <3>1. \E m \in 1 .. N : /\ m < l
                            /\ \E x \in jn[m].i .. jn[m].j :
                                  City(rides, jn[m], x) = At(rides, query, P, j)
      <4>1. CASE j = 0
        <5>1. 1 \in 1 .. N /\ jn[1].i \in jn[1].i .. jn[1].j
          BY <1>1
        <5>2. City(rides, jn[1], jn[1].i) = At(rides, query, P, j)
          BY <4>1, JourneyFacts, OrderFacts DEF At
        <5>3. l # 1
          BY <1>1, <2>8, <4>1
        <5>4. 1 < l
          BY <1>1, <5>3
        <5> QED
          BY <5>1, <5>2, <5>4
      <4>2. CASE j # 0
        <5>0. j \in 1 .. n
          BY <1>2, <2>0, <4>2
        <5>1. PICK m \in 1 .. N : m = at(j)
          BY <1>3, <5>0
        <5>2. /\ e[m - 1] \in Nat /\ e[m] \in Nat /\ e[m - 1] < j /\ j <= e[m]
              /\ e[m] = e[m - 1] + (jn[m].j - jn[m].i) /\ jn[m].i \in Nat /\ jn[m].j \in Nat
          BY <1>1, <1>3, <5>0, <5>1
        <5> DEFINE x == jn[m].i + (j - e[m - 1])
        <5>3. x \in jn[m].i .. jn[m].j /\ e[m - 1] + (x - jn[m].i) = j
          <6> DEFINE i == jn[m].i
                     jj == jn[m].j
                     a == e[m - 1]
                     b == e[m]
          <6>1. /\ i \in Nat /\ jj \in Nat /\ a \in Nat /\ b \in Nat /\ a < j /\ j <= b
                /\ b = a + (jj - i)
            BY <5>2
          <6> HIDE DEF i, jj, a, b
          <6>2. i + (j - a) \in i .. jj /\ a + ((i + (j - a)) - i) = j
            BY <2>0, <6>1
          <6> QED
            BY <6>2 DEF i, jj, a, b
        <5> HIDE DEF x
        <5>4. City(rides, jn[m], x) = At(rides, query, P, j)
          BY <1>4, <5>3
        <5>5. m < l
          <6>1. SUFFICES ASSUME ~ (m < l) PROVE FALSE
            OBVIOUS
          <6> DEFINE u == l - 1
                     v == m - 1
          <6>2. u \in 0 .. N /\ v \in 0 .. N /\ (u < v \/ u = v)
            BY <1>1, <6>1
          <6> HIDE DEF u, v
          <6>3. u < v => e[u] < e[v]
            BY <6>2, MarksGrow
          <6>4. e[u] \in Nat /\ j < e[u] /\ e[v] \in Nat /\ e[v] < j
            BY <2>2, <2>8, <5>2 DEF u, v
          <6>5. e[u] < e[v] \/ e[u] = e[v]
            BY <6>2, <6>3
          <6> QED
            BY <2>0, <6>4, <6>5
        <5> QED
          BY <5>3, <5>4, <5>5
      <4> QED
        BY <4>1, <4>2
    <3>2. PICK m \in 1 .. N : /\ m < l
                              /\ \E x \in jn[m].i .. jn[m].j :
                                    City(rides, jn[m], x) = At(rides, query, P, j)
      BY <3>1
    <3>3. City(rides, jn[l], y) \in Passed(rides, jn[m]) \cap Passed(rides, jn[l])
      BY <1>7, <2>3, <2>4, <3>2 DEF Passed
    <3>4. Passed(rides, jn[m]) \cap Passed(rides, jn[l]) \subseteq
            IF l = m + 1 THEN {City(rides, jn[l], jn[l].i)} ELSE {}
      BY <3>2, JourneyFacts, OrderFacts
    <3>5. City(rides, jn[l], y) = City(rides, jn[l], jn[l].i)
      BY <3>3, <3>4
    <3>6. jn[l].i \in jn[l].i .. jn[l].j
      BY <1>1
    <3>7. y = jn[l].i
      BY <2>3, <2>6, <3>5, <3>6
    <3> QED
      BY <2>3, <3>7
  <2> QED
    BY <2>0, <2>2, <2>7, <2>8
<1>8. At(rides, query, P, n) = query.to
  <2>1. N \in 1 .. N /\ jn[N].j \in jn[N].i .. jn[N].j /\ e[N - 1] + (jn[N].j - jn[N].i) = n
    BY <1>1
  <2>2. City(rides, jn[N], jn[N].j) = query.to
    BY JourneyFacts, OrderFacts
  <2> QED
    BY <1>4, <2>1, <2>2
<1> HIDE DEF P, n
<1>9. \A j, k \in 0 .. n : At(rides, query, P, j) = At(rides, query, P, k) => j = k
  <2> SUFFICES ASSUME NEW j \in 0 .. n, NEW k \in 0 .. n,
                      At(rides, query, P, j) = At(rides, query, P, k), j # k
               PROVE  FALSE
    OBVIOUS
  <2>1. j < k \/ k < j
    BY <1>2
  <2> QED
    BY <1>7, <2>1
<1>10. transfersOf(P) <= query.transfers
  BY <1>1, <1>5
<1>11. P # << >>
  BY <1>2, EmptySeq
<1>12. Walkable(rides, query, P)
  BY <1>2, <1>6, <1>9, <1>10 DEF Walkable
<1> QED
  BY <1>2, <1>5, <1>8, <1>11, <1>12 DEF Arrives, P

\* The legs of the path are the hops of the journey.
LEMMA JourneyOfPath ==
  ASSUME Given, NEW jn \in Journeys(rides, query), NEW e, Marks(jn, e)
  PROVE  JourneyOf(PathOf(jn, e)) = jn
<1> DEFINE P == PathOf(jn, e)
           n == e[Len(jn)]
           N == Len(jn)
<1>1. /\ N \in Nat /\ N >= 1 /\ e \in [0 .. N -> Nat] /\ e[0] = 0
      /\ jn = [l \in 1 .. N |-> jn[l]]
      /\ \A l \in 1 .. N : /\ e[l] = e[l - 1] + (jn[l].j - jn[l].i)
                           /\ jn[l].i \in Nat /\ jn[l].j \in Nat /\ jn[l].i < jn[l].j
                           /\ jn[l] = [ride |-> jn[l].ride, i |-> jn[l].i, j |-> jn[l].j]
  BY JourneyFacts, HopFacts, OrderFacts DEF Marks
<1>2. /\ Len(P) = n /\ n \in Nat /\ n >= 1 /\ DOMAIN P = 1 .. n
  BY PathOfSteps
<1>3. transfersOf(P) + 1 = N
  <2>1. transfersOf(P) = N - 1
    BY PathOfArrives
  <2> HIDE DEF P, N
  <2> QED
    BY <1>1, <2>1
<1>4. ASSUME NEW l \in 1 .. N PROVE HopOf(P, l) = jn[l]
  <2> DEFINE a == e[l - 1]
             b == e[l]
             i == jn[l].i
             j == jn[l].j
  <2>1. a \in Nat /\ b \in Nat /\ a < b /\ b <= n
    <3>1. l - 1 \in 0 .. N /\ l \in 0 .. N /\ N \in 0 .. N /\ l - 1 < l /\ (l = N \/ l < N)
      BY <1>1
    <3>2. e[l - 1] < e[l]
      BY <3>1, MarksGrow
    <3>3. l < N => e[l] < e[N]
      BY <3>1, MarksGrow
    <3>4. e[l - 1] \in Nat /\ e[l] \in Nat /\ e[N] \in Nat
      BY <1>1, <3>1
    <3> QED
      BY <3>1, <3>2, <3>3, <3>4
  <2>2. i \in Nat /\ j \in Nat /\ b = a + (j - i)
    BY <1>1
  <2>3. ASSUME NEW k \in 1 .. n PROVE Changes(P, k) = l - 1 <=> k \in (a + 1) .. b
    <3>1. /\ HopAt(jn, e, k) \in 1 .. N
          /\ e[HopAt(jn, e, k) - 1] < k /\ k <= e[HopAt(jn, e, k)]
          /\ e[l - 1] < k /\ k <= e[l] => l = HopAt(jn, e, k)
      BY HopAtFacts
    <3>2. Changes(P, k) = HopAt(jn, e, k) - 1
      BY PathOfChanges
    <3>3. Changes(P, k) = l - 1 <=> HopAt(jn, e, k) = l
      <4> DEFINE h == HopAt(jn, e, k)
      <4>1. h \in Nat /\ l \in Nat
        BY <1>1, <3>1
      <4>2. Changes(P, k) = h - 1
        BY <3>2
      <4> HIDE DEF h, P
      <4>3. h - 1 = l - 1 <=> h = l
        BY <4>1
      <4> QED
        BY <4>2, <4>3 DEF h
    <3>4. HopAt(jn, e, k) = l <=> a < k /\ k <= b
      BY <3>1
    <3>5. k \in Nat
      BY <1>2
    <3> HIDE DEF a, b, P, n
    <3> QED
      BY <2>1, <3>3, <3>4, <3>5
  <2>4. LegSteps(P, l) = (a + 1) .. b
    <3>1. LegSteps(P, l) = {k \in 1 .. n : Changes(P, k) = l - 1}
      BY <1>2 DEF LegSteps
    <3> HIDE DEF P, n, a, b
    <3>2. (a + 1) .. b \subseteq 1 .. n
      BY <1>2, <2>1
    <3> QED
      BY <2>3, <3>1, <3>2
  <2>5. First(LegSteps(P, l)) = a + 1 /\ Final(LegSteps(P, l)) = b
    <3> HIDE DEF P, n, a, b
    <3>1. a + 1 \in Nat /\ a + 1 <= b
      BY <2>1
    <3> QED
      BY <2>1, <2>4, <3>1, IntervalEnds
  <2>6. ASSUME NEW k \in (a + 1) .. b
        PROVE  P[k].ride = jn[l].ride /\ P[k].seg = i + (k - a) - 1
    <3>1. k \in 1 .. n /\ e[l - 1] < k /\ k <= e[l]
      <4>1. a < k /\ k <= b /\ k \in 1 .. n
        <5> HIDE DEF a, b, n
        <5> QED
          BY <1>2, <2>1
      <4> QED
        BY <4>1
    <3>2. HopAt(jn, e, k) = l
      BY <3>1, HopAtFacts
    <3>3. k \in 1 .. Len(P)
      BY <1>2, <3>1
    <3>4. P[k].ride = jn[l].ride /\ P[k].seg = jn[l].i + (k - e[l - 1]) - 1
      <4>1. \A x \in 1 .. Len(P), y \in 1 .. Len(jn) : HopAt(jn, e, x) = y =>
              P[x].ride = jn[y].ride /\ P[x].seg = jn[y].i + (x - e[y - 1]) - 1
        BY PathOfSteps
      <4> HIDE DEF P
      <4>2. l \in 1 .. Len(jn)
        OBVIOUS
      <4> QED
        BY <3>2, <3>3, <4>1, <4>2
    <3> QED
      BY <3>4
  <2>7. a + 1 \in (a + 1) .. b /\ b \in (a + 1) .. b
    <3> HIDE DEF a, b
    <3> QED
      BY <2>1
  <2>8. P[a + 1].ride = jn[l].ride /\ P[a + 1].seg = i
    <3>1. P[a + 1].ride = jn[l].ride /\ P[a + 1].seg = i + ((a + 1) - a) - 1
      BY <2>6, <2>7
    <3> HIDE DEF P, a, i
    <3> QED
      BY <2>1, <2>2, <3>1
  <2>9. P[b].seg + 1 = j
    <3>1. P[b].seg = i + (b - a) - 1
      BY <2>6, <2>7
    <3> HIDE DEF P, a, b, i, j
    <3> QED
      BY <2>1, <2>2, <3>1
  <2>10. HopOf(P, l) = [ride |-> jn[l].ride, i |-> i, j |-> j]
    <3> HIDE DEF P, a, b, i, j
    <3> QED
      BY <2>5, <2>8, <2>9 DEF HopOf
  <2> QED
    BY <1>1, <2>10
<1>5. JourneyOf(P) = [l \in 1 .. N |-> HopOf(P, l)]
  BY <1>3 DEF JourneyOf
<1> HIDE DEF P, N
<1>6. [l \in 1 .. N |-> HopOf(P, l)] = [l \in 1 .. N |-> jn[l]]
  BY <1>4
<1> QED
  BY <1>1, <1>5, <1>6 DEF P

\* Every journey is what some path that arrives shows.
LEMMA JourneyHasPath ==
  ASSUME Given, NEW jn \in Journeys(rides, query)
  PROVE  \E P : Arrives(rides, query, P) /\ JourneyOf(P) = jn
<1>1. PICK e : Marks(jn, e)
  BY MarksExist
<1> QED
  BY <1>1, PathOfArrives, JourneyOfPath

\* No two itineraries are shown for one journey.
LEMMA ShownOneWay ==
  ASSUME Given, NEW P, Arrives(rides, query, P), NEW Q, Arrives(rides, query, Q),
         JourneyOf(P) = JourneyOf(Q)
  PROVE  P = Q
<1> DEFINE jn == JourneyOf(P)
           T(R) == transfersOf(R)
           legs(R) == [n \in 1 .. (T(R) + 1) |-> LegOf(rides, R, n)]
           it(R) == buildItinerary(rides, R)
<1>1. Shows(rides, it(P), jn) /\ Shows(rides, it(Q), jn)
  BY PathShowsJourney, OrderFacts
<1>2. /\ it(P) = [legs |-> legs(P), transfers |-> T(P), total |-> TotalOf(rides, legs(P))]
      /\ it(P).legs = legs(P) /\ it(P).transfers = T(P)
      /\ it(Q) = [legs |-> legs(Q), transfers |-> T(Q), total |-> TotalOf(rides, legs(Q))]
      /\ it(Q).legs = legs(Q) /\ it(Q).transfers = T(Q)
  BY DEF buildItinerary
<1>3. T(P) \in Nat /\ T(Q) \in Nat
  <2>1. Len(P) \in Nat /\ Len(Q) \in Nat
    BY LenProperties DEF Arrives, Walkable
  <2> QED
    BY <2>1, ChangesType DEF transfersOf
<1> HIDE DEF jn, T, it
<1>4. T(P) = T(Q)
  <2>1. it(P).transfers = Len(jn) - 1 /\ it(Q).transfers = Len(jn) - 1
    BY <1>1 DEF Shows
  <2> QED
    BY <1>2, <2>1
<1>5. DOMAIN jn = 1 .. (T(P) + 1)
  BY DEF jn, JourneyOf, T
<1>6. legs(P) = legs(Q)
  <2>1. it(P).legs = it(Q).legs
    BY <1>1 DEF Shows
  <2> QED
    BY <1>2, <2>1
<1> HIDE DEF legs
<1>7. it(P) = it(Q)
  BY <1>2, <1>4, <1>6
<1> QED
  BY <1>7, PathsShowApart, OrderFacts DEF it

-----------------------------------------------------------------------------
(***************************************************************************)
(* Nothing better is left out.                                             *)
(***************************************************************************)
\* There are finitely many hops.
LEMMA HopsFinite ==
  ASSUME Given
  PROVE  IsFiniteSet(Hops(rides, query))
<1> DEFINE D(r) == DOMAIN rides[r].cities
           H(r) == [ride : {r}, i : D(r), j : D(r)]
           f == [r \in DOMAIN rides |-> H(r)]
           HH == {H(r) : r \in DOMAIN rides}
<1>1. IsFiniteSet(DOMAIN rides) /\ \A r \in DOMAIN rides : Route(rides[r])
  BY OrderFacts DEF Routes
<1>2. ASSUME NEW r \in DOMAIN rides PROVE IsFiniteSet(H(r))
  <2> DEFINE S == D(r) \X D(r)
             g == [p \in S |-> [ride |-> r, i |-> p[1], j |-> p[2]]]
  <2>1. IsFiniteSet(D(r))
    <3>1. D(r) = 1 .. Len(rides[r].cities) /\ Len(rides[r].cities) \in Nat
      BY <1>1 DEF Route
    <3>2. IsFiniteSet(1 .. Len(rides[r].cities))
      BY <3>1, FS_Interval
    <3> QED
      BY <3>1, <3>2
  <2> HIDE DEF D
  <2>2. IsFiniteSet(S)
    BY <2>1, FS_Product
  <2>3. g \in Surjection(S, H(r))
    <3>1. \A p \in S : [ride |-> r, i |-> p[1], j |-> p[2]] \in H(r)
      OBVIOUS
    <3>2. ASSUME NEW h \in H(r) PROVE \E p \in S : g[p] = h
      <4>1. h = [ride |-> r, i |-> h.i, j |-> h.j] /\ <<h.i, h.j>> \in S
        OBVIOUS
      <4>2. g[<<h.i, h.j>>] = h
        BY <4>1
      <4> QED
        BY <4>1, <4>2
    <3> QED
      BY <3>1, <3>2 DEF Surjection
  <2> HIDE DEF g, S, H
  <2> QED
    BY <2>2, <2>3, FS_Surjection
<1> HIDE DEF H
<1>3. f \in Surjection(DOMAIN rides, HH)
  BY DEF Surjection
<1>4. IsFiniteSet(HH)
  <2> HIDE DEF f, HH
  <2> QED
    BY <1>1, <1>3, FS_Surjection
<1>5. IsFiniteSet(UNION HH)
  <2>1. \A T \in HH : IsFiniteSet(T)
    BY <1>2
  <2> HIDE DEF HH
  <2> QED
    BY <1>4, <2>1, FS_UNION
<1>6. Hops(rides, query) \in SUBSET UNION HH
  BY DEF Hops, H
<1> HIDE DEF HH
<1> QED
  BY <1>5, <1>6, FS_Subset

\* And finitely many journeys.
LEMMA JourneysFinite ==
  ASSUME Given
  PROVE  IsFiniteSet(Journeys(rides, query))
<1> DEFINE I == 1 .. (query.transfers + 1)
           T == SUBSET (I \X Hops(rides, query))
           f == [jn \in Journeys(rides, query) |-> {<<l, jn[l]>> : l \in 1 .. Len(jn)}]
<1>1. query.transfers \in Nat
  BY OrderFacts
<1>2. IsFiniteSet(T)
  <2>1. IsFiniteSet(I)
    BY <1>1, FS_Interval
  <2> HIDE DEF I
  <2>2. IsFiniteSet(I \X Hops(rides, query))
    BY <2>1, HopsFinite, FS_Product
  <2> QED
    BY <2>2, FS_SUBSET
<1>3. ASSUME NEW jn \in Journeys(rides, query) PROVE f[jn] \in T
  <2>1. ASSUME NEW l \in 1 .. Len(jn) PROVE <<l, jn[l]>> \in I \X Hops(rides, query)
    <3>1. Len(jn) \in Nat /\ Len(jn) <= query.transfers + 1 /\ jn[l] \in Hops(rides, query)
      BY JourneyFacts, OrderFacts
    <3>2. l \in I
      BY <1>1, <3>1
    <3> QED
      BY <3>1, <3>2
  <2> HIDE DEF I
  <2> QED
    BY <2>1
<1>4. ASSUME NEW jn \in Journeys(rides, query), NEW kn \in Journeys(rides, query), f[jn] = f[kn]
      PROVE  jn = kn
  <2> DEFINE M == Len(jn)
             N == Len(kn)
  <2>1. /\ M \in Nat /\ M >= 1 /\ N \in Nat /\ N >= 1
        /\ jn = [l \in 1 .. M |-> jn[l]] /\ kn = [l \in 1 .. N |-> kn[l]]
    BY JourneyFacts, OrderFacts
  <2>2. {<<l, jn[l]>> : l \in 1 .. M} = {<<l, kn[l]>> : l \in 1 .. N}
    BY <1>4
  <2> HIDE DEF M, N, f
  <2>3. ASSUME NEW l \in 1 .. M PROVE l \in 1 .. N /\ jn[l] = kn[l]
    <3>1. <<l, jn[l]>> \in {<<m, kn[m]>> : m \in 1 .. N}
      BY <2>2
    <3> QED
      BY <3>1
  <2>4. ASSUME NEW l \in 1 .. N PROVE l \in 1 .. M
    <3>1. <<l, kn[l]>> \in {<<m, jn[m]>> : m \in 1 .. M}
      BY <2>2
    <3> QED
      BY <3>1
  <2>5. M = N
    <3>1. M \in 1 .. M /\ N \in 1 .. N
      BY <2>1
    <3>2. M \in 1 .. N /\ N \in 1 .. M
      BY <2>3, <2>4, <3>1
    <3> QED
      BY <2>1, <3>2
  <2>6. [l \in 1 .. M |-> jn[l]] = [l \in 1 .. M |-> kn[l]]
    BY <2>3
  <2> QED
    BY <2>1, <2>5, <2>6
<1> HIDE DEF T
<1>5. f \in [Journeys(rides, query) -> T]
  BY <1>3
<1> HIDE DEF f
<1>6. f \in Injection(Journeys(rides, query), T)
  BY <1>4, <1>5 DEF Injection, IsInjective
<1> QED
  BY <1>2, <1>6, FS_Injection

\* What has been found is as many journeys as paths, and all there are unless
\* the walk was cut off.
LEMMA FoundJourneys ==
  ASSUME SearchKept, next = << >>
  PROVE  LET F == {JourneyOf(found[m]) : m \in 1 .. Len(found)}
         IN  /\ F \subseteq Journeys(rides, query)
             /\ IsFiniteSet(F) /\ Cardinality(F) = Len(found)
             /\ Len(found) < CutOff(query) => F = Journeys(rides, query)
<1> DEFINE F == {JourneyOf(found[m]) : m \in 1 .. Len(found)}
           f == [m \in 1 .. Len(found) |-> JourneyOf(found[m])]
<1>1. Given /\ Len(found) \in Nat /\ \A m \in 1 .. Len(found) : Arrives(rides, query, found[m])
  BY LenProperties DEF SearchKept, FoundKept
<1>2. F \subseteq Journeys(rides, query)
  BY <1>1, PathShowsJourney, OrderFacts
<1>3. \A m, n \in 1 .. Len(found) : JourneyOf(found[m]) = JourneyOf(found[n]) => m = n
  BY <1>1, ShownOneWay DEF SearchKept, FoundKept
<1>4. f \in Surjection(1 .. Len(found), F) /\ f \in Injection(1 .. Len(found), F)
  BY <1>3 DEF Surjection, Injection, IsInjective
<1>5. IsFiniteSet(1 .. Len(found)) /\ Cardinality(1 .. Len(found)) = Len(found)
  <2> DEFINE n == Len(found)
  <2>1. n \in Nat
    BY <1>1
  <2> HIDE DEF n
  <2>2. IsFiniteSet(1 .. n) /\ Cardinality(1 .. n) = IF 1 > n THEN 0 ELSE n - 1 + 1
    BY <2>1, FS_Interval
  <2>3. IsFiniteSet(1 .. n) /\ Cardinality(1 .. n) = n
    BY <2>1, <2>2
  <2> QED
    BY <2>3 DEF n
<1>6. IsFiniteSet(F) /\ Cardinality(F) = Len(found)
  <2> HIDE DEF f, F
  <2> QED
    BY <1>4, <1>5, FS_Surjection
<1>7. ASSUME Len(found) < CutOff(query), NEW jn \in Journeys(rides, query) PROVE jn \in F
  <2>1. PICK P : Arrives(rides, query, P) /\ JourneyOf(P) = jn
    BY <1>1, JourneyHasPath
  <2>2. P \in Seq(Steps(rides))
    BY <2>1 DEF Arrives, Walkable
  <2>3. PICK m \in 1 .. Len(found) : found[m] = P
    BY <1>7, <2>1, <2>2 DEF SearchKept, FoundKept
  <2> QED
    BY <2>1, <2>3
<1>8. Len(found) < CutOff(query) => F = Journeys(rides, query)
  BY <1>2, <1>7
<1> HIDE DEF F
<1> QED
  BY <1>2, <1>6, <1>8 DEF F

\* An answer has as many itineraries as were asked for, if there are so many
\* journeys, and unless the walk was cut off no journey that is cheaper than
\* one shown is left out.
THEOREM NothingLeftOut == Spec => []NothingBetterLeftOut
<1>1. SearchKept => NothingBetterLeftOut
  <2> SUFFICES ASSUME SearchKept, Answered
               PROVE  /\ Len(Shown) = IF Cardinality(Journeys(rides, query)) < query.results
                                      THEN Cardinality(Journeys(rides, query)) ELSE query.results
                      /\ Cardinality(Journeys(rides, query)) <= 4 * query.results =>
                           \A jn \in Journeys(rides, query) :
                             (\A n \in DOMAIN Shown : ~Shows(rides, Shown[n], jn)) =>
                               \A n \in DOMAIN Shown : Shown[n].total <= Cost(rides, jn)
    BY DEF NothingBetterLeftOut
  <2> DEFINE F == {JourneyOf(found[m]) : m \in 1 .. Len(found)}
             all == Cardinality(Journeys(rides, query))
             L == Len(found)
  <2>1. /\ Given /\ next = << >> /\ L \in Nat /\ Len(best) = L
        /\ Len(Shown) = IF L > query.results THEN query.results ELSE L
        /\ DOMAIN Shown = 1 .. Len(Shown) /\ Len(Shown) \in Nat
        /\ \A n \in 1 .. Len(Shown) : n \in 1 .. L /\ Shown[n] = best[n]
    BY ShownIsBest DEF SearchKept
  <2>2. /\ F \subseteq Journeys(rides, query) /\ IsFiniteSet(F) /\ Cardinality(F) = L
        /\ L < CutOff(query) => F = Journeys(rides, query)
    BY <2>1, FoundJourneys
  <2>3. /\ IsFiniteSet(Journeys(rides, query)) /\ all \in Nat /\ L <= all
        /\ all = L => F = Journeys(rides, query)
    <3>1. IsFiniteSet(Journeys(rides, query))
      BY <2>1, JourneysFinite
    <3> HIDE DEF F, L
    <3>2. /\ Cardinality(F) <= Cardinality(Journeys(rides, query))
          /\ Cardinality(Journeys(rides, query)) = Cardinality(F) => Journeys(rides, query) = F
      BY <2>2, <3>1, FS_Subset
    <3> QED
      BY <2>2, <3>1, <3>2, FS_CardinalityType
  <2>4. query.results \in Nat /\ CutOff(query) = 4 * query.results /\ L <= CutOff(query)
    BY <2>1, OrderFacts DEF CutOff, SearchKept, FoundKept
  <2>5. Len(Shown) = IF all < query.results THEN all ELSE query.results
    <3>1. L < 4 * query.results => all = L
      BY <2>2, <2>4
    <3> HIDE DEF L, all
    <3> QED
      BY <2>1, <2>3, <2>4, <3>1
  <2>6. ASSUME all <= 4 * query.results,
               NEW jn \in Journeys(rides, query),
               \A n \in DOMAIN Shown : ~Shows(rides, Shown[n], jn),
               NEW n \in DOMAIN Shown
        PROVE  Shown[n].total <= Cost(rides, jn)
    <3>1. F = Journeys(rides, query)
      <4> HIDE DEF L, all, F
      <4>1. L = all \/ L < 4 * query.results
        BY <2>1, <2>3, <2>4, <2>6
      <4> QED
        BY <2>2, <2>3, <2>4, <4>1
    <3>2. PICK m \in 1 .. L : jn = JourneyOf(found[m])
      BY <3>1
    <3>3. PICK k \in 1 .. L : best[k] = buildItinerary(rides, found[m])
      BY <2>1, <3>2 DEF SearchKept, SortedKept
    <3>4. Shows(rides, best[k], jn)
      <4>1. Arrives(rides, query, found[m])
        BY <3>2 DEF SearchKept, FoundKept
      <4> QED
        BY <2>1, <3>2, <3>3, <4>1, PathShowsJourney, OrderFacts
    <3>5. k \notin 1 .. Len(Shown)
      BY <2>1, <2>6, <3>4
    <3>6. n \in 1 .. L /\ n < k /\ Shown[n] = best[n]
      <4> HIDE DEF L
      <4> QED
        BY <2>1, <2>6, <3>5
    <3>7. NotAfter(best[n], best[k])
      BY <2>1, <3>6, BestInOrder
    <3>8. best[n].total \in Nat /\ best[k].total \in Nat
      <4>1. PICK i \in 1 .. L : best[n] = buildItinerary(rides, found[i])
        BY <2>1, <3>6 DEF SearchKept, SortedKept
      <4> QED
        BY <3>2, <3>3, <4>1, FoundItineraries DEF SearchKept
    <3>9. best[k].total = Cost(rides, jn)
      BY <3>4 DEF Shows
    <3> QED
      BY <3>6, <3>7, <3>8, <3>9 DEF NotAfter
  <2> QED
    BY <2>5, <2>6
<1> QED
  BY <1>1, SearchInvariant, PTL

-----------------------------------------------------------------------------
(***************************************************************************)
(* The walk in steps and the function.  The function answers for a whole   *)
(* call at once.  To compare the two, what the open calls have still to do *)
(* is computed with the function: it must always come to the same end.     *)
(***************************************************************************)
\* The first n steps of a path.
Upto(P, n) == [k \in 1 .. n |-> P[k]]

\* The loop of a call along P.
LoopAt(rd, ord, q, P) == Loop(WalkOf(rd, ord, q), rd, ord, q, P)

\* f is what is found when the open calls end, from the innermost, which has
\* found fd so far, to the outermost: each goes on where its loop is.
Finishes(rd, ord, q, nx, P, fd, f) ==
  /\ f \in [0 .. Len(nx) -> Seq(Paths(rd))]
  /\ f[Len(nx)] = fd
  /\ f[0] = Walk(rd, ord, q)
  /\ \A d \in 1 .. Len(nx) : f[d - 1] = LoopAt(rd, ord, q, Upto(P, d - 1))[nx[d]][f[d]]

\* What is left to do takes the paths found so far to what Walk finds.
WalkedKept ==
  /\ \A d \in 1 .. Len(next) : next[d] \in 1 .. (Len(order) + 1)
  /\ query.from = query.to => next = << >> /\ found = << >>
  /\ query.from # query.to => \E f : Finishes(rides, order, query, next, path, found, f)

LEMMA UptoAll ==
  ASSUME NEW S, NEW P \in Seq(S)
  PROVE  Upto(P, Len(P)) = P
BY LenProperties DEF Upto

LEMMA UptoSame ==
  ASSUME NEW P, NEW Q, NEW n \in Nat, \A k \in 1 .. n : P[k] = Q[k]
  PROVE  Upto(P, n) = Upto(Q, n)
BY DEF Upto

\* What the functions of PathProofs need of a state of the walk.
LEMMA WalkFacts ==
  ASSUME Given, Walking, FoundKept, WalkedKept
  PROVE  /\ path \in Paths(rides) /\ found \in Seq(Paths(rides))
         /\ order \in Seq(DOMAIN rides) /\ Routes(rides)
         /\ Len(order) \in Nat /\ Len(next) \in Nat /\ Len(path) \in Nat
         /\ Upto(path, Len(path)) = path
         /\ next # << >> => /\ Len(next) = Len(path) + 1
                            /\ Len(next) \in 1 .. Len(next)
                            /\ next[Len(next)] \in 1 .. (Len(order) + 1)
                            /\ query.from # query.to
<1>1. path \in Seq(Steps(rides)) /\ next \in Seq(Nat \ {0})
  BY DEF Walking, Walkable
<1>2. Len(next) \in Nat /\ Len(path) \in Nat
  BY <1>1, LenProperties
<1>3. next # << >> => Len(next) = Len(path) + 1 /\ query.from # query.to
  BY DEF Walking
<1>4. next # << >> => Len(next) \in 1 .. Len(next)
  BY <1>2, <1>3
<1>5. next # << >> => next[Len(next)] \in 1 .. (Len(order) + 1)
  BY <1>4 DEF WalkedKept
<1>6. Upto(path, Len(path)) = path
  BY <1>1, UptoAll
<1> QED
  BY <1>1, <1>2, <1>3, <1>4, <1>5, <1>6, OrderFacts DEF Paths, FoundKept

\* The loop the walk is in calls walk for the next ride it can follow.
LEMMA LoopCalls ==
  ASSUME Given, Walking, FoundKept, WalkedKept, next # << >>, Ahead # {}
  PROVE  LoopAt(rides, order, query, path)[next[Len(next)]][found] =
           LoopAt(rides, order, query, path)[First(Ahead) + 1][WalkOf(rides, order, query)[Longer][found]]
<1> DEFINE i == next[Len(next)]
           j == First(Ahead)
           walk == WalkOf(rides, order, query)
<1>1. /\ found \in Seq(Paths(rides)) /\ Len(order) \in Nat
      /\ i \in 1 .. (Len(order) + 1)
  BY WalkFacts
<1>2. j \in 1 .. Len(order) /\ i <= j /\ \A m \in Ahead : j <= m
  BY GoingOn
<1>3. j \in Ahead
  <2>1. Ahead \in SUBSET Nat
    BY <1>1 DEF Ahead
  <2> QED
    BY <2>1, FirstIn
<1>4. CanFollow(rides, query, path, order[j]) /\ Longer = Onward(rides, query, path, order[j])
  BY <1>3 DEF Ahead, Longer
<1>5. \A m \in i .. Len(order) : CanFollow(rides, query, path, order[m]) => m \in Ahead
  BY DEF Ahead
<1> HIDE DEF i, j, walk
<1>6. \A m \in i .. (j - 1) : ~ CanFollow(rides, query, path, order[m])
  <2> SUFFICES ASSUME NEW m \in i .. (j - 1), CanFollow(rides, query, path, order[m])
               PROVE  FALSE
    OBVIOUS
  <2>1. m \in i .. Len(order) /\ ~ (j <= m)
    BY <1>1, <1>2
  <2> QED
    BY <1>2, <1>5, <2>1
<1>7. j \in i .. (Len(order) + 1)
  BY <1>1, <1>2
<1>8. Loop(walk, rides, order, query, path)[i][found] =
        Loop(walk, rides, order, query, path)[j][found]
  BY <1>1, <1>6, <1>7, IdleLoop
<1>9. Loop(walk, rides, order, query, path)[j][found] =
        Loop(walk, rides, order, query, path)[j + 1][Turn(walk, rides, order, query, path, j, found)]
  BY <1>1, <1>2, LoopTurns
<1>10. Turn(walk, rides, order, query, path, j, found) = walk[Longer][found]
  BY <1>4 DEF Turn
<1> QED
  BY <1>8, <1>9, <1>10 DEF LoopAt, i, j, walk

\* A loop with no ride to follow, or with enough found, is at its end.
LEMMA LoopEnds ==
  ASSUME Given, Walking, FoundKept, WalkedKept, next # << >>, Full \/ Ahead = {}
  PROVE  LoopAt(rides, order, query, path)[next[Len(next)]][found] = found
<1> DEFINE i == next[Len(next)]
           walk == WalkOf(rides, order, query)
<1>1. /\ found \in Seq(Paths(rides)) /\ path \in Paths(rides)
      /\ order \in Seq(DOMAIN rides) /\ Routes(rides)
      /\ Len(order) \in Nat /\ i \in 1 .. (Len(order) + 1)
  BY WalkFacts
<1>2. CASE Full
  <2>1. Len(found) >= CutOff(query)
    BY <1>2 DEF Full
  <2> HIDE DEF i
  <2> QED
    BY <1>1, <2>1, FullLoop DEF LoopAt, i
<1>3. CASE Ahead = {}
  <2>1. \A m \in i .. Len(order) : ~ CanFollow(rides, query, path, order[m])
    BY <1>3 DEF Ahead
  <2> DEFINE j == Len(order) + 1
  <2>2. j \in i .. (Len(order) + 1) /\ j - 1 = Len(order)
    BY <1>1
  <2>3. found \in Seq(Paths(rides)) /\ Len(order) \in Nat
    BY <1>1
  <2>4. i \in 1 .. (Len(order) + 1)
    BY <1>1
  <2> HIDE DEF i, j, walk
  <2>5. \A m \in i .. (j - 1) : ~ CanFollow(rides, query, path, order[m])
    BY <2>1, <2>2
  <2>6. Loop(walk, rides, order, query, path)[i][found] =
          Loop(walk, rides, order, query, path)[j][found]
    BY <2>2, <2>3, <2>4, <2>5, IdleLoop
  <2>7. Loop(walk, rides, order, query, path)[Len(order) + 1][found] = found
    BY <2>3, LoopLast
  <2> QED
    BY <2>6, <2>7 DEF LoopAt, i, j, walk
<1> QED
  BY <1>2, <1>3

\* What the next call of the innermost loop finds.
LEMMA NextCall ==
  ASSUME Given, Walking, FoundKept, WalkedKept, next # << >>, ~ Full, Ahead # {}
  PROVE  WalkOf(rides, order, query)[Longer][found] =
           IF Here(rides, query, Longer) = query.to THEN Append(found, Longer)
           ELSE LoopAt(rides, order, query, Longer)[1][found]
<1>1. /\ found \in Seq(Paths(rides)) /\ order \in Seq(DOMAIN rides) /\ Routes(rides)
      /\ Len(path) \in Nat
  BY WalkFacts
<1>2. Longer \in Paths(rides) /\ Longer # << >>
  <2>1. Longer \in Seq(Steps(rides)) /\ Len(Longer) = Len(path) + 1
    BY GoingOn
  <2> QED
    BY <1>1, <2>1, EmptySeq DEF Paths
<1>3. ~ (Len(found) >= CutOff(query))
  BY DEF Full
<1> QED
  BY <1>1, <1>2, <1>3, WalkCalls DEF LoopAt

\* At the start all is left to do.
LEMMA WalkedInit ==
  ASSUME Init
  PROVE  WalkedKept
<1>1. /\ Given /\ path = << >> /\ found = << >>
      /\ next = IF query.from = query.to THEN << >> ELSE <<1>>
  BY DEF Init, Given
<1>2. /\ order \in Seq(DOMAIN rides) /\ Routes(rides) /\ Len(order) \in Nat
  BY <1>1, OrderFacts
<1>3. << >> \in Paths(rides) /\ << >> \in Seq(Paths(rides)) /\ Len(<< >>) = 0
  BY EmptySeq DEF Paths
<1>4. CASE query.from = query.to
  <2>1. next = << >> /\ Len(next) = 0
    BY <1>1, <1>3, <1>4
  <2> QED
    BY <1>1, <1>4, <2>1 DEF WalkedKept
<1>5. CASE query.from # query.to
  <2>1. next = <<1>> /\ Len(next) = 1 /\ next[1] = 1
    BY <1>1, <1>5
  <2>2. Walk(rides, order, query) = LoopAt(rides, order, query, << >>)[1][<< >>]
    BY <1>2, EmptyWalk DEF LoopAt
  <2>3. Walk(rides, order, query) \in Seq(Paths(rides))
    BY <1>2, <1>3, WalkType DEF Walk
  <2>4. Upto(<< >>, 0) = << >>
    BY <1>3, UptoAll DEF Paths
  <2> DEFINE all == Walk(rides, order, query)
             f == [d \in 0 .. 1 |-> IF d = 0 THEN all ELSE << >>]
  <2> HIDE DEF all
  <2>5. f \in [0 .. 1 -> Seq(Paths(rides))] /\ f[0] = all /\ f[1] = << >>
    BY <1>3, <2>3 DEF all
  <2> HIDE DEF f
  <2>6. \A d \in 1 .. 1 : f[d - 1] = LoopAt(rides, order, query, Upto(<< >>, d - 1))[next[d]][f[d]]
    BY <2>1, <2>2, <2>4, <2>5 DEF all
  <2>7. Finishes(rides, order, query, next, path, found, f)
    BY <1>1, <2>1, <2>5, <2>6 DEF Finishes, all
  <2>8. \A d \in 1 .. Len(next) : next[d] \in 1 .. (Len(order) + 1)
    BY <1>2, <2>1
  <2> QED
    BY <1>5, <2>7, <2>8 DEF WalkedKept
<1> QED
  BY <1>4, <1>5

\* The same calls are left when the innermost has ended.
LEMMA WalkedReturn ==
  ASSUME Given, Walking, FoundKept, WalkedKept, Return
  PROVE  WalkedKept'
<1> DEFINE n == Len(path)
<1>1. /\ UNCHANGED <<rides, query, order, found>>
      /\ next # << >> /\ (Full \/ Ahead = {})
  BY DEF Return, request
<1>2. /\ n \in Nat /\ Len(next) = n + 1 /\ query.from # query.to
      /\ Upto(path, n) = path
      /\ found \in Seq(Paths(rides))
  BY <1>1, WalkFacts
<1>3. /\ Len(next') = n
      /\ Len(path') = IF path = << >> THEN 0 ELSE n - 1
      /\ \A k \in 1 .. Len(path') : path'[k] = path[k]
      /\ \A k \in 1 .. n : next'[k] = next[k]
  BY <1>1, GoingBack
<1>4. n # 0 => path # << >>
  BY EmptySeq
<1>5. PICK f : Finishes(rides, order, query, next, path, found, f)
  BY <1>2 DEF WalkedKept
<1>6. /\ f \in [0 .. (n + 1) -> Seq(Paths(rides))]
      /\ f[n + 1] = found /\ f[0] = Walk(rides, order, query)
      /\ \A d \in 1 .. (n + 1) : f[d - 1] = LoopAt(rides, order, query, Upto(path, d - 1))[next[d]][f[d]]
  BY <1>2, <1>5 DEF Finishes
<1>7. f[n] = found
  <2>1. n + 1 \in 1 .. (n + 1) /\ (n + 1) - 1 = n
    BY <1>2
  <2>2. f[(n + 1) - 1] = LoopAt(rides, order, query, Upto(path, (n + 1) - 1))[next[n + 1]][f[n + 1]]
    BY <1>6, <2>1
  <2>3. f[n] = LoopAt(rides, order, query, path)[next[Len(next)]][found]
    BY <1>2, <1>6, <2>1, <2>2
  <2> QED
    BY <1>1, <2>3, LoopEnds
<1>8. ASSUME NEW d \in 1 .. n
      PROVE  /\ next'[d] = next[d] /\ Upto(path', d - 1) = Upto(path, d - 1)
             /\ d \in 1 .. (n + 1)
  <2>1. d - 1 \in Nat /\ \A k \in 1 .. (d - 1) : k \in 1 .. Len(path')
    BY <1>2, <1>3, <1>4
  <2>2. \A k \in 1 .. (d - 1) : path'[k] = path[k]
    BY <1>3, <2>1
  <2>3. Upto(path', d - 1) = Upto(path, d - 1)
    BY <2>1, <2>2, UptoSame
  <2> QED
    BY <1>2, <1>3, <2>3
<1> DEFINE g == [d \in 0 .. n |-> f[d]]
<1> HIDE DEF n
<1>9. /\ g \in [0 .. n -> Seq(Paths(rides))]
      /\ g[n] = f[n] /\ g[0] = f[0]
      /\ \A d \in 1 .. n : g[d - 1] = f[d - 1] /\ g[d] = f[d]
  BY <1>2, <1>6
<1> HIDE DEF g
<1>10. \A d \in 1 .. n : g[d - 1] = LoopAt(rides, order, query, Upto(path', d - 1))[next'[d]][g[d]]
  BY <1>6, <1>8, <1>9
<1>11. Finishes(rides, order, query, next', path', found', g)
  BY <1>1, <1>3, <1>6, <1>7, <1>9, <1>10 DEF Finishes
<1>12. \A d \in 1 .. Len(next') : next'[d] \in 1 .. (Len(order) + 1)
  BY <1>2, <1>3, <1>8 DEF WalkedKept
<1>13. \E h : Finishes(rides', order', query', next', path', found', h)
  BY <1>1, <1>11
<1> QED
  BY <1>1, <1>2, <1>12, <1>13 DEF WalkedKept

\* What the innermost loop finds next is what is left to do less one call.
LEMMA WalkedArrive ==
  ASSUME Given, Walking, FoundKept, WalkedKept, Arrive
  PROVE  WalkedKept'
<1> DEFINE n == Len(path)
           fd == Append(found, Longer)
           j == First(Ahead)
<1>1. /\ UNCHANGED <<rides, query, order, path>>
      /\ next # << >> /\ ~ Full /\ Ahead # {}
      /\ next' = Behind /\ found' = fd
      /\ Here(rides, query, Longer) = query.to
  BY DEF Arrive, request
<1>2. /\ n \in Nat /\ Len(next) = n + 1 /\ query.from # query.to
      /\ Upto(path, n) = path
      /\ found \in Seq(Paths(rides)) /\ Len(order) \in Nat
  BY <1>1, WalkFacts
<1>3. /\ Len(Behind) = n + 1
      /\ \A k \in 1 .. n : Behind[k] = next[k]
      /\ Behind[n + 1] = j + 1 /\ j \in 1 .. Len(order)
      /\ Longer \in Seq(Steps(rides))
  BY <1>1, GoingOn
<1>4. fd \in Seq(Paths(rides))
  BY <1>2, <1>3, AppendProperties DEF Paths
<1>5. PICK f : Finishes(rides, order, query, next, path, found, f)
  BY <1>2 DEF WalkedKept
<1>6. /\ f \in [0 .. (n + 1) -> Seq(Paths(rides))]
      /\ f[n + 1] = found /\ f[0] = Walk(rides, order, query)
      /\ \A d \in 1 .. (n + 1) : f[d - 1] = LoopAt(rides, order, query, Upto(path, d - 1))[next[d]][f[d]]
  BY <1>2, <1>5 DEF Finishes
<1>7. f[n] = LoopAt(rides, order, query, path)[j + 1][fd]
  <2>1. n + 1 \in 1 .. (n + 1) /\ (n + 1) - 1 = n
    BY <1>2
  <2>2. f[(n + 1) - 1] = LoopAt(rides, order, query, Upto(path, (n + 1) - 1))[next[n + 1]][f[n + 1]]
    BY <1>6, <2>1
  <2>3. f[n] = LoopAt(rides, order, query, path)[next[Len(next)]][found]
    BY <1>2, <1>6, <2>1, <2>2
  <2>4. WalkOf(rides, order, query)[Longer][found] = fd
    BY <1>1, NextCall
  <2> QED
    BY <1>1, <2>3, <2>4, LoopCalls
<1> DEFINE g == [d \in 0 .. (n + 1) |-> IF d = n + 1 THEN fd ELSE f[d]]
<1> HIDE DEF n, fd, j
<1>8. /\ g \in [0 .. (n + 1) -> Seq(Paths(rides))]
      /\ g[n + 1] = fd /\ g[n] = f[n] /\ g[0] = f[0]
      /\ \A d \in 1 .. n : g[d - 1] = f[d - 1] /\ g[d] = f[d]
  BY <1>2, <1>4, <1>6
<1> HIDE DEF g
<1>9. ASSUME NEW d \in 1 .. (n + 1)
      PROVE  g[d - 1] = LoopAt(rides, order, query, Upto(path, d - 1))[Behind[d]][g[d]]
  <2>1. CASE d \in 1 .. n
    <3>1. g[d - 1] = f[d - 1] /\ g[d] = f[d] /\ Behind[d] = next[d]
      BY <1>3, <1>8, <2>1
    <3> QED
      BY <1>6, <3>1
  <2>2. CASE d = n + 1
    <3>1. d - 1 = n
      BY <1>2, <2>2
    <3> QED
      BY <1>2, <1>3, <1>7, <1>8, <2>2, <3>1
  <2> QED
    BY <1>2, <2>1, <2>2
<1>10. Finishes(rides, order, query, next', path', found', g)
  BY <1>1, <1>3, <1>6, <1>8, <1>9 DEF Finishes
<1>11. \A d \in 1 .. Len(next') : next'[d] \in 1 .. (Len(order) + 1)
  <2> TAKE d \in 1 .. Len(next')
  <2>1. CASE d \in 1 .. n
    <3>1. d \in 1 .. Len(next) /\ next'[d] = next[d]
      BY <1>1, <1>2, <1>3, <2>1
    <3> QED
      BY <3>1 DEF WalkedKept
  <2>2. CASE d = n + 1
    <3>1. next'[d] = j + 1
      BY <1>1, <1>3, <2>2
    <3> QED
      BY <1>2, <1>3, <3>1
  <2> QED
    BY <1>1, <1>2, <1>3, <2>1, <2>2
<1>12. \E h : Finishes(rides', order', query', next', path', found', h)
  BY <1>1, <1>10
<1> QED
  BY <1>1, <1>2, <1>11, <1>12 DEF WalkedKept

\* A call that opens finds what its own loop finds.
LEMMA WalkedDescend ==
  ASSUME Given, Walking, FoundKept, WalkedKept, Descend
  PROVE  WalkedKept'
<1> DEFINE n == Len(path)
           w == WalkOf(rides, order, query)[Longer][found]
           j == First(Ahead)
<1>1. /\ UNCHANGED <<rides, query, order, found>>
      /\ next # << >> /\ ~ Full /\ Ahead # {}
      /\ next' = Append(Behind, 1) /\ path' = Longer
      /\ Here(rides, query, Longer) # query.to
  BY DEF Descend, request
<1>2. /\ n \in Nat /\ Len(next) = n + 1 /\ query.from # query.to
      /\ Upto(path, n) = path
      /\ found \in Seq(Paths(rides)) /\ Len(order) \in Nat
      /\ order \in Seq(DOMAIN rides) /\ Routes(rides)
  BY <1>1, WalkFacts
<1>3. /\ Behind \in Seq(Nat \ {0}) /\ Len(Behind) = n + 1
      /\ \A k \in 1 .. n : Behind[k] = next[k] /\ Longer[k] = path[k]
      /\ Behind[n + 1] = j + 1 /\ j \in 1 .. Len(order)
      /\ Longer \in Seq(Steps(rides)) /\ Len(Longer) = n + 1
  BY <1>1, GoingOn
<1>4. /\ Len(next') = n + 2
      /\ \A k \in 1 .. (n + 1) : next'[k] = Behind[k]
      /\ next'[n + 2] = 1
  <2> HIDE DEF n, j
  <2> QED
    BY <1>1, <1>2, <1>3, AppendProperties
<1>5. w \in Seq(Paths(rides)) /\ w = LoopAt(rides, order, query, Longer)[1][found]
  <2>1. w \in Seq(Paths(rides))
    BY <1>2, <1>3, WalkType DEF Paths
  <2>2. w = LoopAt(rides, order, query, Longer)[1][found]
    BY <1>1, NextCall
  <2> QED
    BY <2>1, <2>2
<1>6. PICK f : Finishes(rides, order, query, next, path, found, f)
  BY <1>2 DEF WalkedKept
<1>7. /\ f \in [0 .. (n + 1) -> Seq(Paths(rides))]
      /\ f[n + 1] = found /\ f[0] = Walk(rides, order, query)
      /\ \A d \in 1 .. (n + 1) : f[d - 1] = LoopAt(rides, order, query, Upto(path, d - 1))[next[d]][f[d]]
  BY <1>2, <1>6 DEF Finishes
<1>8. f[n] = LoopAt(rides, order, query, path)[j + 1][w]
  <2>1. n + 1 \in 1 .. (n + 1) /\ (n + 1) - 1 = n
    BY <1>2
  <2>2. f[(n + 1) - 1] = LoopAt(rides, order, query, Upto(path, (n + 1) - 1))[next[n + 1]][f[n + 1]]
    BY <1>7, <2>1
  <2>3. f[n] = LoopAt(rides, order, query, path)[next[Len(next)]][found]
    BY <1>2, <1>7, <2>1, <2>2
  <2> QED
    BY <1>1, <2>3, LoopCalls
<1>9. Upto(Longer, n + 1) = Longer
  BY <1>3, UptoAll
<1> DEFINE g == [d \in 0 .. (n + 2) |-> IF d = n + 2 THEN found ELSE IF d = n + 1 THEN w ELSE f[d]]
<1> HIDE DEF n, w, j
<1>10. /\ g \in [0 .. (n + 2) -> Seq(Paths(rides))]
       /\ g[n + 2] = found /\ g[n + 1] = w /\ g[n] = f[n] /\ g[0] = f[0]
       /\ \A d \in 1 .. n : g[d - 1] = f[d - 1] /\ g[d] = f[d]
  BY <1>2, <1>5, <1>7
<1> HIDE DEF g
<1>11. ASSUME NEW d \in 1 .. (n + 1) PROVE Upto(Longer, d - 1) = Upto(path, d - 1)
  <2>1. d - 1 \in Nat /\ \A k \in 1 .. (d - 1) : k \in 1 .. n
    BY <1>2
  <2>2. \A k \in 1 .. (d - 1) : Longer[k] = path[k]
    BY <1>3, <2>1
  <2> QED
    BY <2>1, <2>2, UptoSame
<1>12. ASSUME NEW d \in 1 .. (n + 2)
       PROVE  g[d - 1] = LoopAt(rides, order, query, Upto(Longer, d - 1))[next'[d]][g[d]]
  <2>1. CASE d \in 1 .. n
    <3>1. d \in 1 .. (n + 1)
      BY <1>2, <2>1
    <3>2. /\ g[d - 1] = f[d - 1] /\ g[d] = f[d] /\ next'[d] = next[d]
          /\ Upto(Longer, d - 1) = Upto(path, d - 1)
      BY <1>3, <1>4, <1>10, <1>11, <2>1, <3>1
    <3> QED
      BY <1>7, <3>1, <3>2
  <2>2. CASE d = n + 1
    <3>1. d - 1 = n /\ d \in 1 .. (n + 1)
      BY <1>2, <2>2
    <3>2. Upto(Longer, d - 1) = path
      BY <1>2, <1>11, <3>1
    <3>3. g[d - 1] = f[n] /\ g[d] = w /\ next'[d] = j + 1
      BY <1>3, <1>4, <1>10, <2>2, <3>1
    <3> QED
      BY <1>8, <3>2, <3>3
  <2>3. CASE d = n + 2
    <3>1. d - 1 = n + 1
      BY <1>2, <2>3
    <3>2. g[d - 1] = w /\ g[d] = found /\ next'[d] = 1 /\ Upto(Longer, d - 1) = Longer
      BY <1>4, <1>9, <1>10, <2>3, <3>1
    <3> QED
      BY <1>5, <3>2
  <2> QED
    BY <1>2, <2>1, <2>2, <2>3
<1>13. Finishes(rides, order, query, next', path', found', g)
  BY <1>1, <1>4, <1>7, <1>10, <1>12 DEF Finishes
<1>14. \A d \in 1 .. Len(next') : next'[d] \in 1 .. (Len(order) + 1)
  <2> TAKE d \in 1 .. Len(next')
  <2>1. CASE d \in 1 .. n
    <3>1. d \in 1 .. Len(next) /\ d \in 1 .. (n + 1) /\ next'[d] = next[d]
      BY <1>2, <1>3, <1>4, <2>1
    <3> QED
      BY <3>1 DEF WalkedKept
  <2>2. CASE d = n + 1
    <3>1. next'[d] = j + 1
      BY <1>2, <1>3, <1>4, <2>2
    <3> QED
      BY <1>2, <1>3, <3>1
  <2>3. CASE d = n + 2
    BY <1>2, <1>4, <2>3
  <2> QED
    BY <1>2, <1>4, <2>1, <2>2, <2>3
<1>15. \E h : Finishes(rides', order', query', next', path', found', h)
  BY <1>1, <1>13
<1> QED
  BY <1>1, <1>2, <1>14, <1>15 DEF WalkedKept

\* No step of a request breaks it.
LEMMA WalkedStep ==
  ASSUME SearchKept, WalkedKept, [Next]_vars
  PROVE  WalkedKept'
<1>1. /\ Given /\ Walking /\ FoundKept
      /\ Arrive \/ Descend \/ Return \/ Sort \/ Answer \/ UNCHANGED vars
  BY DEF SearchKept, Next
<1>2. CASE Sort \/ Answer \/ UNCHANGED vars
  <2>1. UNCHANGED <<rides, query, order, path, next, found>>
    BY <1>2 DEF Sort, Answer, vars, request
  <2> QED
    BY <2>1 DEF WalkedKept
<1> QED
  BY <1>1, <1>2, WalkedArrive, WalkedDescend, WalkedReturn

\* At every step of the walk, what its open calls have still to do makes of the
\* paths found so far those that the function walk finds.
THEOREM WalkInvariant == Spec => [](SearchKept /\ WalkedKept)
<1>1. Init => WalkedKept
  BY WalkedInit
<1>2. SearchKept /\ WalkedKept /\ [Next]_vars => WalkedKept'
  BY WalkedStep
<1> QED
  BY <1>1, <1>2, SearchInvariant, PTL DEF Spec

\* When no call is open it has found them all.
LEMMA WalkEnds ==
  ASSUME SearchKept, WalkedKept, next = << >>
  PROVE  found = PathsFor(rides, order, query)
<1>1. CASE query.from = query.to
  BY <1>1 DEF WalkedKept, PathsFor
<1>2. CASE query.from # query.to
  <2>1. PICK f : Finishes(rides, order, query, next, path, found, f)
    BY <1>2 DEF WalkedKept
  <2>2. Len(next) = 0
    BY EmptySeq
  <2>3. f[0] = found /\ f[0] = Walk(rides, order, query)
    BY <2>1, <2>2 DEF Finishes
  <2> QED
    BY <1>2, <2>3 DEF PathsFor
<1> QED
  BY <1>1, <1>2

\* And when all its itineraries are sorted in, they are in the order of Sorted.
LEMMA BestIsSorted ==
  ASSUME SearchKept, WalkedKept, Len(best) = Len(found), NEW k \in 1 .. Len(best)
  PROVE  Sorted(rides, ItinerariesFor(rides, found))[k] = best[k]
<1> DEFINE n == Len(found)
           its == ItinerariesFor(rides, found)
<1>1. /\ Given /\ Routes(rides) /\ Ranked(rides) /\ query.transfers \in Nat
      /\ found \in Seq(Paths(rides))
      /\ \A m \in 1 .. n : Arrives(rides, query, found[m])
  BY FoundOrdered, WalkFacts DEF SearchKept, FoundKept
<1>2. /\ n \in Nat /\ DOMAIN its = 1 .. n /\ StrictlyOrdered(rides, its)
      /\ \A m \in 1 .. n : its[m] = buildItinerary(rides, found[m])
  BY <1>1, ArrivingOrdered
<1>3. \A l, m \in 1 .. n :
        buildItinerary(rides, found[l]) = buildItinerary(rides, found[m]) => l = m
  BY FoundItineraries DEF SearchKept
<1>4. /\ \A m \in 1 .. n : \E l \in 1 .. n : best[l] = buildItinerary(rides, found[m])
      /\ \A l \in 1 .. n : \E m \in 1 .. n : best[l] = buildItinerary(rides, found[m])
      /\ \A l, m \in 1 .. n : l < m => Better(rides, best[l], best[m])
      /\ k \in 1 .. n
  BY DEF SearchKept, SortedKept
<1> HIDE DEF n, its
<1>5. \A l \in 1 .. n : \A m \in 1 .. n : its[l] = its[m] => l = m
  BY <1>2, <1>3
<1>6. ASSUME NEW l \in 1 .. n PROVE \E m \in 1 .. n : best[l] = its[m]
  <2>1. PICK m \in 1 .. n : best[l] = buildItinerary(rides, found[m])
    BY <1>4
  <2> QED
    BY <1>2, <2>1
<1>7. ASSUME NEW m \in 1 .. n PROVE \E l \in 1 .. n : best[l] = its[m]
  <2>1. PICK l \in 1 .. n : best[l] = buildItinerary(rides, found[m])
    BY <1>4
  <2> QED
    BY <1>2, <2>1
<1>8. \A l \in 1 .. n : \A m \in 1 .. n : l < m => Better(rides, best[l], best[m])
  BY <1>4
<1>9. InOrder(rides, its, n, best)
  BY <1>6, <1>7, <1>8 DEF InOrder
<1>10. n \in Nat /\ DOMAIN its = 1 .. n /\ StrictlyOrdered(rides, its) /\ k \in 1 .. n
  BY <1>2, <1>4
<1>11. Sorted(rides, its)[k] = best[k]
  BY <1>5, <1>9, <1>10, SortedOnce
<1> QED
  BY <1>11 DEF its

\* The walk in steps answers what the function Search answers, for every copy of
\* the rides, order of it and query: what the proofs of TripProofs say of the
\* function holds of the code's walk, and the other way round.
THEOREM WalksAgree == Spec => []SameAsSearch
<1>1. SearchKept /\ WalkedKept => SameAsSearch
  <2> SUFFICES ASSUME SearchKept, WalkedKept, Answered
               PROVE  Shown = Search(rides, order, query)
    BY DEF SameAsSearch
  <2> DEFINE n == Len(best)
             size == IF n > query.results THEN query.results ELSE n
             S == Sorted(rides, ItinerariesFor(rides, found))
  <2>1. /\ n \in Nat /\ n = Len(found) /\ next = << >> /\ size \in Nat /\ size <= n
        /\ Shown = [k \in 1 .. size |-> best[k]]
    <3>1. n \in Nat /\ query.results \in Nat /\ n = Len(found) /\ next = << >>
      BY LenProperties, OrderFacts DEF SearchKept, SortedKept, AnswerKept
    <3>2. Shown = [k \in 1 .. size |-> best[k]]
      BY DEF Shown, SearchKept, AnswerKept
    <3> QED
      BY <3>1, <3>2
  <2>2. found = PathsFor(rides, order, query)
    BY <2>1, WalkEnds
  <2>3. /\ Routes(rides) /\ Ranked(rides) /\ query.transfers \in Nat
        /\ query.results \in Nat /\ order \in Orders(DOMAIN rides)
    BY FoundOrdered, OrderFacts DEF SearchKept, Given
  <2>4. Search(rides, order, query) = [k \in 1 .. size |-> S[k]]
    BY <2>1, <2>2, <2>3, SearchAnswer
  <2>5. \A k \in 1 .. n : S[k] = best[k]
    BY <2>1, BestIsSorted
  <2> HIDE DEF n, size, S
  <2>6. \A k \in 1 .. size : k \in 1 .. n
    BY <2>1
  <2> QED
    BY <2>1, <2>4, <2>5, <2>6
<1> QED
  BY <1>1, WalkInvariant, PTL
=============================================================================

---------------------------- MODULE StoreProofs ------------------------------
(***************************************************************************)
(* Proofs about Store for all names, rides, reservations and requests.     *)
(***************************************************************************)
EXTENDS Store, DomainProofs

-----------------------------------------------------------------------------
(***************************************************************************)
(* Maps.                                                                   *)
(***************************************************************************)
-----------------------------------------------------------------------------
(***************************************************************************)
(* Seats as finite sets.                                                   *)
(***************************************************************************)
\* The legs of one reservation over a segment are finitely many.
LEMMA LegsOverFinite ==
  ASSUME NEW legs \in Seq(Leg), NEW r, NEW s
  PROVE  IsFiniteSet(LegsOver(legs, r, s)) /\ Cardinality(LegsOver(legs, r, s)) \in Nat
<1>1. DOMAIN legs = 1 .. Len(legs) /\ Len(legs) \in Nat
  BY LenProperties
<1>2. IsFiniteSet(1 .. Len(legs))
  BY <1>1, FS_Interval
<1>3. LegsOver(legs, r, s) \in SUBSET (1 .. Len(legs))
  BY <1>1 DEF LegsOver
<1> QED
  BY <1>2, <1>3, FS_Subset, FS_CardinalityType

\* The seats of any set of reservations on a segment are finitely many.
LEMMA SeatsFinite ==
  ASSUME NEW rs, IsMap(rs, ResIds, Reservation), NEW S \in SUBSET DOMAIN rs,
         NEW r, NEW s
  PROVE  IsFiniteSet(SeatsOf(rs, S, r, s)) /\ Cardinality(SeatsOf(rs, S, r, s)) \in Nat
<1> DEFINE seats(i) == {i} \X LegsOver(rs[i].legs, r, s)
           T == {seats(i) : i \in S}
           F == [i \in S |-> seats(i)]
<1>1. IsFiniteSet(S)
  BY IdsFinite, FS_Subset DEF IsMap
<1>2. ASSUME NEW i \in S PROVE IsFiniteSet(seats(i))
  <2>1. rs[i].legs \in Seq(Leg)
    BY DEF IsMap, Reservation
  <2>2. IsFiniteSet(LegsOver(rs[i].legs, r, s))
    BY <2>1, LegsOverFinite
  <2> QED
    BY <2>2, FS_Singleton, FS_Product
<1>3. F \in Surjection(S, T)
  <2>1. F \in [S -> T]
    OBVIOUS
  <2>2. \A t \in T : \E i \in S : F[i] = t
    OBVIOUS
  <2> QED
    BY <2>1, <2>2 DEF Surjection
<1>4. IsFiniteSet(T)
  BY <1>1, <1>3, FS_Surjection
<1>5. \A t \in T : IsFiniteSet(t)
  BY <1>2
<1>6. IsFiniteSet(UNION T)
  BY <1>4, <1>5, FS_UNION
<1>7. SeatsOf(rs, S, r, s) = UNION T
  BY DEF SeatsOf
<1> QED
  BY <1>6, <1>7, FS_CardinalityType

\* The seats of two disjoint sets of reservations add up.
LEMMA SeatsAdd ==
  ASSUME NEW rs, IsMap(rs, ResIds, Reservation), NEW S \in SUBSET DOMAIN rs,
         NEW T \in SUBSET DOMAIN rs, S \cap T = {}, NEW r, NEW s
  PROVE  Cardinality(SeatsOf(rs, S \cup T, r, s)) =
           Cardinality(SeatsOf(rs, S, r, s)) + Cardinality(SeatsOf(rs, T, r, s))
<1>1. SeatsOf(rs, S \cup T, r, s) = SeatsOf(rs, S, r, s) \cup SeatsOf(rs, T, r, s)
  BY DEF SeatsOf
<1>2. SeatsOf(rs, S, r, s) \cap SeatsOf(rs, T, r, s) = {}
  BY DEF SeatsOf
<1>3. /\ IsFiniteSet(SeatsOf(rs, S, r, s)) /\ Cardinality(SeatsOf(rs, S, r, s)) \in Nat
      /\ IsFiniteSet(SeatsOf(rs, T, r, s)) /\ Cardinality(SeatsOf(rs, T, r, s)) \in Nat
  BY SeatsFinite
<1>4. Cardinality({}) = 0
  BY FS_EmptySet
<1> DEFINE A == SeatsOf(rs, S, r, s)
           B == SeatsOf(rs, T, r, s)
<1>5. Cardinality(A \cup B) = Cardinality(A) + Cardinality(B) - Cardinality(A \cap B)
  BY <1>3, FS_Union
<1>6. Cardinality(A \cap B) = 0
  BY <1>2, <1>4
<1>7. Cardinality(A) \in Nat /\ Cardinality(B) \in Nat
  BY <1>3
<1>8. Cardinality(A \cup B) = Cardinality(A) + Cardinality(B)
  <2> HIDE DEF A, B
  <2> QED BY <1>5, <1>6, <1>7
<1> QED
  BY <1>1, <1>8

-----------------------------------------------------------------------------
(***************************************************************************)
(* Cancellation.                                                           *)
(***************************************************************************)
\* CancelAll changes nothing but the status of the reservations it is given.
LEMMA CancelAllFacts ==
  ASSUME NEW rs, IsMap(rs, ResIds, Reservation), NEW S \in SUBSET DOMAIN rs
  PROVE  LET rs2 == CancelAll(rs, S)
         IN  /\ IsMap(rs2, ResIds, Reservation)
             /\ DOMAIN rs2 = DOMAIN rs
             /\ Confirmed(rs2) = Confirmed(rs) \ S
             /\ \A i \in DOMAIN rs : /\ rs2[i].legs = rs[i].legs
                                     /\ rs2[i].passenger = rs[i].passenger
                                     /\ rs2[i].requestId = rs[i].requestId
                                     /\ LaterReservation(rs[i], rs2[i])
             /\ \A r, s : RidePassengers(rs2, r, s) = SeatsOf(rs, Confirmed(rs) \ S, r, s)
<1> DEFINE rs2 == CancelAll(rs, S)
<1>1. DOMAIN rs2 = DOMAIN rs
  BY DEF CancelAll
<1>2. ASSUME NEW i \in DOMAIN rs
      PROVE  /\ rs2[i] \in Reservation
             /\ rs2[i].legs = rs[i].legs
             /\ rs2[i].passenger = rs[i].passenger
             /\ rs2[i].requestId = rs[i].requestId
             /\ rs2[i].status = IF i \in S THEN "CANCELLED" ELSE rs[i].status
  <2>1. rs[i] \in Reservation
    BY DEF IsMap
  <2> QED
    BY <2>1 DEF CancelAll, Reservation, ReservationStatuses
<1>3. IsMap(rs2, ResIds, Reservation)
  <2>1. rs2 = [i \in DOMAIN rs2 |-> rs2[i]]
    BY DEF CancelAll
  <2> QED
    BY <1>1, <1>2, <2>1 DEF IsMap
<1>4. Confirmed(rs2) = Confirmed(rs) \ S
  BY <1>1, <1>2 DEF Confirmed
<1>5. \A r, s : RidePassengers(rs2, r, s) = SeatsOf(rs, Confirmed(rs) \ S, r, s)
  BY <1>2, <1>4 DEF RidePassengers, SeatsOf, Confirmed
<1>6. \A i \in DOMAIN rs : LaterReservation(rs[i], rs2[i])
  BY <1>2 DEF LaterReservation
<1> HIDE DEF rs2
<1> QED
  BY <1>1, <1>2, <1>3, <1>4, <1>5, <1>6 DEF rs2

\* GiveSeatsBack changes nothing but free seats, and those only upwards to the
\* capacity.
LEMMA GiveSeatsBackFacts ==
  ASSUME NEW rd, IsMap(rd, RideIds, Ride), NEW rs, IsMap(rs, ResIds, Reservation),
         NEW S \in SUBSET DOMAIN rs
  PROVE  LET rd2 == GiveSeatsBack(rd, rs, S)
         IN  /\ IsMap(rd2, RideIds, Ride)
             /\ DOMAIN rd2 = DOMAIN rd
             /\ \A r \in DOMAIN rd :
                  /\ rd2[r].status = rd[r].status
                  /\ LaterRide(rd[r], rd2[r])
                  /\ DOMAIN rd2[r].avail = DOMAIN rd[r].avail
                  /\ rd[r].status # "ACTIVE" => rd2[r] = rd[r]
                  /\ rd[r].status = "ACTIVE" =>
                       \A s \in DOMAIN rd[r].avail :
                         LET n == rd[r].avail[s] + Cardinality(SeatsOf(rs, S, r, s))
                         IN  rd2[r].avail[s] =
                               IF n <= rd[r].capacity THEN n ELSE rd[r].capacity
<1> DEFINE rd2 == GiveSeatsBack(rd, rs, S)
           give(r) == [s \in DOMAIN rd[r].avail |->
                LET n == rd[r].avail[s] + Cardinality(SeatsOf(rs, S, r, s))
                IN  IF n <= rd[r].capacity THEN n ELSE rd[r].capacity]
<1>1. DOMAIN rd2 = DOMAIN rd
  BY DEF GiveSeatsBack
<1>2. ASSUME NEW r \in DOMAIN rd
      PROVE  give(r) \in Seq(Int) /\ DOMAIN give(r) = DOMAIN rd[r].avail
  <2>1. rd[r].avail \in Seq(Int) /\ rd[r].capacity \in Int
    BY DEF IsMap, Ride
  <2>2. \A s \in DOMAIN rd[r].avail : rd[r].avail[s] \in Int
    BY <2>1, LenProperties, ElementOfSeq
  <2>3. \A s : Cardinality(SeatsOf(rs, S, r, s)) \in Nat
    BY SeatsFinite
  <2>4. give(r) \in [DOMAIN rd[r].avail -> Int]
    BY <2>1, <2>2, <2>3
  <2> QED
    BY <2>1, <2>4, SeqOver
<1>3. ASSUME NEW r \in DOMAIN rd
      PROVE  /\ rd2[r] \in Ride
             /\ LaterRide(rd[r], rd2[r])
             /\ rd2[r].status = rd[r].status
             /\ rd[r].status # "ACTIVE" => rd2[r] = rd[r]
             /\ rd[r].status = "ACTIVE" => rd2[r].avail = give(r)
  <2>1. rd[r] \in Ride
    BY DEF IsMap
  <2>2. rd2[r] = IF rd[r].status = "ACTIVE" THEN [rd[r] EXCEPT !.avail = give(r)] ELSE rd[r]
    BY DEF GiveSeatsBack
  <2> HIDE DEF give, rd2
  <2>3. CASE rd[r].status = "ACTIVE"
    <3>1. rd2[r] = [rd[r] EXCEPT !.avail = give(r)] /\ give(r) \in Seq(Int)
      BY <1>2, <2>2, <2>3
    <3>2. rd2[r] \in Ride /\ rd2[r].avail = give(r) /\ rd2[r].status = rd[r].status
      BY <2>1, <3>1 DEF Ride
    <3> QED
      BY <2>1, <2>3, <3>1, <3>2 DEF Ride, LaterRide
  <2>4. CASE rd[r].status # "ACTIVE"
    BY <2>1, <2>2, <2>4 DEF LaterRide
  <2> QED
    BY <2>3, <2>4
<1>4. IsMap(rd2, RideIds, Ride)
  <2>1. rd2 = [r \in DOMAIN rd2 |-> rd2[r]]
    BY DEF GiveSeatsBack
  <2> HIDE DEF rd2, give
  <2>2. \A r \in DOMAIN rd : rd2[r] \in Ride
    BY <1>3
  <2>3. DOMAIN rd2 \in SUBSET RideIds
    BY <1>1 DEF IsMap
  <2> QED
    BY <1>1, <2>1, <2>2, <2>3 DEF IsMap
<1>5. \A r \in DOMAIN rd : DOMAIN rd2[r].avail = DOMAIN rd[r].avail
  BY <1>2, <1>3
<1>6. ASSUME NEW r \in DOMAIN rd, rd[r].status = "ACTIVE", NEW s \in DOMAIN rd[r].avail
      PROVE  LET n == rd[r].avail[s] + Cardinality(SeatsOf(rs, S, r, s))
             IN  rd2[r].avail[s] = IF n <= rd[r].capacity THEN n ELSE rd[r].capacity
  <2>1. rd2[r].avail = give(r)
    BY <1>3, <1>6
  <2> HIDE DEF rd2
  <2> QED
    BY <1>6, <2>1
<1> HIDE DEF give
<1> QED
  BY <1>1, <1>3, <1>4, <1>5, <1>6

\* Taking confirmed reservations off a sound state, and giving their seats
\* back, leaves a sound state if nobody stays on a cancelled ride.
LEMMA CancelSound ==
  ASSUME NEW rd, IsMap(rd, RideIds, Ride), NEW rs, IsMap(rs, ResIds, Reservation),
         NEW S \in SUBSET Confirmed(rs),
         Conserved(rd, rs), Bounded(rd), OncePerRequest(rs),
         NobodyOnCancelledRide(rd, CancelAll(rs, S))
  PROVE  Sound(GiveSeatsBack(rd, rs, S), CancelAll(rs, S))
<1> DEFINE rd2 == GiveSeatsBack(rd, rs, S)
           rs2 == CancelAll(rs, S)
<1>0. S \in SUBSET DOMAIN rs
  BY DEF Confirmed
<1>a. /\ DOMAIN rs2 = DOMAIN rs
      /\ Confirmed(rs2) = Confirmed(rs) \ S
      /\ \A i \in DOMAIN rs : /\ rs2[i].passenger = rs[i].passenger
                              /\ rs2[i].requestId = rs[i].requestId
      /\ \A r, s : RidePassengers(rs2, r, s) = SeatsOf(rs, Confirmed(rs) \ S, r, s)
  BY <1>0, CancelAllFacts
<1>b. /\ DOMAIN rd2 = DOMAIN rd
      /\ \A r \in DOMAIN rd :
           /\ rd2[r].status = rd[r].status
           /\ rd2[r].capacity = rd[r].capacity
           /\ DOMAIN rd2[r].avail = DOMAIN rd[r].avail
           /\ rd[r].status # "ACTIVE" => rd2[r] = rd[r]
           /\ rd[r].status = "ACTIVE" =>
                \A s \in DOMAIN rd[r].avail :
                  LET n == rd[r].avail[s] + Cardinality(SeatsOf(rs, S, r, s))
                  IN  rd2[r].avail[s] =
                        IF n <= rd[r].capacity THEN n ELSE rd[r].capacity
  BY <1>0, GiveSeatsBackFacts DEF LaterRide
<1>c. ASSUME NEW r \in DOMAIN rd, NEW s \in DOMAIN rd[r].avail
      PROVE  rd[r].avail[s] \in Int /\ rd[r].capacity \in Nat
  <2>1. rd[r].avail \in Seq(Int) /\ rd[r].capacity \in Nat
    BY DEF IsMap, Ride
  <2> QED
    BY <2>1, LenProperties, ElementOfSeq
<1>d. ASSUME NEW r, NEW s
      PROVE  /\ Cardinality(RidePassengers(rs, r, s)) =
                  Cardinality(SeatsOf(rs, S, r, s)) + Cardinality(RidePassengers(rs2, r, s))
             /\ Cardinality(SeatsOf(rs, S, r, s)) \in Nat
             /\ Cardinality(RidePassengers(rs2, r, s)) \in Nat
  <2>1. Confirmed(rs) \ S \in SUBSET DOMAIN rs
    BY DEF Confirmed
  <2>2. S \cap (Confirmed(rs) \ S) = {} /\ S \cup (Confirmed(rs) \ S) = Confirmed(rs)
    OBVIOUS
  <2>3. Cardinality(SeatsOf(rs, S \cup (Confirmed(rs) \ S), r, s)) =
          Cardinality(SeatsOf(rs, S, r, s))
            + Cardinality(SeatsOf(rs, Confirmed(rs) \ S, r, s))
    BY <1>0, <2>1, <2>2, SeatsAdd
  <2>4. /\ Cardinality(SeatsOf(rs, S, r, s)) \in Nat
        /\ Cardinality(SeatsOf(rs, Confirmed(rs) \ S, r, s)) \in Nat
    BY <1>0, <2>1, SeatsFinite
  <2> QED
    BY <1>a, <2>2, <2>3, <2>4 DEF RidePassengers
<1> HIDE DEF rd2, rs2
<1>1. Conserved(rd2, rs2)
  <2> SUFFICES ASSUME NEW r \in DOMAIN rd2, rd2[r].status = "ACTIVE",
                      NEW s \in DOMAIN rd2[r].avail
               PROVE  rd2[r].avail[s] + Cardinality(RidePassengers(rs2, r, s))
                        = rd2[r].capacity
    BY DEF Conserved
  <2>1. r \in DOMAIN rd /\ rd[r].status = "ACTIVE" /\ s \in DOMAIN rd[r].avail
    BY <1>b
  <2> DEFINE all == Cardinality(RidePassengers(rs, r, s))
             back == Cardinality(SeatsOf(rs, S, r, s))
             stay == Cardinality(RidePassengers(rs2, r, s))
  <2>2. rd[r].avail[s] + all = rd[r].capacity
    BY <2>1 DEF Conserved
  <2>3. all = back + stay /\ back \in Nat /\ stay \in Nat
    BY <1>d
  <2>4. /\ rd2[r].avail[s] = IF rd[r].avail[s] + back <= rd[r].capacity
                             THEN rd[r].avail[s] + back ELSE rd[r].capacity
        /\ rd2[r].capacity = rd[r].capacity
    BY <1>b, <2>1
  <2>5. rd[r].avail[s] \in Int /\ rd[r].capacity \in Nat
    BY <1>c, <2>1
  <2> HIDE DEF all, back, stay
  <2>6. rd2[r].avail[s] + stay = rd2[r].capacity
    BY <2>2, <2>3, <2>4, <2>5
  <2> QED
    BY <2>6 DEF stay
<1>2. Bounded(rd2)
  <2> SUFFICES ASSUME NEW r \in DOMAIN rd2, NEW s \in DOMAIN rd2[r].avail
               PROVE  0 <= rd2[r].avail[s] /\ rd2[r].avail[s] <= rd2[r].capacity
    BY DEF Bounded
  <2>1. r \in DOMAIN rd /\ s \in DOMAIN rd[r].avail
    BY <1>b
  <2> DEFINE back == Cardinality(SeatsOf(rs, S, r, s))
  <2>2. back \in Nat
    BY <1>d
  <2>3. 0 <= rd[r].avail[s] /\ rd[r].avail[s] <= rd[r].capacity
    BY <2>1 DEF Bounded
  <2>4. rd[r].avail[s] \in Int /\ rd[r].capacity \in Nat
    BY <1>c, <2>1
  <2>5. CASE rd[r].status = "ACTIVE"
    <3>1. rd2[r].avail[s] = IF rd[r].avail[s] + back <= rd[r].capacity
                            THEN rd[r].avail[s] + back ELSE rd[r].capacity
      BY <1>b, <2>1, <2>5
    <3>2. rd2[r].capacity = rd[r].capacity
      BY <1>b, <2>1
    <3> HIDE DEF back
    <3> QED
      BY <2>2, <2>3, <2>4, <3>1, <3>2
  <2>6. CASE rd[r].status # "ACTIVE"
    BY <1>b, <2>1, <2>3, <2>6
  <2> QED
    BY <2>5, <2>6
<1>3. NobodyOnCancelledRide(rd2, rs2)
  <2>1. NobodyOnCancelledRide(rd, rs2)
    BY DEF rs2
  <2> QED
    BY <1>b, <2>1 DEF NobodyOnCancelledRide
<1>4. OncePerRequest(rs2)
  BY <1>a DEF OncePerRequest
<1> QED
  BY <1>1, <1>2, <1>3, <1>4 DEF Sound, rd2, rs2

-----------------------------------------------------------------------------
(***************************************************************************)
(* Confirmation.                                                           *)
(***************************************************************************)
\* What planConfirmLocked grants a leg: an active ride with a free seat on
\* every segment, none of which an earlier leg of the request uses.
LEMMA LegGranted ==
  ASSUME NEW inputs \in Seq(LegInput), PlanOK(inputs), NEW i \in DOMAIN inputs
  PROVE  /\ inputs[i].ride \in DOMAIN rides
         /\ rides[inputs[i].ride].status = "ACTIVE"
         /\ \A s \in LegSegments(inputs[i]) :
              s \notin Seen(inputs, i) /\ ~ (rides[inputs[i].ride].avail[s] < 1)
<1>1. LegError(inputs, i) = "OK"
  BY DEF PlanOK
<1>2. /\ inputs[i].ride \in DOMAIN rides
      /\ rides[inputs[i].ride].status = "ACTIVE"
      /\ Refused(inputs, i) = {}
  BY <1>1 DEF LegError
<1> QED
  BY <1>2 DEF Refused

\* The legs of a granted request are typed.
LEMMA PlannedLegsType ==
  ASSUME NEW inputs \in Seq(LegInput), IsMap(rides, RideIds, Ride)
  PROVE  PlannedLegs(inputs) \in Seq(Leg)
<1>2. DOMAIN inputs = 1 .. Len(inputs) /\ Len(inputs) \in Nat
  BY LenProperties
<1>3. ASSUME NEW i \in DOMAIN inputs
      PROVE  [ride |-> inputs[i].ride, segs |-> LegSegments(inputs[i])] \in Leg
  <2>1. inputs[i] \in LegInput
    BY <1>2, <1>3, ElementOfSeq
  <2>2. ASSUME inputs[i].ride \in DOMAIN rides
        PROVE  LegSegments(inputs[i]) \in SUBSET Nat
    <3>1. rides[inputs[i].ride].cities \in Seq(Cities)
      BY <2>2 DEF IsMap, Ride
    <3> DEFINE cities == rides[inputs[i].ride].cities
               oi == CityIndex(cities, inputs[i].origin)
               di == CityIndex(cities, inputs[i].destination)
    <3>2. oi \in 0 .. Len(cities) /\ di \in 0 .. Len(cities) /\ Len(cities) \in Nat
      BY <3>1, CityIndexType, LenProperties
    <3>3. LegSegments(inputs[i]) = IF oi > 0 /\ di > 0 THEN oi .. (di - 1) ELSE {}
      BY <2>2 DEF LegSegments, SegmentIndexesBetween
    <3> HIDE DEF oi, di
    <3> QED
      BY <3>2, <3>3
  <2>3. LegSegments(inputs[i]) \in SUBSET Nat
    BY <2>2 DEF LegSegments
  <2> QED
    BY <2>1, <2>3 DEF LegInput, Leg
<1>4. PlannedLegs(inputs) \in [DOMAIN inputs -> Leg]
  BY <1>3 DEF PlannedLegs
<1> QED
  BY <1>4, SeqOver

\* A granted request takes at most one seat of any segment, and only where
\* there is one.
LEMMA OneSeatPerSegment ==
  ASSUME NEW inputs \in Seq(LegInput), PlanOK(inputs), IsMap(rides, RideIds, Ride),
         NEW r \in DOMAIN rides, NEW s \in DOMAIN rides[r].avail
  PROVE  LET n == Cardinality(LegsOver(PlannedLegs(inputs), r, s))
         IN  n = 0 \/ (n = 1 /\ ~ (rides[r].avail[s] < 1))
<1> DEFINE legs == PlannedLegs(inputs)
           K == LegsOver(legs, r, s)
<1>1. DOMAIN inputs = 1 .. Len(inputs) /\ Len(inputs) \in Nat
  BY LenProperties
<1>2. /\ DOMAIN legs = DOMAIN inputs
      /\ \A k \in DOMAIN inputs : /\ legs[k].ride = inputs[k].ride
                                  /\ legs[k].segs = LegSegments(inputs[k])
  BY DEF PlannedLegs
<1>3. \A k \in K : k \in DOMAIN inputs /\ inputs[k].ride = r /\ s \in LegSegments(inputs[k])
  BY <1>2 DEF LegsOver
<1>4. ASSUME NEW k \in K, NEW l \in K, k < l PROVE FALSE
  <2>1. k \in 1 .. (l - 1) /\ inputs[k].ride = inputs[l].ride
    BY <1>1, <1>3, <1>4
  <2>2. s \in Seen(inputs, l)
    BY <1>3, <2>1 DEF Seen
  <2> QED
    BY <1>3, <2>2, LegGranted
<1>5. CASE K = {}
  BY <1>5, FS_EmptySet
<1>6. CASE K # {}
  <2>1. PICK k \in K : TRUE
    BY <1>6
  <2>2. \A l \in K : l = k
    BY <1>1, <1>3, <1>4
  <2>3. K = {k}
    BY <2>2
  <2>4. Cardinality(K) = 1
    BY <2>3, FS_Singleton
  <2>5. ~ (rides[r].avail[s] < 1)
    BY <1>3, LegGranted
  <2> QED
    BY <2>4, <2>5
<1> QED
  BY <1>5, <1>6

\* TakeSeats changes nothing but free seats.
LEMMA TakeSeatsFacts ==
  ASSUME IsMap(rides, RideIds, Ride), NEW legs \in Seq(Leg)
  PROVE  LET rd2 == TakeSeats(legs)
         IN  /\ IsMap(rd2, RideIds, Ride)
             /\ DOMAIN rd2 = DOMAIN rides
             /\ \A r \in DOMAIN rides :
                  /\ LaterRide(rides[r], rd2[r])
                  /\ rd2[r].status = rides[r].status
                  /\ DOMAIN rd2[r].avail = DOMAIN rides[r].avail
                  /\ \A s \in DOMAIN rides[r].avail :
                       rd2[r].avail[s] =
                         rides[r].avail[s] - Cardinality(LegsOver(legs, r, s))
<1> DEFINE rd2 == TakeSeats(legs)
           take(r) == [s \in DOMAIN rides[r].avail |->
                         rides[r].avail[s] - Cardinality(LegsOver(legs, r, s))]
<1>1. DOMAIN rd2 = DOMAIN rides
  BY DEF TakeSeats
<1>2. ASSUME NEW r \in DOMAIN rides
      PROVE  take(r) \in Seq(Int) /\ DOMAIN take(r) = DOMAIN rides[r].avail
  <2>1. rides[r].avail \in Seq(Int)
    BY DEF IsMap, Ride
  <2>2. \A s \in DOMAIN rides[r].avail : rides[r].avail[s] \in Int
    BY <2>1, LenProperties, ElementOfSeq
  <2>3. \A s : Cardinality(LegsOver(legs, r, s)) \in Nat
    BY LegsOverFinite
  <2>4. take(r) \in [DOMAIN rides[r].avail -> Int]
    BY <2>2, <2>3
  <2> QED
    BY <2>1, <2>4, SeqOver
<1>3. ASSUME NEW r \in DOMAIN rides
      PROVE  /\ rd2[r] \in Ride
             /\ LaterRide(rides[r], rd2[r])
             /\ rd2[r].status = rides[r].status
             /\ rd2[r].avail = take(r)
  <2>1. rides[r] \in Ride
    BY DEF IsMap
  <2>2. rd2[r] = [rides[r] EXCEPT !.avail = take(r)]
    BY DEF TakeSeats
  <2> HIDE DEF take, rd2
  <2> QED
    BY <1>2, <2>1, <2>2 DEF Ride, LaterRide
<1>4. IsMap(rd2, RideIds, Ride)
  <2>1. rd2 = [r \in DOMAIN rd2 |-> rd2[r]]
    BY DEF TakeSeats
  <2> HIDE DEF rd2
  <2> QED
    BY <1>1, <1>3, <2>1 DEF IsMap
<1>5. \A r \in DOMAIN rides : DOMAIN rd2[r].avail = DOMAIN rides[r].avail
  BY <1>2, <1>3
<1>6. \A r \in DOMAIN rides : \A s \in DOMAIN rides[r].avail : rd2[r].avail[s] = take(r)[s]
  BY <1>3
<1> QED
  BY <1>1, <1>3, <1>4, <1>5, <1>6

\* The driver sees the new passenger where a leg of the reservation covers the
\* segment, and everybody else as before.
LEMMA BookedSeats ==
  ASSUME NEW rs, IsMap(rs, ResIds, Reservation), NEW id \in ResIds \ DOMAIN rs,
         NEW res \in Reservation, res.status = "CONFIRMED", NEW r, NEW s
  PROVE  /\ Cardinality(RidePassengers(Put(rs, id, res), r, s)) =
              Cardinality(RidePassengers(rs, r, s))
                + Cardinality(LegsOver(res.legs, r, s))
         /\ Cardinality(RidePassengers(rs, r, s)) \in Nat
         /\ Cardinality(LegsOver(res.legs, r, s)) \in Nat
<1> DEFINE rs2 == Put(rs, id, res)
           old == RidePassengers(rs, r, s)
           new == {id} \X LegsOver(res.legs, r, s)
<1>1. /\ DOMAIN rs2 = DOMAIN rs \cup {id}
      /\ rs2[id] = res
      /\ \A i \in DOMAIN rs : rs2[i] = rs[i]
  BY DEF Put
<1>2. Confirmed(rs2) = Confirmed(rs) \cup {id}
  BY <1>1 DEF Confirmed
<1>3. RidePassengers(rs2, r, s) = old \cup new
  BY <1>1, <1>2 DEF RidePassengers, SeatsOf, Confirmed
<1>4. old \cap new = {}
  BY DEF RidePassengers, SeatsOf, Confirmed
<1>5. IsFiniteSet(old) /\ Cardinality(old) \in Nat
  <2>1. Confirmed(rs) \in SUBSET DOMAIN rs
    BY DEF Confirmed
  <2> QED
    BY <2>1, SeatsFinite DEF RidePassengers
<1>6. /\ IsFiniteSet(LegsOver(res.legs, r, s))
      /\ Cardinality(LegsOver(res.legs, r, s)) \in Nat
  BY LegsOverFinite DEF Reservation
<1>7. /\ IsFiniteSet({id}) /\ Cardinality({id}) = 1
  BY FS_Singleton
<1>8. /\ IsFiniteSet(new)
      /\ Cardinality(new) = Cardinality({id}) * Cardinality(LegsOver(res.legs, r, s))
  BY <1>6, <1>7, FS_Product
<1>9. Cardinality(new) = Cardinality(LegsOver(res.legs, r, s))
  BY <1>6, <1>7, <1>8
<1>10. Cardinality(old \cup new) =
         Cardinality(old) + Cardinality(new) - Cardinality(old \cap new)
  BY <1>5, <1>8, FS_Union
<1>11. Cardinality(old \cap new) = 0
  BY <1>4, FS_EmptySet
<1>12. Cardinality(old \cup new) = Cardinality(old) + Cardinality(LegsOver(res.legs, r, s))
  <2> HIDE DEF old, new
  <2> QED BY <1>5, <1>6, <1>9, <1>10, <1>11
<1> QED
  BY <1>3, <1>5, <1>6, <1>12

\* Booking a granted request keeps a sound state sound.
LEMMA BookSound ==
  ASSUME IsMap(rides, RideIds, Ride), IsMap(reservations, ResIds, Reservation),
         Sound(rides, reservations),
         NEW inputs \in Seq(LegInput), PlanOK(inputs),
         NEW id \in ResIds \ DOMAIN reservations,
         NEW res \in Reservation, res.status = "CONFIRMED",
         res.legs = PlannedLegs(inputs),
         res.requestId # None =>
           ~ \E i \in DOMAIN reservations :
               /\ reservations[i].passenger = res.passenger
               /\ reservations[i].requestId = res.requestId
  PROVE  Sound(TakeSeats(PlannedLegs(inputs)), Put(reservations, id, res))
<1> DEFINE legs == PlannedLegs(inputs)
           rd2 == TakeSeats(legs)
           rs2 == Put(reservations, id, res)
<1>0. legs \in Seq(Leg)
  BY PlannedLegsType
<1>a. /\ DOMAIN rs2 = DOMAIN reservations \cup {id}
      /\ rs2[id] = res
      /\ \A i \in DOMAIN reservations : rs2[i] = reservations[i]
  BY DEF Put
<1>b. /\ DOMAIN rd2 = DOMAIN rides
      /\ \A r \in DOMAIN rides :
           /\ rd2[r].capacity = rides[r].capacity
           /\ rd2[r].status = rides[r].status
           /\ DOMAIN rd2[r].avail = DOMAIN rides[r].avail
           /\ \A s \in DOMAIN rides[r].avail :
                rd2[r].avail[s] = rides[r].avail[s] - Cardinality(LegsOver(legs, r, s))
  BY <1>0, TakeSeatsFacts DEF LaterRide
<1>c. ASSUME NEW r \in DOMAIN rides, NEW s \in DOMAIN rides[r].avail
      PROVE  rides[r].avail[s] \in Int /\ rides[r].capacity \in Nat
  <2>1. rides[r].avail \in Seq(Int) /\ rides[r].capacity \in Nat
    BY DEF IsMap, Ride
  <2> QED
    BY <2>1, LenProperties, ElementOfSeq
<1> HIDE DEF rd2, rs2
<1>1. Conserved(rd2, rs2)
  <2> SUFFICES ASSUME NEW r \in DOMAIN rd2, rd2[r].status = "ACTIVE",
                      NEW s \in DOMAIN rd2[r].avail
               PROVE  rd2[r].avail[s] + Cardinality(RidePassengers(rs2, r, s))
                        = rd2[r].capacity
    BY DEF Conserved
  <2> DEFINE before == Cardinality(RidePassengers(reservations, r, s))
             now == Cardinality(RidePassengers(rs2, r, s))
             taken == Cardinality(LegsOver(legs, r, s))
  <2>1. r \in DOMAIN rides /\ rides[r].status = "ACTIVE" /\ s \in DOMAIN rides[r].avail
    BY <1>b
  <2>2. rides[r].avail[s] + before = rides[r].capacity
    BY <2>1 DEF Sound, Conserved
  <2>3. now = before + taken /\ before \in Nat /\ taken \in Nat
    BY BookedSeats DEF rs2
  <2>4. rd2[r].avail[s] = rides[r].avail[s] - taken /\ rd2[r].capacity = rides[r].capacity
    BY <1>b, <2>1
  <2>5. rides[r].avail[s] \in Int /\ rides[r].capacity \in Nat
    BY <1>c, <2>1
  <2> HIDE DEF before, now, taken
  <2>6. rd2[r].avail[s] + now = rd2[r].capacity
    BY <2>2, <2>3, <2>4, <2>5
  <2> QED
    BY <2>6 DEF now
<1>2. Bounded(rd2)
  <2> SUFFICES ASSUME NEW r \in DOMAIN rd2, NEW s \in DOMAIN rd2[r].avail
               PROVE  0 <= rd2[r].avail[s] /\ rd2[r].avail[s] <= rd2[r].capacity
    BY DEF Bounded
  <2> DEFINE taken == Cardinality(LegsOver(legs, r, s))
  <2>1. r \in DOMAIN rides /\ s \in DOMAIN rides[r].avail
    BY <1>b
  <2>2. taken = 0 \/ (taken = 1 /\ ~ (rides[r].avail[s] < 1))
    BY <2>1, OneSeatPerSegment
  <2>3. 0 <= rides[r].avail[s] /\ rides[r].avail[s] <= rides[r].capacity
    BY <2>1 DEF Sound, Bounded
  <2>4. rd2[r].avail[s] = rides[r].avail[s] - taken /\ rd2[r].capacity = rides[r].capacity
    BY <1>b, <2>1
  <2>5. rides[r].avail[s] \in Int /\ rides[r].capacity \in Nat
    BY <1>c, <2>1
  <2> HIDE DEF taken
  <2> QED
    BY <2>2, <2>3, <2>4, <2>5
<1>3. NobodyOnCancelledRide(rd2, rs2)
  <2> SUFFICES ASSUME NEW i \in Confirmed(rs2), NEW k \in DOMAIN rs2[i].legs
               PROVE  /\ rs2[i].legs[k].ride \in DOMAIN rd2
                      /\ rd2[rs2[i].legs[k].ride].status = "ACTIVE"
    BY DEF NobodyOnCancelledRide
  <2>1. CASE i = id
    <3>1. DOMAIN legs = DOMAIN inputs /\ \A l \in DOMAIN inputs : legs[l].ride = inputs[l].ride
      BY DEF PlannedLegs
    <3>2. k \in DOMAIN inputs /\ rs2[i].legs[k].ride = inputs[k].ride
      BY <1>a, <2>1, <3>1
    <3> QED
      BY <1>b, <3>2, LegGranted
  <2>2. CASE i # id
    <3>1. i \in Confirmed(reservations) /\ rs2[i] = reservations[i]
      BY <1>a, <2>2 DEF Confirmed
    <3> QED
      BY <1>b, <3>1 DEF Sound, NobodyOnCancelledRide
  <2> QED
    BY <2>1, <2>2
<1>4. OncePerRequest(rs2)
  BY <1>a DEF Sound, OncePerRequest
<1> QED
  BY <1>1, <1>2, <1>3, <1>4 DEF Sound, rd2, rs2

-----------------------------------------------------------------------------
(***************************************************************************)
(* The inductive invariant, in the parts a step may disturb on its own.    *)
(***************************************************************************)
Ids == Names \cup RideIds \cup ResIds \cup {None}

MemoryOK ==
  /\ StateOK(users, rides, reservations)
  /\ IsMap(confirmIndex, Names \X RequestIds, ResIds)
  /\ Sound(rides, reservations)
  /\ IndexExact

FileOK ==
  /\ DOMAIN disk = {"exists", "users", "rides", "reservations"}
  /\ disk.exists \in BOOLEAN
  /\ ~disk.exists => disk.users = EmptyMap
  /\ StateOK(disk.users, disk.rides, disk.reservations)
  /\ Sound(disk.rides, disk.reservations)

ReplyOK == reply \in [op : Operations, code : Codes, id : Ids]

\* The parts make up the invariant.
LEMMA Parts ==
  IInv <=> /\ up \in BOOLEAN
           /\ MemoryOK
           /\ FileOK
           /\ ReplyOK
           /\ CrashLosesOnlyCancellations
           /\ CreationPersisted
BY DEF IInv, TypeOK, MemoryOK, FileOK, ReplyOK, Ids

\* The same of the next state.
LEMMA PartsNext ==
  IInv' <=> /\ up' \in BOOLEAN
            /\ MemoryOK'
            /\ FileOK'
            /\ ReplyOK'
            /\ CrashLosesOnlyCancellations'
            /\ CreationPersisted'
BY DEF IInv, TypeOK, MemoryOK, FileOK, ReplyOK, Ids

\* Nothing is wrong with a state that holds nothing.
LEMMA EmptySound == Sound(EmptyMap, EmptyMap)
BY DEF Sound, Conserved, Bounded, NobodyOnCancelledRide, OncePerRequest, Confirmed, EmptyMap

\* An early return keeps the invariant, if an OK of the calls that create
\* something names what is in the file.
LEMMA ReturnStep ==
  ASSUME IInv, NEW op \in Operations, NEW code \in Codes, NEW id \in Ids,
         Return(op, code, id),
         code = "OK" => /\ op = "Register" => id \in DOMAIN disk.users
                        /\ op = "PublishRide" => id \in DOMAIN disk.rides
                        /\ op = "ConfirmReservation" => id \in DOMAIN disk.reservations
  PROVE  IInv'
<1>1. /\ UNCHANGED <<up, users, rides, reservations, confirmIndex, disk>>
      /\ reply' = [op |-> op, code |-> code, id |-> id]
  BY DEF Return, Answer, memory
<1>2. MemoryOK' /\ FileOK' /\ (up \in BOOLEAN)'
  BY <1>1, Parts DEF MemoryOK, FileOK, IndexExact
<1>3. ReplyOK'
  BY <1>1 DEF ReplyOK
<1>4. CrashLosesOnlyCancellations'
  BY <1>1, Parts DEF CrashLosesOnlyCancellations
<1>5. CreationPersisted'
  BY <1>1 DEF CreationPersisted
<1> QED
  BY <1>2, <1>3, <1>4, <1>5, PartsNext

\* A write that succeeds makes the file as good as the memory.
LEMMA SaveStep ==
  ASSUME MemoryOK', persistLocked
  PROVE  FileOK' /\ CrashLosesOnlyCancellations'
<1>1. disk' = [exists |-> TRUE, users |-> users', rides |-> rides',
               reservations |-> reservations']
  BY DEF persistLocked
<1>2. StateOK(users', rides', reservations') /\ Sound(rides', reservations')
  BY DEF MemoryOK
<1>3. FileOK'
  BY <1>1, <1>2 DEF FileOK
<1>4. CrashLosesOnlyCancellations'
  BY <1>1 DEF CrashLosesOnlyCancellations, Extends, LaterRide, LaterReservation
<1> QED
  BY <1>3, <1>4

\* A created thing is answered with OK once it is in the file.
LEMMA CreatedStep ==
  ASSUME MemoryOK', up' = TRUE, persistLocked,
         NEW op \in {"Register", "PublishRide", "ConfirmReservation"}, NEW id \in Ids,
         Answer(op, "OK", id),
         op = "Register" => id \in DOMAIN users',
         op = "PublishRide" => id \in DOMAIN rides',
         op = "ConfirmReservation" => id \in DOMAIN reservations'
  PROVE  IInv'
<1>1. FileOK' /\ CrashLosesOnlyCancellations'
  BY SaveStep
<1>2. reply' = [op |-> op, code |-> "OK", id |-> id]
  BY DEF Answer
<1>3. ReplyOK'
  BY <1>2 DEF ReplyOK, Operations, Codes
<1>4. CreationPersisted'
  BY <1>2 DEF CreationPersisted, persistLocked
<1>5. (up \in BOOLEAN)'
  OBVIOUS
<1> QED
  BY <1>1, <1>3, <1>4, <1>5, PartsNext

-----------------------------------------------------------------------------
(***************************************************************************)
(* The actions.                                                            *)
(***************************************************************************)
\* The index rebuilt from a file is exact, because no key in it is ambiguous.
LEMMA RebuildExact ==
  ASSUME NEW rs, IsMap(rs, ResIds, Reservation), OncePerRequest(rs)
  PROVE  LET idx == rebuildIndexesLocked(rs)
         IN  /\ IsMap(idx, Names \X RequestIds, ResIds)
             /\ \A i \in DOMAIN rs :
                  rs[i].requestId # None =>
                    /\ <<rs[i].passenger, rs[i].requestId>> \in DOMAIN idx
                    /\ idx[<<rs[i].passenger, rs[i].requestId>>] = i
             /\ \A key \in DOMAIN idx :
                  /\ idx[key] \in DOMAIN rs
                  /\ key = <<rs[idx[key]].passenger, rs[idx[key]].requestId>>
<1> DEFINE idx == rebuildIndexesLocked(rs)
           keyed == {i \in DOMAIN rs : rs[i].requestId # None}
           keyOf(i) == <<rs[i].passenger, rs[i].requestId>>
<1>1. idx = [key \in {keyOf(i) : i \in keyed} |-> CHOOSE i \in keyed : keyOf(i) = key]
  BY DEF rebuildIndexesLocked
<1>2. \A i \in keyed : i \in ResIds /\ keyOf(i) \in Names \X RequestIds
  BY DEF IsMap, Reservation
<1>3. \A i, j \in keyed : keyOf(i) = keyOf(j) => i = j
  BY DEF OncePerRequest
<1> HIDE DEF idx, keyed, keyOf
<1>4. ASSUME NEW key \in DOMAIN idx PROVE idx[key] \in keyed /\ keyOf(idx[key]) = key
  <2>1. key \in {keyOf(i) : i \in keyed} /\ idx[key] = CHOOSE i \in keyed : keyOf(i) = key
    BY <1>1
  <2> QED
    BY <2>1
<1>5. \A i \in keyed : keyOf(i) \in DOMAIN idx /\ idx[keyOf(i)] = i
  <2> TAKE i \in keyed
  <2>1. keyOf(i) \in DOMAIN idx
    BY <1>1
  <2> QED
    BY <1>3, <1>4, <2>1
<1>6. IsMap(idx, Names \X RequestIds, ResIds)
  BY <1>1, <1>2, <1>4 DEF IsMap
<1>7. \A i \in DOMAIN rs :
        rs[i].requestId # None =>
          /\ <<rs[i].passenger, rs[i].requestId>> \in DOMAIN idx
          /\ idx[<<rs[i].passenger, rs[i].requestId>>] = i
  BY <1>5 DEF keyed, keyOf
<1>8. \A key \in DOMAIN idx :
        /\ idx[key] \in DOMAIN rs
        /\ key = <<rs[idx[key]].passenger, rs[idx[key]].requestId>>
  BY <1>4 DEF keyed, keyOf
<1> QED
  BY <1>6, <1>7, <1>8 DEF idx

\* Starting the process keeps the invariant, whether it loads, seeds or fails.
LEMMA NewStep ==
  ASSUME IInv, New
  PROVE  IInv'
<1>1. CASE Return("New", "INTERNAL", None)
  BY <1>1, ReturnStep DEF Operations, Codes, Ids
<1>2. CASE /\ up' = TRUE
           /\ users' = IF disk.users = EmptyMap THEN SeedUsers ELSE disk.users
           /\ rides' = disk.rides
           /\ reservations' = disk.reservations
           /\ confirmIndex' = rebuildIndexesLocked(disk.reservations)
           /\ IF disk.users = EmptyMap THEN persistLocked ELSE UNCHANGED disk
           /\ Answer("New", "OK", None)
  <2>1. FileOK /\ MemoryOK
    BY Parts
  <2>2. IsMap(users', Names, Roles)
    BY <1>2, <2>1, SeedUsersType DEF FileOK, StateOK
  <2>3. /\ IsMap(confirmIndex', Names \X RequestIds, ResIds)
        /\ IndexExact'
    BY <1>2, <2>1, RebuildExact DEF FileOK, StateOK, Sound, IndexExact
  <2>4. MemoryOK'
    BY <1>2, <2>1, <2>2, <2>3 DEF MemoryOK, FileOK, StateOK
  <2>5. FileOK' /\ CrashLosesOnlyCancellations'
    <3>1. CASE disk.users = EmptyMap
      BY <1>2, <2>4, <3>1, SaveStep
    <3>2. CASE disk.users # EmptyMap
      <4>1. UNCHANGED disk
        BY <1>2, <3>2
      <4>2. FileOK'
        BY <2>1, <4>1 DEF FileOK
      <4>3. CrashLosesOnlyCancellations'
        BY <1>2, <2>1, <3>2, <4>1
        DEF FileOK, CrashLosesOnlyCancellations, Extends, LaterRide, LaterReservation
      <4> QED
        BY <4>2, <4>3
    <3> QED
      BY <3>1, <3>2
  <2>6. ReplyOK' /\ CreationPersisted'
    BY <1>2 DEF Answer, ReplyOK, CreationPersisted, Operations, Codes, Ids
  <2> QED
    BY <1>2, <2>4, <2>5, <2>6, PartsNext
<1> QED
  BY <1>1, <1>2 DEF New

\* So does stopping it.
LEMMA CrashStep ==
  ASSUME IInv, Crash
  PROVE  IInv'
<1>1. MemoryOK'
  BY EmptySound, EmptyMapType DEF Crash, MemoryOK, StateOK, IndexExact
<1> QED
  BY <1>1, Parts, PartsNext
  DEF Crash, FileOK, ReplyOK, CrashLosesOnlyCancellations, CreationPersisted

\* So does a registration, in each of its outcomes.
LEMMA RegisterStep ==
  ASSUME IInv, NEW req \in RegisterRequests, Register(req)
  PROVE  IInv'
<1>1. CASE Return("Register", RegisterError(req), None) /\ RegisterError(req) # "OK"
  BY <1>1, ReturnStep DEF Operations, Codes, Ids, RegisterError
<1>2. CASE Return("Register", "INTERNAL", None)
  BY <1>2, ReturnStep DEF Operations, Codes, Ids
<1>3. CASE /\ RegisterError(req) = "OK"
           /\ users' = Put(users, req.name, req.role)
           /\ UNCHANGED <<up, rides, reservations, confirmIndex>>
           /\ persistLocked
           /\ Answer("Register", "OK", req.name)
  <2>1. req.name \in Names /\ req.role \in Roles
    BY <1>3, RegisterRequestsType DEF RegisterError
  <2>2. MemoryOK
    BY Parts
  <2>3. IsMap(users', Names, Roles)
    BY <1>3, <2>1, <2>2, PutType DEF MemoryOK, StateOK
  <2>4. MemoryOK'
    BY <1>3, <2>2, <2>3 DEF MemoryOK, StateOK, IndexExact
  <2>5. up' = TRUE /\ req.name \in DOMAIN users'
    BY <1>3 DEF Register, Put
  <2> QED
    BY <1>3, <2>1, <2>4, <2>5, CreatedStep DEF Ids
<1> QED
  BY <1>1, <1>2, <1>3 DEF Register

\* A published ride has all its seats and no passenger.
LEMMA PublishRideStep ==
  ASSUME IInv, NEW d \in WithRole("DRIVER"), NEW req \in PublishInput,
         PublishRide(d, req)
  PROVE  IInv'
<1>1. CASE Return("PublishRide", "VALIDATION", None) \/ Return("PublishRide", "INTERNAL", None)
  BY <1>1, ReturnStep DEF Operations, Codes, Ids
<1>2. CASE /\ PublishValid(req)
           /\ \E r \in RideIds \ DOMAIN rides :
                /\ rides' = Put(rides, r, NewRide(d, req))
                /\ Answer("PublishRide", "OK", r)
           /\ UNCHANGED <<up, users, reservations, confirmIndex>>
           /\ persistLocked
  <2>1. PICK r \in RideIds \ DOMAIN rides :
                /\ rides' = Put(rides, r, NewRide(d, req))
                /\ Answer("PublishRide", "OK", r)
    BY <1>2
  <2>2. /\ MemoryOK
        /\ StateOK(users, rides, reservations)
        /\ Sound(rides, reservations)
    BY Parts DEF MemoryOK
  <2> DEFINE ride == NewRide(d, req)
  <2>3. /\ req.cities \in Seq(Cities \cup {None})
        /\ req.date \in Dates \cup {None}
        /\ req.capacity \in Int
    BY DEF PublishInput
  <2>4. DOMAIN req.cities = 1 .. Len(req.cities) /\ Len(req.cities) \in Nat
    BY <2>3, LenProperties
  <2>5. req.cities \in Seq(Cities)
    <3>1. req.cities \in [DOMAIN req.cities -> Cities \cup {None}]
      BY <2>3, <2>4, LenProperties
    <3>2. req.cities \in [DOMAIN req.cities -> Cities]
      BY <1>2, <3>1 DEF PublishValid
    <3> QED
      BY <2>3, <3>2, SeqOver
  <2>6. /\ ride.avail \in Seq(Int)
        /\ DOMAIN ride.avail = 1 .. (Len(req.cities) - 1)
        /\ \A s \in DOMAIN ride.avail : ride.avail[s] = req.capacity
    <3>1. ride.avail = [s \in 1 .. (Len(req.cities) - 1) |-> req.capacity]
      BY DEF NewRide
    <3>2. Len(req.cities) - 1 \in Nat
      BY <1>2, <2>4 DEF PublishValid
    <3>3. [s \in 1 .. (Len(req.cities) - 1) |-> req.capacity] \in Seq(Int)
      BY <2>3, <3>2, SMT
    <3> QED
      BY <3>1, <3>3
  <2>7. d \in Names /\ req.prices \in Seq(Nat)
    <3>1. req.prices \in Seq(Int)
      BY DEF PublishInput
    <3>2. req.prices \in [DOMAIN req.prices -> Int]
      BY <3>1, LenProperties
    <3>3. req.prices \in [DOMAIN req.prices -> Nat]
      BY <1>2, <3>2 DEF PublishValid
    <3> QED
      BY <2>2, <3>1, <3>3, SeqOver DEF WithRole, StateOK, IsMap
  <2>8. /\ ride.capacity = req.capacity /\ req.capacity >= 1
        /\ ride.status = "ACTIVE"
    BY <1>2 DEF NewRide, PublishValid
  <2>9. ride \in Ride
    BY <1>2, <2>3, <2>5, <2>6, <2>7 DEF NewRide, PublishValid, Ride, RideStatuses
  <2>10. IsMap(rides', RideIds, Ride)
    BY <2>1, <2>2, <2>9, PutType DEF StateOK
  <2>11. /\ DOMAIN rides' = DOMAIN rides \cup {r}
         /\ rides'[r] = ride
         /\ \A x \in DOMAIN rides : rides'[x] = rides[x]
    BY <2>1 DEF Put
  <2> HIDE DEF ride
  <2>12. \A s : Cardinality(RidePassengers(reservations, r, s)) = 0
    <3>1. \A s : RidePassengers(reservations, r, s) = {}
      BY <2>2 DEF Sound, NobodyOnCancelledRide, RidePassengers, SeatsOf, LegsOver
    <3> QED
      BY <3>1, FS_EmptySet
  <2>13. Conserved(rides', reservations)
    <3> SUFFICES ASSUME NEW x \in DOMAIN rides', rides'[x].status = "ACTIVE",
                        NEW s \in DOMAIN rides'[x].avail
                 PROVE  rides'[x].avail[s] + Cardinality(RidePassengers(reservations, x, s))
                          = rides'[x].capacity
      BY DEF Conserved
    <3>1. CASE x = r
      <4>1. rides'[x].avail[s] = req.capacity /\ rides'[x].capacity = req.capacity
        BY <2>6, <2>8, <2>11, <3>1
      <4>2. Cardinality(RidePassengers(reservations, x, s)) = 0
        BY <2>12, <3>1
      <4> QED
        BY <2>3, <4>1, <4>2
    <3>2. CASE x # r
      BY <2>2, <2>11, <3>2 DEF Sound, Conserved
    <3> QED
      BY <3>1, <3>2
  <2>14. Bounded(rides')
    <3> SUFFICES ASSUME NEW x \in DOMAIN rides', NEW s \in DOMAIN rides'[x].avail
                 PROVE  /\ 0 <= rides'[x].avail[s]
                        /\ rides'[x].avail[s] <= rides'[x].capacity
      BY DEF Bounded
    <3>1. CASE x = r
      <4>1. rides'[x].avail[s] = req.capacity /\ rides'[x].capacity = req.capacity
        BY <2>6, <2>8, <2>11, <3>1
      <4> QED
        BY <2>3, <2>8, <4>1
    <3>2. CASE x # r
      BY <2>2, <2>11, <3>2 DEF Sound, Bounded
    <3> QED
      BY <3>1, <3>2
  <2>15. NobodyOnCancelledRide(rides', reservations) /\ OncePerRequest(reservations)
    BY <2>2, <2>11 DEF Sound, NobodyOnCancelledRide
  <2>16. MemoryOK'
    BY <1>2, <2>2, <2>10, <2>13, <2>14, <2>15 DEF MemoryOK, StateOK, Sound, IndexExact
  <2>17. up' = TRUE
    BY <1>2, Parts DEF PublishRide
  <2> QED
    BY <1>2, <2>1, <2>11, <2>16, <2>17, CreatedStep DEF Ids
<1> QED
  BY <1>1, <1>2 DEF PublishRide

\* A confirmation books all of a granted request, or changes nothing.
LEMMA ConfirmReservationStep ==
  ASSUME IInv, NEW p \in WithRole("PASSENGER"), NEW q \in RequestIds \cup {None},
         NEW inputs \in Seq(LegInput), ConfirmReservation(p, q, inputs)
  PROVE  IInv'
<1>0. /\ MemoryOK
      /\ StateOK(users, rides, reservations)
      /\ IsMap(confirmIndex, Names \X RequestIds, ResIds)
      /\ Sound(rides, reservations)
      /\ IndexExact
      /\ up
  BY Parts DEF MemoryOK, ConfirmReservation
<1>1. CASE Replayed(p, q) /\ Return("ConfirmReservation", "OK", confirmIndex[<<p, q>>])
  <2>1. confirmIndex[<<p, q>>] \in DOMAIN disk.reservations
    BY <1>0, <1>1, Parts DEF Replayed, CrashLosesOnlyCancellations
  <2>2. confirmIndex[<<p, q>>] \in Ids
    BY <1>0, <1>1 DEF Replayed, StateOK, IsMap, Ids
  <2> QED
    BY <1>1, <2>1, <2>2, ReturnStep DEF Operations, Codes
<1>2. CASE \/ Return("ConfirmReservation", "VALIDATION", None)
           \/ Return("ConfirmReservation", "INTERNAL", None)
  BY <1>2, ReturnStep DEF Operations, Codes, Ids
<1>3. CASE \E i \in DOMAIN inputs :
             FirstError(inputs, i) /\ Return("ConfirmReservation", LegError(inputs, i), None)
  <2>1. PICK i \in DOMAIN inputs :
             FirstError(inputs, i) /\ Return("ConfirmReservation", LegError(inputs, i), None)
    BY <1>3
  <2>2. LegError(inputs, i) \in Codes /\ LegError(inputs, i) # "OK"
    BY <2>1 DEF FirstError, LegError, Codes
  <2> QED
    BY <2>1, <2>2, ReturnStep DEF Operations, Ids
<1>4. CASE /\ ~Replayed(p, q)
           /\ PlanOK(inputs)
           /\ \E id \in ResIds \ DOMAIN reservations : Book(p, q, inputs, id)
  <2>1. PICK id \in ResIds \ DOMAIN reservations : Book(p, q, inputs, id)
    BY <1>4
  <2> DEFINE legs == PlannedLegs(inputs)
             res == [passenger |-> p, requestId |-> q, status |-> "CONFIRMED", legs |-> legs]
  <2>2. /\ rides' = TakeSeats(legs)
        /\ reservations' = Put(reservations, id, res)
        /\ confirmIndex' = IF q = None THEN confirmIndex ELSE Put(confirmIndex, <<p, q>>, id)
        /\ UNCHANGED <<up, users>>
        /\ persistLocked
        /\ Answer("ConfirmReservation", "OK", id)
    BY <2>1 DEF Book
  <2>3. legs \in Seq(Leg)
    BY <1>0, PlannedLegsType DEF StateOK
  <2>4. p \in Names
    BY <1>0 DEF WithRole, StateOK, IsMap
  <2>5. res \in Reservation
    BY <2>3, <2>4 DEF Reservation, ReservationStatuses
  <2>6. res.requestId # None =>
           ~ \E i \in DOMAIN reservations :
               /\ reservations[i].passenger = res.passenger
               /\ reservations[i].requestId = res.requestId
    BY <1>0, <1>4 DEF IndexExact, Replayed
  <2>7. Sound(rides', reservations')
    BY <1>0, <1>4, <2>2, <2>5, <2>6, BookSound DEF StateOK
  <2>8. IsMap(rides', RideIds, Ride)
    BY <1>0, <2>2, <2>3, TakeSeatsFacts DEF StateOK
  <2>9. IsMap(reservations', ResIds, Reservation)
    BY <1>0, <2>2, <2>5, PutType DEF StateOK
  <2>10. IsMap(confirmIndex', Names \X RequestIds, ResIds)
    BY <1>0, <2>2, <2>4, PutType
  <2>11. /\ DOMAIN reservations' = DOMAIN reservations \cup {id}
         /\ reservations'[id].passenger = p /\ reservations'[id].requestId = q
         /\ \A i \in DOMAIN reservations : reservations'[i] = reservations[i]
    BY <2>2 DEF Put
  <2>12. IndexExact'
    <3>1. CASE q = None
      BY <1>0, <2>2, <2>11, <3>1 DEF IndexExact
    <3>2. CASE q # None
      <4>1. /\ DOMAIN confirmIndex' = DOMAIN confirmIndex \cup {<<p, q>>}
            /\ confirmIndex'[<<p, q>>] = id
            /\ \A key \in DOMAIN confirmIndex \ {<<p, q>>} :
                 confirmIndex'[key] = confirmIndex[key]
        BY <2>2, <3>2 DEF Put
      <4>2. <<p, q>> \notin DOMAIN confirmIndex
        BY <1>0, <1>4 DEF Replayed, IndexExact
      <4> QED
        BY <1>0, <2>11, <4>1, <4>2 DEF IndexExact
    <3> QED
      BY <3>1, <3>2
  <2>13. MemoryOK'
    BY <1>0, <2>2, <2>7, <2>8, <2>9, <2>10, <2>12 DEF MemoryOK, StateOK
  <2>14. up' = TRUE
    BY <1>0, <2>2, Parts
  <2> QED
    BY <2>2, <2>11, <2>13, <2>14, CreatedStep DEF Ids
<1> QED
  BY <1>1, <1>2, <1>3, <1>4 DEF ConfirmReservation

\* The common end of the two cancellations: the memory holds a sound state
\* that is later than the file, and the write succeeds or fails.
LEMMA CancelledStep ==
  ASSUME IInv, MemoryOK', UNCHANGED <<up, users>>, up,
         NEW op \in {"CancelReservation", "CancelRide"}, NEW id \in Ids,
         PersistAndAnswer(op, id),
         DOMAIN rides' = DOMAIN rides,
         DOMAIN reservations' = DOMAIN reservations,
         \A r \in DOMAIN rides : LaterRide(rides[r], rides'[r]),
         \A i \in DOMAIN reservations : LaterReservation(reservations[i], reservations'[i])
  PROVE  IInv'
<1>1. CASE persistLocked /\ Answer(op, "OK", id)
  <2>1. FileOK' /\ CrashLosesOnlyCancellations'
    BY <1>1, SaveStep
  <2>2. ReplyOK' /\ CreationPersisted'
    BY <1>1 DEF Answer, ReplyOK, CreationPersisted, Operations, Codes
  <2> QED
    BY <2>1, <2>2, Parts, PartsNext
<1>2. CASE UNCHANGED disk /\ Answer(op, "INTERNAL", None)
  <2>1. ReplyOK' /\ CreationPersisted'
    BY <1>2 DEF Answer, ReplyOK, CreationPersisted, Operations, Codes, Ids
  <2>2. FileOK'
    BY <1>2, Parts DEF FileOK
  <2>3. CrashLosesOnlyCancellations
    BY Parts
  <2>4. \A r \in DOMAIN disk.rides : LaterRide(disk.rides[r], rides'[r])
    BY <2>3 DEF CrashLosesOnlyCancellations, Extends, LaterRide
  <2>5. \A i \in DOMAIN disk.reservations :
          LaterReservation(disk.reservations[i], reservations'[i])
    BY <2>3 DEF CrashLosesOnlyCancellations, Extends, LaterReservation
  <2>6. CrashLosesOnlyCancellations'
    BY <1>2, <2>3, <2>4, <2>5 DEF CrashLosesOnlyCancellations, Extends
  <2> QED
    BY <2>1, <2>2, <2>6, Parts, PartsNext
<1> QED
  BY <1>1, <1>2 DEF PersistAndAnswer

\* A passenger's cancellation gives back what the reservation took, once.
LEMMA CancelReservationStep ==
  ASSUME IInv, NEW p \in WithRole("PASSENGER"), NEW id \in ResIds,
         CancelReservation(p, id)
  PROVE  IInv'
<1>0. /\ StateOK(users, rides, reservations)
      /\ IsMap(rides, RideIds, Ride)
      /\ IsMap(reservations, ResIds, Reservation)
      /\ IsMap(confirmIndex, Names \X RequestIds, ResIds)
      /\ Sound(rides, reservations)
      /\ IndexExact
      /\ up
  BY Parts DEF MemoryOK, StateOK, CancelReservation
<1>1. CASE \/ Return("CancelReservation", "NOT_FOUND", None)
           \/ Return("CancelReservation", "FORBIDDEN", None)
           \/ Return("CancelReservation", "OK", id)
  BY <1>1, ReturnStep DEF Operations, Codes, Ids
<1>2. CASE /\ id \in Confirmed(reservations)
           /\ rides' = GiveSeatsBack(rides, reservations, {id})
           /\ reservations' = CancelAll(reservations, {id})
           /\ UNCHANGED <<up, users, confirmIndex>>
           /\ PersistAndAnswer("CancelReservation", id)
  <2>1. {id} \in SUBSET Confirmed(reservations) /\ {id} \in SUBSET DOMAIN reservations
    BY <1>2 DEF Confirmed
  <2>2. /\ IsMap(reservations', ResIds, Reservation)
        /\ DOMAIN reservations' = DOMAIN reservations
        /\ Confirmed(reservations') = Confirmed(reservations) \ {id}
        /\ \A i \in DOMAIN reservations :
             /\ reservations'[i].legs = reservations[i].legs
             /\ reservations'[i].passenger = reservations[i].passenger
             /\ reservations'[i].requestId = reservations[i].requestId
             /\ LaterReservation(reservations[i], reservations'[i])
    <3> DEFINE rs2 == CancelAll(reservations, {id})
    <3>1. /\ IsMap(rs2, ResIds, Reservation)
          /\ DOMAIN rs2 = DOMAIN reservations
          /\ Confirmed(rs2) = Confirmed(reservations) \ {id}
          /\ \A i \in DOMAIN reservations :
               /\ rs2[i].legs = reservations[i].legs
               /\ rs2[i].passenger = reservations[i].passenger
               /\ rs2[i].requestId = reservations[i].requestId
               /\ LaterReservation(reservations[i], rs2[i])
      BY <1>0, <2>1, CancelAllFacts
    <3>2. reservations' = rs2
      BY <1>2
    <3> HIDE DEF rs2
    <3>3. /\ IsMap(reservations', ResIds, Reservation)
          /\ DOMAIN reservations' = DOMAIN reservations
          /\ Confirmed(reservations') = Confirmed(reservations) \ {id}
      BY <3>1, <3>2
    <3>4. \A i \in DOMAIN reservations :
            /\ reservations'[i].legs = reservations[i].legs
            /\ reservations'[i].passenger = reservations[i].passenger
            /\ reservations'[i].requestId = reservations[i].requestId
      BY <3>1, <3>2
    <3>5. \A i \in DOMAIN reservations :
            LaterReservation(reservations[i], reservations'[i])
      BY <3>1, <3>2
    <3> QED
      BY <3>3, <3>4, <3>5
  <2>3. /\ IsMap(rides', RideIds, Ride)
        /\ DOMAIN rides' = DOMAIN rides
        /\ \A r \in DOMAIN rides : LaterRide(rides[r], rides'[r])
    BY <1>0, <1>2, <2>1, GiveSeatsBackFacts
  <2>4. NobodyOnCancelledRide(rides, reservations')
    BY <1>0, <2>2 DEF Sound, NobodyOnCancelledRide, Confirmed
  <2>5. Sound(rides', reservations')
    BY <1>0, <1>2, <2>1, <2>4, CancelSound DEF Sound
  <2>6. IndexExact'
    <3>1. confirmIndex' = confirmIndex
      BY <1>2
    <3>2. /\ DOMAIN reservations' = DOMAIN reservations
          /\ \A i \in DOMAIN reservations :
               /\ reservations'[i].passenger = reservations[i].passenger
               /\ reservations'[i].requestId = reservations[i].requestId
      BY <2>2
    <3> QED
      BY <1>0, <3>1, <3>2 DEF IndexExact
  <2>7. MemoryOK'
    BY <1>0, <1>2, <2>2, <2>3, <2>5, <2>6 DEF MemoryOK, StateOK
  <2> QED
    BY <1>0, <1>2, <2>2, <2>3, <2>7, CancelledStep DEF Ids
<1> QED
  BY <1>1, <1>2 DEF CancelReservation

\* A driver's cancellation takes everybody off the ride, and gives their seats
\* on other rides back.
LEMMA CancelRideStep ==
  ASSUME IInv, NEW d \in WithRole("DRIVER"), NEW r \in RideIds, CancelRide(d, r)
  PROVE  IInv'
<1>0. /\ StateOK(users, rides, reservations)
      /\ IsMap(rides, RideIds, Ride)
      /\ IsMap(reservations, ResIds, Reservation)
      /\ IsMap(confirmIndex, Names \X RequestIds, ResIds)
      /\ Sound(rides, reservations)
      /\ IndexExact
      /\ up
  BY Parts DEF MemoryOK, StateOK, CancelRide
<1>1. CASE \/ Return("CancelRide", "NOT_FOUND", None)
           \/ Return("CancelRide", "FORBIDDEN", None)
           \/ Return("CancelRide", "OK", r)
  BY <1>1, ReturnStep DEF Operations, Codes, Ids
<1> DEFINE S == UsersOfRide(reservations, r)
           rd == [rides EXCEPT ![r].status = "CANCELLED"]
<1>2. CASE /\ r \in DOMAIN rides
           /\ rides[r].status = "ACTIVE"
           /\ rides' = GiveSeatsBack(rd, reservations, S)
           /\ reservations' = CancelAll(reservations, S)
           /\ UNCHANGED <<up, users, confirmIndex>>
           /\ PersistAndAnswer("CancelRide", r)
  <2>1. S \in SUBSET Confirmed(reservations) /\ S \in SUBSET DOMAIN reservations
    BY DEF UsersOfRide, Confirmed
  <2>2. /\ IsMap(reservations', ResIds, Reservation)
        /\ DOMAIN reservations' = DOMAIN reservations
        /\ Confirmed(reservations') = Confirmed(reservations) \ S
        /\ \A i \in DOMAIN reservations :
             /\ reservations'[i].legs = reservations[i].legs
             /\ reservations'[i].passenger = reservations[i].passenger
             /\ reservations'[i].requestId = reservations[i].requestId
             /\ LaterReservation(reservations[i], reservations'[i])
    <3> DEFINE rs2 == CancelAll(reservations, S)
    <3>1. /\ IsMap(rs2, ResIds, Reservation)
          /\ DOMAIN rs2 = DOMAIN reservations
          /\ Confirmed(rs2) = Confirmed(reservations) \ S
          /\ \A i \in DOMAIN reservations :
               /\ rs2[i].legs = reservations[i].legs
               /\ rs2[i].passenger = reservations[i].passenger
               /\ rs2[i].requestId = reservations[i].requestId
               /\ LaterReservation(reservations[i], rs2[i])
      BY <1>0, <2>1, CancelAllFacts
    <3>2. reservations' = rs2
      BY <1>2
    <3> HIDE DEF rs2
    <3>3. /\ IsMap(reservations', ResIds, Reservation)
          /\ DOMAIN reservations' = DOMAIN reservations
          /\ Confirmed(reservations') = Confirmed(reservations) \ S
      BY <3>1, <3>2
    <3>4. \A i \in DOMAIN reservations :
            /\ reservations'[i].legs = reservations[i].legs
            /\ reservations'[i].passenger = reservations[i].passenger
            /\ reservations'[i].requestId = reservations[i].requestId
      BY <3>1, <3>2
    <3>5. \A i \in DOMAIN reservations :
            LaterReservation(reservations[i], reservations'[i])
      BY <3>1, <3>2
    <3> QED
      BY <3>3, <3>4, <3>5
  <2>3. /\ DOMAIN rd = DOMAIN rides
        /\ \A x \in DOMAIN rides :
             /\ rd[x] \in Ride
             /\ rd[x].avail = rides[x].avail
             /\ rd[x].capacity = rides[x].capacity
             /\ rd[x].status = IF x = r THEN "CANCELLED" ELSE rides[x].status
             /\ LaterRide(rides[x], rd[x])
    <3>1. \A x \in DOMAIN rides : rides[x] \in Ride
      BY <1>0 DEF IsMap
    <3> QED
      BY <1>2, <3>1 DEF Ride, RideStatuses, LaterRide
  <2>4. IsMap(rd, RideIds, Ride)
    <3>1. rd = [x \in DOMAIN rd |-> rd[x]]
      OBVIOUS
    <3> HIDE DEF rd
    <3> QED
      BY <1>0, <2>3, <3>1 DEF IsMap
  <2> HIDE DEF rd
  <2>5. /\ IsMap(rides', RideIds, Ride)
        /\ DOMAIN rides' = DOMAIN rd
        /\ \A x \in DOMAIN rd : LaterRide(rd[x], rides'[x])
    BY <1>0, <1>2, <2>1, <2>4, GiveSeatsBackFacts
  <2>6. \A x \in DOMAIN rides : LaterRide(rides[x], rides'[x])
    BY <2>3, <2>5 DEF LaterRide
  <2>7. Conserved(rd, reservations) /\ Bounded(rd)
    BY <1>0, <2>3 DEF Sound, Conserved, Bounded
  <2>8. NobodyOnCancelledRide(rd, reservations')
    <3> SUFFICES ASSUME NEW i \in Confirmed(reservations'),
                        NEW k \in DOMAIN reservations'[i].legs
                 PROVE  /\ reservations'[i].legs[k].ride \in DOMAIN rd
                        /\ rd[reservations'[i].legs[k].ride].status = "ACTIVE"
      BY DEF NobodyOnCancelledRide
    <3>1. i \in Confirmed(reservations) /\ i \notin S /\ i \in DOMAIN reservations
      BY <2>2 DEF Confirmed
    <3>2. reservations'[i].legs = reservations[i].legs
      BY <2>2, <3>1
    <3>3. reservations[i].legs[k].ride # r
      BY <3>1, <3>2 DEF UsersOfRide
    <3>4. /\ reservations[i].legs[k].ride \in DOMAIN rides
          /\ rides[reservations[i].legs[k].ride].status = "ACTIVE"
      BY <1>0, <3>1, <3>2 DEF Sound, NobodyOnCancelledRide
    <3> QED
      BY <2>3, <3>2, <3>3, <3>4
  <2>9. Sound(rides', reservations')
    BY <1>0, <1>2, <2>1, <2>4, <2>7, <2>8, CancelSound DEF Sound
  <2>10. IndexExact'
    BY <1>0, <1>2, <2>2 DEF IndexExact
  <2>11. MemoryOK'
    BY <1>0, <1>2, <2>2, <2>5, <2>9, <2>10 DEF MemoryOK, StateOK
  <2>12. DOMAIN rides' = DOMAIN rides
    BY <2>3, <2>5
  <2> QED
    BY <1>0, <1>2, <2>2, <2>6, <2>11, <2>12, CancelledStep DEF Ids
<1> QED
  BY <1>1, <1>2 DEF CancelRide

-----------------------------------------------------------------------------
(***************************************************************************)
(* The theorems.                                                           *)
(***************************************************************************)
\* A server that has not started satisfies the invariant.
LEMMA InitInvariant ==
  ASSUME Init
  PROVE  IInv
<1>1. MemoryOK
  BY EmptySound, EmptyMapType DEF Init, MemoryOK, StateOK, IndexExact
<1>2. /\ DOMAIN disk = {"exists", "users", "rides", "reservations"}
      /\ disk.exists \in BOOLEAN
      /\ disk.users = EmptyMap /\ disk.rides = EmptyMap /\ disk.reservations = EmptyMap
  <2>1. CASE disk = NoFile
    BY <2>1 DEF NoFile
  <2>2. CASE disk = BlankFile
    BY <2>2 DEF BlankFile
  <2> QED
    BY <2>1, <2>2 DEF Init
<1>3. FileOK
  BY <1>2, EmptySound, EmptyMapType DEF FileOK, StateOK
<1>4. ReplyOK /\ CrashLosesOnlyCancellations /\ CreationPersisted /\ up \in BOOLEAN
  BY DEF Init, ReplyOK, CrashLosesOnlyCancellations, CreationPersisted, Operations, Codes, Ids
<1> QED
  BY <1>1, <1>3, <1>4, Parts

\* A step that changes nothing keeps it.
LEMMA StutterStep ==
  ASSUME IInv, UNCHANGED vars
  PROVE  IInv'
<1>1. MemoryOK' /\ FileOK' /\ ReplyOK'
  BY Parts DEF vars, MemoryOK, FileOK, ReplyOK, IndexExact
<1>2. CrashLosesOnlyCancellations' /\ CreationPersisted'
  BY Parts DEF vars, CrashLosesOnlyCancellations, CreationPersisted
<1> QED
  BY <1>1, <1>2, Parts, PartsNext DEF vars

\* Every call, start and stop keeps it.
LEMMA NextInvariant ==
  ASSUME IInv, [Next]_vars
  PROVE  IInv'
<1>1. CASE New
  BY <1>1, NewStep
<1>2. CASE Crash
  BY <1>2, CrashStep
<1>3. CASE \E req \in RegisterRequests : Register(req)
  BY <1>3, RegisterStep
<1>4. CASE \E d \in WithRole("DRIVER") : \E req \in PublishRequests : PublishRide(d, req)
  BY <1>4, PublishRideStep, PublishRequestsType
<1>5. CASE \E d \in WithRole("DRIVER") : \E r \in RideIds : CancelRide(d, r)
  BY <1>5, CancelRideStep
<1>6. CASE \E p \in WithRole("PASSENGER") :
             \E q \in RequestIds \cup {None}, inputs \in LegRequests :
               ConfirmReservation(p, q, inputs)
  BY <1>6, ConfirmReservationStep, LegRequestsType
<1>7. CASE \E p \in WithRole("PASSENGER") : \E id \in ResIds : CancelReservation(p, id)
  BY <1>7, CancelReservationStep
<1>8. CASE UNCHANGED vars
  BY <1>8, StutterStep
<1> QED
  BY <1>1, <1>2, <1>3, <1>4, <1>5, <1>6, <1>7, <1>8 DEF Next

\* The inductive invariant holds in every reachable state.
THEOREM Invariant == Spec => []IInv
<1>1. Init => IInv
  BY InitInvariant
<1>2. IInv /\ [Next]_vars => IInv'
  BY NextInvariant
<1> QED
  BY <1>1, <1>2, PTL DEF Spec

\* Memory, file and replies always have their types.
THEOREM TypeCorrect == Spec => []TypeOK
<1>1. IInv => TypeOK
  BY DEF IInv
<1> QED
  BY <1>1, Invariant, PTL

\* Free seats and shown passengers always add up to the capacity, in memory
\* and in the file.
THEOREM SeatsConserved == Spec => []SeatConservation
<1>1. IInv => SeatConservation
  BY DEF IInv, Sound, SeatConservation
<1> QED
  BY <1>1, Invariant, PTL

\* No segment is ever oversold or over-restored.
THEOREM SeatsBounded == Spec => []SeatBounds
<1>1. IInv => SeatBounds
  BY DEF IInv, Sound, SeatBounds
<1> QED
  BY <1>1, Invariant, PTL

\* Nobody ever holds a confirmed seat on a cancelled ride.
THEOREM NobodyLeftBehind == Spec => []NoPassengerLeftBehind
<1>1. IInv => NoPassengerLeftBehind
  BY DEF IInv, Sound, NoPassengerLeftBehind
<1> QED
  BY <1>1, Invariant, PTL

\* One requestId of one passenger never sells two itineraries.
THEOREM Idempotence == Spec => []Idempotent
<1>1. IInv => Idempotent
  BY DEF IInv, Sound, Idempotent, IndexExact, Replayed
<1> QED
  BY <1>1, Invariant, PTL

\* A crash loses at most cancellations whose write failed.
THEOREM CrashSafety == Spec => []CrashLosesOnlyCancellations
<1>1. IInv => CrashLosesOnlyCancellations
  BY DEF IInv
<1> QED
  BY <1>1, Invariant, PTL

\* What was answered with OK when it was created is in the file.
THEOREM CreationDurable == Spec => []CreationPersisted
<1>1. IInv => CreationPersisted
  BY DEF IInv
<1> QED
  BY <1>1, Invariant, PTL

-----------------------------------------------------------------------------
(***************************************************************************)
(* The file over time.                                                     *)
(***************************************************************************)
MemoryGrows ==
  /\ Extends(users, users', SameAccount)
  /\ Extends(rides, rides', LaterRide)
  /\ Extends(reservations, reservations', LaterReservation)

\* The file grows when it is left alone, and when a grown memory is written.
LEMMA FileFollows ==
  ASSUME IInv, up, UNCHANGED disk \/ (persistLocked /\ MemoryGrows)
  PROVE  FileGrows
<1>1. CASE UNCHANGED disk
  BY <1>1 DEF FileGrows, Extends, SameAccount, LaterRide, LaterReservation
<1>2. CASE persistLocked /\ MemoryGrows
  <2>1. /\ disk.users = users
        /\ Extends(disk.rides, rides, LaterRide)
        /\ Extends(disk.reservations, reservations, LaterReservation)
    BY Parts DEF CrashLosesOnlyCancellations
  <2>2. disk'.users = users' /\ disk'.rides = rides' /\ disk'.reservations = reservations'
    BY <1>2 DEF persistLocked
  <2>3. Extends(disk.users, disk'.users, SameAccount)
    BY <1>2, <2>1, <2>2 DEF MemoryGrows, Extends, SameAccount
  <2>4. Extends(disk.rides, disk'.rides, LaterRide)
    BY <1>2, <2>1, <2>2 DEF MemoryGrows, Extends, LaterRide
  <2>5. Extends(disk.reservations, disk'.reservations, LaterReservation)
    BY <1>2, <2>1, <2>2 DEF MemoryGrows, Extends, LaterReservation
  <2> QED
    BY <2>3, <2>4, <2>5 DEF FileGrows
<1> QED
  BY <1>1, <1>2

\* No step takes anything away from the file.
LEMMA FileGrowsStep ==
  ASSUME IInv, [Next]_vars
  PROVE  FileGrows
<1>0. /\ StateOK(users, rides, reservations)
      /\ IsMap(rides, RideIds, Ride)
      /\ IsMap(reservations, ResIds, Reservation)
  BY Parts DEF MemoryOK, StateOK
<1>1. CASE New
  <2>1. CASE disk.users = EmptyMap /\ persistLocked /\ up'
    BY <1>1, <2>1, EmptyMapType
    DEF New, FileGrows, Extends, SameAccount, LaterRide, LaterReservation, persistLocked, Return
  <2>2. CASE UNCHANGED disk
    BY <2>2 DEF FileGrows, Extends, SameAccount, LaterRide, LaterReservation
  <2> QED
    BY <1>1, <2>1, <2>2 DEF New, Return
<1>2. CASE UNCHANGED disk
  BY <1>2 DEF FileGrows, Extends, SameAccount, LaterRide, LaterReservation
<1>3. ASSUME NEW req \in RegisterRequests, Register(req)
      PROVE  FileGrows
  <2>1. CASE /\ RegisterError(req) = "OK"
             /\ users' = Put(users, req.name, req.role)
             /\ UNCHANGED <<up, rides, reservations, confirmIndex>>
             /\ persistLocked
    <3>1. RegisterError(req) = "OK" => req.name \notin DOMAIN users
      BY DEF RegisterError
    <3>2. MemoryGrows
      BY <2>1, <3>1 DEF MemoryGrows, Extends, SameAccount, Put, LaterRide, LaterReservation
    <3> QED
      BY <1>3, <2>1, <3>2, FileFollows DEF Register
  <2> QED
    BY <1>2, <1>3, <2>1 DEF Register, Return
<1>4. ASSUME NEW d \in WithRole("DRIVER"), NEW req \in PublishRequests, PublishRide(d, req)
      PROVE  FileGrows
  <2>1. CASE /\ \E r \in RideIds \ DOMAIN rides : rides' = Put(rides, r, NewRide(d, req))
             /\ UNCHANGED <<up, users, reservations, confirmIndex>>
             /\ persistLocked
    <3>1. MemoryGrows
      BY <2>1 DEF MemoryGrows, Extends, SameAccount, Put, LaterRide, LaterReservation
    <3> QED
      BY <1>4, <2>1, <3>1, FileFollows DEF PublishRide
  <2> QED
    BY <1>2, <1>4, <2>1 DEF PublishRide, Return
<1>5. ASSUME NEW p \in WithRole("PASSENGER"), NEW q \in RequestIds \cup {None},
             NEW inputs \in LegRequests, ConfirmReservation(p, q, inputs)
      PROVE  FileGrows
  <2>1. CASE \E id \in ResIds \ DOMAIN reservations : Book(p, q, inputs, id)
    <3>1. PICK id \in ResIds \ DOMAIN reservations : Book(p, q, inputs, id)
      BY <2>1
    <3>2. /\ rides' = TakeSeats(PlannedLegs(inputs))
          /\ \E res : reservations' = Put(reservations, id, res)
          /\ UNCHANGED <<up, users>>
          /\ persistLocked
      BY <3>1 DEF Book
    <3>3. PlannedLegs(inputs) \in Seq(Leg)
      BY <1>0, PlannedLegsType, LegRequestsType
    <3>4. /\ DOMAIN rides' = DOMAIN rides
          /\ \A r \in DOMAIN rides : LaterRide(rides[r], rides'[r])
      BY <1>0, <3>2, <3>3, TakeSeatsFacts
    <3>5. Extends(reservations, reservations', LaterReservation)
      BY <3>2 DEF Extends, Put, LaterReservation
    <3>6. MemoryGrows
      BY <3>2, <3>4, <3>5 DEF MemoryGrows, Extends, SameAccount
    <3> QED
      BY <1>5, <3>2, <3>6, FileFollows DEF ConfirmReservation
  <2> QED
    BY <1>2, <1>5, <2>1 DEF ConfirmReservation, Return
<1>6. ASSUME NEW p \in WithRole("PASSENGER"), NEW id \in ResIds, CancelReservation(p, id)
      PROVE  FileGrows
  <2>1. CASE /\ id \in Confirmed(reservations)
             /\ rides' = GiveSeatsBack(rides, reservations, {id})
             /\ reservations' = CancelAll(reservations, {id})
             /\ UNCHANGED <<up, users, confirmIndex>>
             /\ persistLocked
    <3>1. {id} \in SUBSET DOMAIN reservations
      BY <2>1 DEF Confirmed
    <3>2. /\ DOMAIN rides' = DOMAIN rides
          /\ \A r \in DOMAIN rides : LaterRide(rides[r], rides'[r])
      BY <1>0, <2>1, <3>1, GiveSeatsBackFacts
    <3>3. Extends(reservations, reservations', LaterReservation)
      BY <1>0, <2>1, <3>1 DEF Extends, CancelAll, LaterReservation, IsMap, Reservation
    <3>4. MemoryGrows
      BY <2>1, <3>2, <3>3 DEF MemoryGrows, Extends, SameAccount
    <3> QED
      BY <1>6, <2>1, <3>4, FileFollows DEF CancelReservation
  <2> QED
    BY <1>2, <1>6, <2>1 DEF CancelReservation, PersistAndAnswer, Return
<1>7. ASSUME NEW d \in WithRole("DRIVER"), NEW r \in RideIds, CancelRide(d, r)
      PROVE  FileGrows
  <2> DEFINE S == UsersOfRide(reservations, r)
             rd == [rides EXCEPT ![r].status = "CANCELLED"]
  <2>1. CASE /\ r \in DOMAIN rides
             /\ rides' = GiveSeatsBack(rd, reservations, S)
             /\ reservations' = CancelAll(reservations, S)
             /\ UNCHANGED <<up, users, confirmIndex>>
             /\ persistLocked
    <3>1. S \in SUBSET DOMAIN reservations
      BY DEF UsersOfRide, Confirmed
    <3>2. /\ DOMAIN rides' = DOMAIN rides
          /\ \A x \in DOMAIN rides : LaterRide(rides[x], rides'[x])
      <4>1. \A x \in DOMAIN rides : rides[x] \in Ride
        BY <1>0 DEF IsMap
      <4>2. /\ DOMAIN rd = DOMAIN rides
            /\ \A x \in DOMAIN rides : rd[x] \in Ride /\ LaterRide(rides[x], rd[x])
        BY <2>1, <4>1 DEF Ride, RideStatuses, LaterRide
      <4>3. rd = [x \in DOMAIN rd |-> rd[x]]
        OBVIOUS
      <4> HIDE DEF rd
      <4>4. IsMap(rd, RideIds, Ride)
        BY <1>0, <4>2, <4>3 DEF IsMap
      <4>5. /\ DOMAIN rides' = DOMAIN rd
            /\ \A x \in DOMAIN rd : LaterRide(rd[x], rides'[x])
        BY <1>0, <2>1, <3>1, <4>4, GiveSeatsBackFacts
      <4> QED
        BY <4>2, <4>5 DEF LaterRide
    <3>3. Extends(reservations, reservations', LaterReservation)
      <4>1. /\ DOMAIN CancelAll(reservations, S) = DOMAIN reservations
            /\ \A i \in DOMAIN reservations :
                 LaterReservation(reservations[i], CancelAll(reservations, S)[i])
        BY <1>0, <3>1, CancelAllFacts
      <4> QED
        BY <2>1, <4>1 DEF Extends
    <3>4. MemoryGrows
      BY <2>1, <3>2, <3>3 DEF MemoryGrows, Extends, SameAccount
    <3> QED
      BY <1>7, <2>1, <3>4, FileFollows DEF CancelRide
  <2> QED
    BY <1>2, <1>7, <2>1 DEF CancelRide, PersistAndAnswer, Return
<1> QED
  BY <1>1, <1>2, <1>3, <1>4, <1>5, <1>6, <1>7 DEF Next, Crash, vars

\* The file never forgets an account, a ride, a reservation or a cancellation.
THEOREM FileNeverForgets == Spec => FileOnlyGrows
<1>1. IInv /\ [Next]_vars => [FileGrows]_vars
  BY FileGrowsStep
<1> QED
  BY <1>1, Invariant, PTL DEF Spec, FileOnlyGrows

-----------------------------------------------------------------------------
(***************************************************************************)
(* Segments of a route.                                                    *)
(***************************************************************************)
\* The segments between two cities start at the one and end at the other, and
\* are segments of the route.
LEMMA SegmentsJoin ==
  ASSUME NEW cities \in Seq(Cities), NEW o, NEW d,
         SegmentIndexesBetween(cities, o, d) # {}
  PROVE  LET segs == SegmentIndexesBetween(cities, o, d)
         IN  /\ segs \subseteq 1 .. (Len(cities) - 1)
             /\ cities[First(segs)] = o
             /\ cities[1 + Final(segs)] = d
<1> DEFINE oi == CityIndex(cities, o)
           di == CityIndex(cities, d)
           segs == SegmentIndexesBetween(cities, o, d)
<1>1. oi \in 0 .. Len(cities) /\ di \in 0 .. Len(cities) /\ Len(cities) \in Nat
  BY CityIndexType, LenProperties
<1>2. oi > 0 /\ di > 0 /\ segs = oi .. (di - 1)
  BY DEF SegmentIndexesBetween
<1>3. cities[oi] = o /\ cities[di] = d
  BY <1>2, CityAtIndex
<1> HIDE DEF oi, di, segs
<1>4. First(segs) = oi
  <2>1. oi \in segs /\ \A t \in segs : oi <= t
    BY <1>1, <1>2 DEF segs
  <2>2. First(segs) \in segs /\ First(segs) <= oi
    BY <2>1 DEF First
  <2> QED
    BY <1>1, <1>2, <2>1, <2>2
<1>5. Final(segs) = di - 1
  <2>1. di - 1 \in segs /\ \A t \in segs : t <= di - 1
    BY <1>1, <1>2 DEF segs
  <2>2. Final(segs) \in segs /\ di - 1 <= Final(segs)
    BY <2>1 DEF Final
  <2> QED
    BY <1>1, <1>2, <2>1, <2>2
<1>6. segs \subseteq 1 .. (Len(cities) - 1)
  BY <1>1, <1>2
<1>7. cities[1 + Final(segs)] = d
  BY <1>1, <1>3, <1>5
<1> QED
  BY <1>3, <1>4, <1>6, <1>7 DEF segs

-----------------------------------------------------------------------------
(***************************************************************************)
(* Journeys.                                                               *)
(***************************************************************************)
\* The legs of a granted request are one journey.
LEMMA GrantedJourney ==
  ASSUME NEW inputs \in LegRequests, PlanOK(inputs), IsMap(rides, RideIds, Ride),
         \A r \in DOMAIN rides : DOMAIN rides[r].avail = 1 .. (Len(rides[r].cities) - 1)
  PROVE  JourneyIn(rides, PlannedLegs(inputs))
<1> DEFINE legs == PlannedLegs(inputs)
<1>1. /\ inputs \in Seq(LegInput)
      /\ DOMAIN inputs = 1 .. Len(inputs)
      /\ Len(inputs) \in Nat
  BY LegRequestsType, LenProperties
<1>2. /\ DOMAIN legs = DOMAIN inputs
      /\ \A k \in DOMAIN inputs : /\ legs[k].ride = inputs[k].ride
                                  /\ legs[k].segs = LegSegments(inputs[k])
  BY DEF PlannedLegs
<1>3. ASSUME NEW k \in DOMAIN inputs
      PROVE  /\ inputs[k].ride \in DOMAIN rides
             /\ LegSegments(inputs[k]) # {}
             /\ k > 1 => rides[inputs[k].ride].date = rides[inputs[1].ride].date
             /\ k > 1 => inputs[k - 1].destination = inputs[k].origin
             /\ \A s \in LegSegments(inputs[k]) : s \notin Seen(inputs, k)
  <2>1. LegError(inputs, k) = "OK"
    BY DEF PlanOK
  <2> QED
    BY <2>1, LegGranted, LegRequestsType DEF LegError
<1>4. ASSUME NEW k \in DOMAIN inputs
      PROVE  /\ legs[k].segs \subseteq DOMAIN rides[legs[k].ride].avail
             /\ LegFrom(rides, legs[k]) = inputs[k].origin
             /\ LegTo(rides, legs[k]) = inputs[k].destination
  <2>1. rides[inputs[k].ride].cities \in Seq(Cities)
    BY <1>3 DEF IsMap, Ride
  <2>2. legs[k].segs = SegmentIndexesBetween(rides[inputs[k].ride].cities,
                                             inputs[k].origin, inputs[k].destination)
    BY <1>2, <1>3 DEF LegSegments
  <2>3. legs[k].segs # {}
    BY <1>2, <1>3
  <2> DEFINE cities == rides[inputs[k].ride].cities
             segs == SegmentIndexesBetween(cities, inputs[k].origin, inputs[k].destination)
  <2>4. cities \in Seq(Cities) /\ rides[legs[k].ride].cities = cities
    BY <1>2, <2>1
  <2>5. segs # {} /\ legs[k].segs = segs
    BY <2>2, <2>3
  <2>6. DOMAIN rides[legs[k].ride].avail = 1 .. (Len(cities) - 1)
    BY <1>2, <1>3
  <2> HIDE DEF legs, cities
  <2>7. /\ segs \subseteq 1 .. (Len(cities) - 1)
        /\ cities[First(segs)] = inputs[k].origin
        /\ cities[1 + Final(segs)] = inputs[k].destination
    BY <2>4, <2>5, SegmentsJoin
  <2> HIDE DEF segs
  <2> QED
    BY <2>4, <2>5, <2>6, <2>7 DEF LegFrom, LegTo
<1>5. ASSUME NEW k \in DOMAIN inputs, NEW l \in DOMAIN inputs, k < l,
             inputs[k].ride = inputs[l].ride
      PROVE  LegSegments(inputs[k]) \cap LegSegments(inputs[l]) = {}
  <2>1. k \in {j \in 1 .. (l - 1) : inputs[j].ride = inputs[l].ride}
    BY <1>1, <1>5
  <2>2. LegSegments(inputs[k]) \subseteq Seen(inputs, l)
    BY <2>1 DEF Seen
  <2> QED
    BY <1>3, <2>2
<1>6. ASSUME NEW k \in DOMAIN inputs, k > 1
      PROVE  LegTo(rides, legs[k - 1]) = LegFrom(rides, legs[k])
  <2>1. k - 1 \in DOMAIN inputs
    BY <1>1, <1>6
  <2> QED
    BY <1>3, <1>4, <1>6, <2>1
<1>7. ASSUME NEW k \in DOMAIN inputs, NEW l \in DOMAIN inputs,
             l # k, legs[l].ride = legs[k].ride
      PROVE  legs[l].segs \cap legs[k].segs = {}
  <2>1. k < l \/ l < k
    BY <1>1, <1>7
  <2>2. inputs[k].ride = inputs[l].ride
    BY <1>2, <1>7
  <2>3. LegSegments(inputs[k]) \cap LegSegments(inputs[l]) = {}
    BY <1>5, <2>1, <2>2
  <2> QED
    BY <1>2, <2>3
<1>8. ASSUME NEW k \in DOMAIN inputs
      PROVE  rides[legs[k].ride].date = rides[legs[1].ride].date
  <2>1. 1 \in DOMAIN inputs /\ (k = 1 \/ k > 1)
    BY <1>1
  <2> QED
    BY <1>2, <1>3, <2>1
<1> HIDE DEF legs
<1>9. \A k \in DOMAIN legs : legs[k].ride \in DOMAIN rides /\ legs[k].segs # {}
  BY <1>2, <1>3
<1> QED
  BY <1>2, <1>4, <1>6, <1>7, <1>8, <1>9 DEF JourneyIn, legs

\* More rides, or other seats and statuses, take nothing from a journey.
LEMMA SameJourney ==
  ASSUME NEW rd, NEW rd2, NEW legs \in Seq(Leg), JourneyIn(rd, legs),
         DOMAIN rd \subseteq DOMAIN rd2,
         \A r \in DOMAIN rd : /\ LaterRide(rd[r], rd2[r])
                              /\ DOMAIN rd2[r].avail = DOMAIN rd[r].avail
  PROVE  JourneyIn(rd2, legs)
<1>1. \A k \in DOMAIN legs :
        /\ legs[k].ride \in DOMAIN rd
        /\ LegTo(rd2, legs[k]) = LegTo(rd, legs[k])
        /\ LegFrom(rd2, legs[k]) = LegFrom(rd, legs[k])
        /\ rd2[legs[k].ride].date = rd[legs[k].ride].date
        /\ DOMAIN rd2[legs[k].ride].avail = DOMAIN rd[legs[k].ride].avail
  BY DEF JourneyIn, LegTo, LegFrom, LaterRide
<1>2. SUFFICES ASSUME NEW k \in DOMAIN legs
               PROVE  /\ rd2[legs[k].ride].date = rd2[legs[1].ride].date
                      /\ k > 1 => LegTo(rd2, legs[k - 1]) = LegFrom(rd2, legs[k])
  BY <1>1 DEF JourneyIn
<1>3. 1 \in DOMAIN legs /\ (k > 1 => k - 1 \in DOMAIN legs)
  BY LenProperties
<1> QED
  BY <1>1, <1>3 DEF JourneyIn

\* Reservations keep their legs, rides their segments: the journeys stay.
LEMMA SameRoutes ==
  ASSUME NEW rd, NEW rd2, NEW rs, IsMap(rs, ResIds, Reservation), NEW rs2, RoutesOK(rd, rs),
         DOMAIN rd2 = DOMAIN rd,
         \A r \in DOMAIN rd : /\ LaterRide(rd[r], rd2[r])
                              /\ DOMAIN rd2[r].avail = DOMAIN rd[r].avail,
         DOMAIN rs2 = DOMAIN rs,
         \A i \in DOMAIN rs : rs2[i].legs = rs[i].legs
  PROVE  RoutesOK(rd2, rs2)
<1>1. ASSUME NEW i \in DOMAIN rs PROVE rs[i].legs \in Seq(Leg)
  BY DEF IsMap, Reservation
<1>2. \A i \in DOMAIN rs : JourneyIn(rd2, rs2[i].legs)
  BY <1>1, SameJourney DEF RoutesOK
<1>3. \A r \in DOMAIN rd : DOMAIN rd2[r].avail = 1 .. (Len(rd2[r].cities) - 1)
  BY DEF RoutesOK, LaterRide
<1> QED
  BY <1>2, <1>3 DEF RoutesOK

-----------------------------------------------------------------------------
(***************************************************************************)
(* The steps.                                                              *)
(***************************************************************************)
\* Nothing travels where there is nothing.
LEMMA EmptyRoutes == RoutesOK(EmptyMap, EmptyMap)
BY EmptyMapType DEF RoutesOK

\* The file is left alone, or becomes the memory.
LEMMA RoutesSaved ==
  ASSUME JInv, RoutesOK(rides', reservations'), UNCHANGED disk \/ persistLocked
  PROVE  JInv'
BY DEF JInv, persistLocked

\* A cancelled ride keeps its route.
LEMMA RideMarked ==
  ASSUME IsMap(rides, RideIds, Ride), NEW r \in DOMAIN rides
  PROVE  LET rd == [rides EXCEPT ![r].status = "CANCELLED"]
         IN  /\ IsMap(rd, RideIds, Ride)
             /\ DOMAIN rd = DOMAIN rides
             /\ \A x \in DOMAIN rides :
                  /\ LaterRide(rides[x], rd[x])
                  /\ rd[x].avail = rides[x].avail
                  /\ rd[x].status = IF x = r THEN "CANCELLED" ELSE rides[x].status
<1> DEFINE rd == [rides EXCEPT ![r].status = "CANCELLED"]
<1>1. \A x \in DOMAIN rides : rides[x] \in Ride
  BY DEF IsMap
<1>2. /\ DOMAIN rd = DOMAIN rides
      /\ \A x \in DOMAIN rides :
           /\ rd[x] \in Ride
           /\ LaterRide(rides[x], rd[x])
           /\ rd[x].avail = rides[x].avail
           /\ rd[x].status = IF x = r THEN "CANCELLED" ELSE rides[x].status
  BY <1>1 DEF Ride, RideStatuses, LaterRide
<1>3. rd = [x \in DOMAIN rd |-> rd[x]]
  OBVIOUS
<1> HIDE DEF rd
<1>4. IsMap(rd, RideIds, Ride)
  BY <1>2, <1>3 DEF IsMap
<1> QED
  BY <1>2, <1>4 DEF rd

\* A cancelled reservation keeps its legs.
LEMMA LegsStay ==
  ASSUME NEW rs, IsMap(rs, ResIds, Reservation), NEW S \in SUBSET DOMAIN rs,
         NEW rs2, rs2 = CancelAll(rs, S)
  PROVE  /\ DOMAIN rs2 = DOMAIN rs
         /\ \A i \in DOMAIN rs : rs2[i].legs = rs[i].legs
<1>1. \A i \in DOMAIN rs : rs[i] \in Reservation
  BY DEF IsMap
<1> QED
  BY <1>1 DEF CancelAll, Reservation

\* Every call, start and stop keeps routes and journeys.
LEMMA JourneyStep ==
  ASSUME IInv, JInv, [Next]_vars
  PROVE  JInv'
<1>0. /\ IsMap(rides, RideIds, Ride)
      /\ IsMap(reservations, ResIds, Reservation)
      /\ RoutesOK(rides, reservations)
  BY Parts DEF MemoryOK, StateOK, JInv
<1>1. CASE UNCHANGED <<rides, reservations, disk>>
  BY <1>1 DEF JInv
<1>2. CASE New
  <2>1. CASE ~ UNCHANGED <<rides, reservations, disk>>
    <3>1. /\ rides' = disk.rides /\ reservations' = disk.reservations
          /\ persistLocked \/ UNCHANGED disk
      BY <1>2, <2>1 DEF New, Return, memory
    <3>2. RoutesOK(rides', reservations')
      BY <3>1 DEF JInv
    <3> QED
      BY <3>1, <3>2, RoutesSaved
  <2> QED
    BY <1>1, <2>1
<1>3. CASE Crash
  <2>1. rides' = EmptyMap /\ reservations' = EmptyMap /\ UNCHANGED disk
    BY <1>3 DEF Crash
  <2> QED
    BY <2>1, EmptyRoutes, RoutesSaved
<1>4. ASSUME NEW req \in RegisterRequests, Register(req)
      PROVE  JInv'
  <2>1. UNCHANGED <<rides, reservations>> /\ (persistLocked \/ UNCHANGED disk)
    BY <1>4 DEF Register, Return, memory
  <2> QED
    BY <1>0, <2>1, RoutesSaved
<1>5. ASSUME NEW d \in WithRole("DRIVER"), NEW req \in PublishRequests, PublishRide(d, req)
      PROVE  JInv'
  <2>1. CASE ~ UNCHANGED <<rides, reservations, disk>>
    <3>1. PICK r \in RideIds \ DOMAIN rides : rides' = Put(rides, r, NewRide(d, req))
      BY <1>5, <2>1 DEF PublishRide, Return, memory
    <3>2. UNCHANGED reservations /\ persistLocked
      BY <1>5, <2>1 DEF PublishRide, Return, memory
    <3>3. /\ DOMAIN rides \subseteq DOMAIN rides'
          /\ DOMAIN rides' = DOMAIN rides \cup {r}
          /\ \A x \in DOMAIN rides : rides'[x] = rides[x]
          /\ rides'[r] = NewRide(d, req)
      BY <3>1 DEF Put
    <3>4. \A x \in DOMAIN rides' : DOMAIN rides'[x].avail = 1 .. (Len(rides'[x].cities) - 1)
      BY <1>0, <3>3 DEF RoutesOK, NewRide
    <3>5. ASSUME NEW i \in DOMAIN reservations
          PROVE  JourneyIn(rides', reservations[i].legs)
      <4>1. reservations[i].legs \in Seq(Leg) /\ JourneyIn(rides, reservations[i].legs)
        BY <1>0 DEF IsMap, Reservation, RoutesOK
      <4>2. \A x \in DOMAIN rides : /\ LaterRide(rides[x], rides'[x])
                                    /\ DOMAIN rides'[x].avail = DOMAIN rides[x].avail
        BY <3>3 DEF LaterRide
      <4> QED
        BY <3>3, <4>1, <4>2, SameJourney
    <3>6. RoutesOK(rides', reservations')
      BY <3>2, <3>4, <3>5 DEF RoutesOK
    <3> QED
      BY <3>2, <3>6, RoutesSaved
  <2> QED
    BY <1>1, <2>1
<1>6. ASSUME NEW p \in WithRole("PASSENGER"), NEW q \in RequestIds \cup {None},
             NEW inputs \in LegRequests, ConfirmReservation(p, q, inputs)
      PROVE  JInv'
  <2>1. CASE ~ UNCHANGED <<rides, reservations, disk>>
    <3>1. PICK id \in ResIds \ DOMAIN reservations : Book(p, q, inputs, id)
      BY <1>6, <2>1 DEF ConfirmReservation, Return, memory
    <3>2. PlanOK(inputs)
      BY <1>6, <2>1 DEF ConfirmReservation, Return, memory
    <3> DEFINE legs == PlannedLegs(inputs)
    <3>3. /\ rides' = TakeSeats(legs)
          /\ reservations' = Put(reservations, id,
                                 [passenger |-> p, requestId |-> q,
                                  status |-> "CONFIRMED", legs |-> legs])
          /\ persistLocked
      BY <3>1 DEF Book
    <3>4. legs \in Seq(Leg)
      BY <1>0, PlannedLegsType, LegRequestsType
    <3>5. /\ DOMAIN rides' = DOMAIN rides
          /\ \A r \in DOMAIN rides : /\ LaterRide(rides[r], rides'[r])
                                     /\ DOMAIN rides'[r].avail = DOMAIN rides[r].avail
      BY <1>0, <3>3, <3>4, TakeSeatsFacts
    <3>6. JourneyIn(rides, legs)
      BY <1>0, <3>2, GrantedJourney DEF RoutesOK
    <3> HIDE DEF legs
    <3>7. JourneyIn(rides', legs)
      BY <3>4, <3>5, <3>6, SameJourney
    <3>8. RoutesOK(rides', reservations)
      BY <1>0, <3>5, SameRoutes
    <3>9. RoutesOK(rides', reservations')
      BY <3>3, <3>7, <3>8 DEF RoutesOK, Put
    <3> QED
      BY <3>3, <3>9, RoutesSaved
  <2> QED
    BY <1>1, <2>1
<1>7. ASSUME NEW p \in WithRole("PASSENGER"), NEW id \in ResIds, CancelReservation(p, id)
      PROVE  JInv'
  <2>1. CASE ~ UNCHANGED <<rides, reservations, disk>>
    <3>1. /\ id \in DOMAIN reservations
          /\ rides' = GiveSeatsBack(rides, reservations, {id})
          /\ reservations' = CancelAll(reservations, {id})
          /\ persistLocked \/ UNCHANGED disk
      BY <1>7, <2>1 DEF CancelReservation, Return, memory, PersistAndAnswer, Confirmed
    <3>2. {id} \in SUBSET DOMAIN reservations
      BY <3>1
    <3>3. RoutesOK(rides', reservations')
      <4>1. /\ DOMAIN rides' = DOMAIN rides
            /\ \A r \in DOMAIN rides : /\ LaterRide(rides[r], rides'[r])
                                       /\ DOMAIN rides'[r].avail = DOMAIN rides[r].avail
        BY <1>0, <3>1, <3>2, GiveSeatsBackFacts
      <4>2. /\ DOMAIN reservations' = DOMAIN reservations
            /\ \A i \in DOMAIN reservations : reservations'[i].legs = reservations[i].legs
        BY <1>0, <3>1, <3>2, LegsStay
      <4> QED
        BY <1>0, <4>1, <4>2, SameRoutes
    <3> QED
      BY <3>1, <3>3, RoutesSaved
  <2> QED
    BY <1>1, <2>1
<1>8. ASSUME NEW d \in WithRole("DRIVER"), NEW r \in RideIds, CancelRide(d, r)
      PROVE  JInv'
  <2> DEFINE S == UsersOfRide(reservations, r)
             rd == [rides EXCEPT ![r].status = "CANCELLED"]
  <2>1. CASE ~ UNCHANGED <<rides, reservations, disk>>
    <3>1. /\ r \in DOMAIN rides
          /\ rides' = GiveSeatsBack(rd, reservations, S)
          /\ reservations' = CancelAll(reservations, S)
          /\ persistLocked \/ UNCHANGED disk
      BY <1>8, <2>1 DEF CancelRide, Return, memory, PersistAndAnswer
    <3>2. S \in SUBSET DOMAIN reservations
      BY DEF UsersOfRide, Confirmed
    <3>3. /\ IsMap(rd, RideIds, Ride)
          /\ DOMAIN rd = DOMAIN rides
          /\ \A x \in DOMAIN rides : LaterRide(rides[x], rd[x]) /\ rd[x].avail = rides[x].avail
      BY <1>0, <3>1, RideMarked
    <3> HIDE DEF rd, S
    <3>4. RoutesOK(rides', reservations')
      <4>1. /\ DOMAIN rides' = DOMAIN rd
            /\ \A x \in DOMAIN rd : /\ LaterRide(rd[x], rides'[x])
                                    /\ DOMAIN rides'[x].avail = DOMAIN rd[x].avail
        BY <1>0, <3>1, <3>2, <3>3, GiveSeatsBackFacts
      <4>2. /\ DOMAIN reservations' = DOMAIN reservations
            /\ \A i \in DOMAIN reservations : reservations'[i].legs = reservations[i].legs
        BY <1>0, <3>1, <3>2, LegsStay
      <4>3. RoutesOK(rd, reservations)
        BY <1>0, <3>3, SameRoutes
      <4> QED
        BY <1>0, <4>1, <4>2, <4>3, SameRoutes
    <3> QED
      BY <3>1, <3>4, RoutesSaved
  <2> QED
    BY <1>1, <2>1
<1> QED
  BY <1>1, <1>2, <1>3, <1>4, <1>5, <1>6, <1>7, <1>8 DEF Next, vars

\* Routes and journeys are in order at all times, in memory and in the file.
THEOREM JourneysInvariant == Spec => []JInv
<1>1. Init => JInv
  BY EmptyRoutes DEF Init, JInv, NoFile, BlankFile
<1>2. IInv /\ JInv /\ [Next]_vars => JInv'
  BY JourneyStep
<1> QED
  BY <1>1, <1>2, Invariant, PTL DEF Spec

\* Every reservation is one journey at all times.
THEOREM OneJourneyEach == Spec => []OneJourney
<1>1. JInv => OneJourney
  BY DEF JInv, RoutesOK, OneJourney
<1> QED
  BY <1>1, JourneysInvariant, PTL

=============================================================================

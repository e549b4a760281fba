----------------------- MODULE StoreImplementsProofs -------------------------
(***************************************************************************)
(* Store implements Booking, for all names, rides and requests: the        *)
(* initial states of Store are those of Booking, and each of its steps is  *)
(* a step of Booking or leaves Booking's variables alone.                  *)
(***************************************************************************)
EXTENDS StoreImplements, StoreProofs

-----------------------------------------------------------------------------
(***************************************************************************)
(* Cars and marks.                                                         *)
(***************************************************************************)
\* What a car shows of its ride.
LEMMA CarsOfFacts ==
  ASSUME NEW rd
  PROVE  /\ DOMAIN CarsOf(rd) = DOMAIN rd
         /\ \A r \in DOMAIN rd :
              /\ CarsOf(rd)[r].driver = rd[r].driver
              /\ CarsOf(rd)[r].cities = rd[r].cities
              /\ CarsOf(rd)[r].date = rd[r].date
              /\ CarsOf(rd)[r].capacity = rd[r].capacity
              /\ CarsOf(rd)[r].status = rd[r].status
BY DEF CarsOf

\* Rides that differ in the status of S, and in seats and prices, are cars with
\* a mark on S.
LEMMA MarkedCars ==
  ASSUME NEW rd, NEW rd2, NEW S, NEW status,
         DOMAIN rd2 = DOMAIN rd,
         \A r \in DOMAIN rd :
           /\ rd2[r].driver = rd[r].driver
           /\ rd2[r].cities = rd[r].cities
           /\ rd2[r].date = rd[r].date
           /\ rd2[r].capacity = rd[r].capacity
           /\ rd2[r].status = IF r \in S THEN status ELSE rd[r].status
  PROVE  CarsOf(rd2) = B!Mark(CarsOf(rd), S, status)
<1> DEFINE car(x) == [driver |-> x.driver, cities |-> x.cities, date |-> x.date,
                      capacity |-> x.capacity, status |-> x.status]
<1>1. ASSUME NEW r \in DOMAIN rd
      PROVE  car(rd2[r]) = IF r \in S THEN [car(rd[r]) EXCEPT !.status = status] ELSE car(rd[r])
  BY <1>1
<1>2. /\ CarsOf(rd2) = [r \in DOMAIN rd |-> car(rd2[r])]
      /\ CarsOf(rd) = [r \in DOMAIN rd |-> car(rd[r])]
  BY DEF CarsOf
<1>3. B!Mark(CarsOf(rd), S, status) =
        [r \in DOMAIN rd |-> IF r \in S THEN [car(rd[r]) EXCEPT !.status = status] ELSE car(rd[r])]
  BY <1>2 DEF B!Mark
<1> HIDE DEF car
<1> QED
  BY <1>1, <1>2, <1>3

\* Rides that differ in seats and prices only are the same cars.
LEMMA SameCars ==
  ASSUME NEW rd, NEW rd2, DOMAIN rd2 = DOMAIN rd,
         \A r \in DOMAIN rd : LaterRide(rd[r], rd2[r]) /\ rd2[r].status = rd[r].status
  PROVE  CarsOf(rd2) = CarsOf(rd)
BY DEF CarsOf, LaterRide

\* Fewer riders than seats taken: a rider has a seat.
LEMMA RidersSeated ==
  ASSUME NEW rs, IsMap(rs, ResIds, Reservation), NEW r, NEW s
  PROVE  /\ Cardinality(B!Riders(rs, r, s)) \in Nat
         /\ Cardinality(RidePassengers(rs, r, s)) \in Nat
         /\ Cardinality(B!Riders(rs, r, s)) <= Cardinality(RidePassengers(rs, r, s))
<1> DEFINE riders == B!Riders(rs, r, s)
           seats == RidePassengers(rs, r, s)
           seat(i) == <<i, CHOOSE k \in LegsOver(rs[i].legs, r, s) : TRUE>>
           F == [i \in riders |-> seat(i)]
<1>1. IsFiniteSet(seats) /\ Cardinality(seats) \in Nat
  <2>1. Confirmed(rs) \in SUBSET DOMAIN rs
    BY DEF Confirmed
  <2> QED
    BY <2>1, SeatsFinite DEF RidePassengers
<1>2. ASSUME NEW i \in riders PROVE seat(i) \in seats
  <2>1. i \in Confirmed(rs) /\ LegsOver(rs[i].legs, r, s) # {}
    BY DEF B!Riders, Confirmed, LegsOver
  <2>2. (CHOOSE k \in LegsOver(rs[i].legs, r, s) : TRUE) \in LegsOver(rs[i].legs, r, s)
    BY <2>1
  <2> QED
    BY <2>1, <2>2 DEF RidePassengers, SeatsOf
<1>3. F \in Injection(riders, seats)
  <2>1. F \in [riders -> seats]
    BY <1>2
  <2>2. \A i, j \in riders : F[i] = F[j] => i = j
    OBVIOUS
  <2> QED
    BY <2>1, <2>2 DEF Injection, IsInjective
<1>4. IsFiniteSet(riders) /\ Cardinality(riders) <= Cardinality(seats)
  BY <1>1, <1>3, FS_Injection
<1> QED
  BY <1>1, <1>4, FS_CardinalityType

-----------------------------------------------------------------------------
(***************************************************************************)
(* The initial states and the steps.                                       *)
(***************************************************************************)
\* Booking's maps and routes are those of Store.
LEMMA SameDomain ==
  /\ B!EmptyMap = EmptyMap
  /\ \A map, key, value : B!Put(map, key, value) = Put(map, key, value)
  /\ \A cities, a, b : B!SegmentIndexesBetween(cities, a, b) = SegmentIndexesBetween(cities, a, b)
<1>1. \A cities, a : B!CityIndex(cities, a) = CityIndex(cities, a)
  BY DEF B!CityIndex, CityIndex
<1> QED
  BY <1>1 DEF B!EmptyMap, EmptyMap, B!Put, Put, B!SegmentIndexesBetween, SegmentIndexesBetween

\* Booking counts as Store does.
LEMMA SameCardinality == \A S : B!Cardinality(S) = Cardinality(S)
BY DEF B!Cardinality, Cardinality

\* Nothing is there before the first start.
LEMMA InitImplements == Init => B!Init
<1> SUFFICES ASSUME Init PROVE B!Init
  OBVIOUS
<1>1. disk.users = EmptyMap /\ disk.rides = EmptyMap /\ disk.reservations = EmptyMap /\ ~up
  BY DEF Init, NoFile, BlankFile
<1>2. CarsOf(EmptyMap) = EmptyMap
  BY DEF CarsOf, EmptyMap
<1> QED
  BY <1>1, <1>2, SameDomain DEF B!Init, accounts, cars, bookings

\* What callers see when the process runs, and when it does not.
LEMMA Visible ==
  /\ up => accounts = users /\ cars = CarsOf(rides) /\ bookings = reservations
  /\ ~up => accounts = disk.users /\ cars = CarsOf(disk.rides) /\ bookings = disk.reservations
BY DEF accounts, cars, bookings

\* The same of the next state.
LEMMA VisibleNext ==
  /\ up' => accounts' = users' /\ cars' = CarsOf(rides') /\ bookings' = reservations'
  /\ ~up' => /\ accounts' = (disk').users
             /\ cars' = CarsOf((disk').rides)
             /\ bookings' = (disk').reservations
BY DEF accounts, cars, bookings, CarsOf

\* An early return is no step.
LEMMA ReturnImplements ==
  ASSUME NEW op, NEW code, NEW id, Return(op, code, id)
  PROVE  UNCHANGED B!vars
BY DEF Return, memory, B!vars, accounts, cars, bookings, CarsOf

\* A start shows what the file holds, with the seeds if it holds no account.
LEMMA NewImplements ==
  ASSUME IInv, New
  PROVE  [B!Next]_B!vars
<1>1. CASE Return("New", "INTERNAL", None)
  BY <1>1, ReturnImplements
<1>2. CASE ~Return("New", "INTERNAL", None)
  <2>1. /\ ~up /\ up'
        /\ users' = IF disk.users = EmptyMap THEN SeedUsers ELSE disk.users
        /\ rides' = disk.rides
        /\ reservations' = disk.reservations
    BY <1>2 DEF New
  <2>2. UNCHANGED <<cars, bookings>>
    BY <2>1, Visible, VisibleNext
  <2>3. CASE disk.users = EmptyMap
    <3>1. accounts = EmptyMap /\ accounts' = SeedUsers
      BY <2>1, <2>3, Visible, VisibleNext
    <3> QED
      BY <2>2, <3>1, SameDomain DEF B!Next, B!Found
  <2>4. CASE disk.users # EmptyMap
    BY <2>1, <2>2, <2>4, Visible, VisibleNext DEF B!vars
  <2> QED
    BY <2>3, <2>4
<1> QED
  BY <1>1, <1>2

\* A sound state gives every confirmed passenger a seat in a car that drives.
LEMMA SoundFits ==
  ASSUME NEW rd, IsMap(rd, RideIds, Ride), NEW rs, IsMap(rs, ResIds, Reservation),
         Sound(rd, rs), RoutesOK(rd, rs)
  PROVE  B!Fits(CarsOf(rd), rs)
<1> SUFFICES ASSUME NEW i \in DOMAIN rs, rs[i].status = "CONFIRMED",
                    NEW k \in DOMAIN rs[i].legs
             PROVE  LET r == rs[i].legs[k].ride
                    IN  /\ CarsOf(rd)[r].status = "ACTIVE"
                        /\ \A s \in rs[i].legs[k].segs :
                             Cardinality(B!Riders(rs, r, s)) <= CarsOf(rd)[r].capacity
  BY SameCardinality DEF B!Fits
<1> DEFINE r == rs[i].legs[k].ride
<1>1. i \in Confirmed(rs)
  BY DEF Confirmed
<1>2. r \in DOMAIN rd /\ rd[r].status = "ACTIVE"
  BY <1>1 DEF Sound, NobodyOnCancelledRide
<1>3. /\ CarsOf(rd)[r].status = "ACTIVE"
      /\ CarsOf(rd)[r].capacity = rd[r].capacity
  BY <1>2, CarsOfFacts
<1>4. rs[i].legs[k].segs \subseteq DOMAIN rd[r].avail
  BY DEF RoutesOK, JourneyIn
<1>5. rd[r] \in Ride
  BY <1>2 DEF IsMap
<1> HIDE DEF r
<1>6. ASSUME NEW s \in DOMAIN rd[r].avail
      PROVE  Cardinality(B!Riders(rs, r, s)) <= rd[r].capacity
  <2>1. /\ rd[r].avail[s] \in Int /\ rd[r].capacity \in Int
    BY <1>5, <1>6, LenProperties, ElementOfSeq DEF Ride
  <2>2. /\ rd[r].avail[s] + Cardinality(RidePassengers(rs, r, s)) = rd[r].capacity
        /\ 0 <= rd[r].avail[s]
    BY <1>2, <1>6 DEF Sound, Conserved, Bounded
  <2> QED
    BY <2>1, <2>2, RidersSeated
<1> QED
  BY <1>3, <1>4, <1>6 DEF r

\* A new account.
LEMMA RegisterImplements ==
  ASSUME IInv, NEW req \in RegisterRequests, Register(req)
  PROVE  [B!Next]_B!vars
<1>1. CASE \E op, code, id : Return(op, code, id)
  BY <1>1, ReturnImplements
<1>2. CASE ~ \E op, code, id : Return(op, code, id)
  <2>1. /\ up /\ up'
        /\ RegisterError(req) = "OK"
        /\ users' = Put(users, req.name, req.role)
        /\ UNCHANGED <<rides, reservations>>
    BY <1>2 DEF Register
  <2>2. req.name \in Names /\ req.role \in Roles /\ req.name \notin DOMAIN users
    BY <2>1, RegisterRequestsType DEF RegisterError
  <2>3. B!Open(req.name, req.role)
    BY <2>1, <2>2, Visible, VisibleNext, SameDomain DEF B!Open
  <2> QED
    BY <2>2, <2>3 DEF B!Next, Roles, B!Roles
<1> QED
  BY <1>1, <1>2

\* A new car.
LEMMA PublishRideImplements ==
  ASSUME IInv, NEW d \in WithRole("DRIVER"), NEW req \in PublishRequests, PublishRide(d, req)
  PROVE  [B!Next]_B!vars
<1>1. CASE \E op, code, id : Return(op, code, id)
  BY <1>1, ReturnImplements
<1>2. CASE ~ \E op, code, id : Return(op, code, id)
  <2>1. PICK r \in RideIds \ DOMAIN rides : rides' = Put(rides, r, NewRide(d, req))
    BY <1>2 DEF PublishRide
  <2>2. /\ up /\ up'
        /\ PublishValid(req)
        /\ UNCHANGED <<users, reservations>>
    BY <1>2 DEF PublishRide
  <2> DEFINE car == [driver |-> d, cities |-> req.cities, date |-> req.date,
                     capacity |-> req.capacity, status |-> "ACTIVE"]
  <2>3. CarsOf(rides') = Put(CarsOf(rides), r, car)
    BY <2>1 DEF CarsOf, Put, NewRide
  <2>4. B!Offer(d, r, req)
    BY <2>1, <2>2, <2>3, Visible, VisibleNext, SameDomain, CarsOfFacts DEF B!Offer, PublishValid
  <2>5. d \in B!With("DRIVER")
    BY <2>2, Visible DEF B!With, WithRole
  <2> QED
    BY <2>1, <2>4, <2>5 DEF B!Next
<1> QED
  BY <1>1, <1>2

\* Booking counts the segments of a leg as Store does.
LEMMA SameSegments ==
  ASSUME up, NEW leg, leg.ride \in DOMAIN rides
  PROVE  B!Segments(leg) = LegSegments(leg)
<1>1. cars[leg.ride].cities = rides[leg.ride].cities
  BY Visible, CarsOfFacts
<1> QED
  BY <1>1, SameDomain DEF B!Segments, LegSegments

\* A granted request is a journey with a seat on every segment.
LEMMA GrantedSeated ==
  ASSUME IInv, JInv, up, NEW inputs \in LegRequests, PlanOK(inputs)
  PROVE  B!Journey(inputs) /\ B!Seated(inputs)
<1>0. /\ IsMap(rides, RideIds, Ride)
      /\ IsMap(reservations, ResIds, Reservation)
      /\ Sound(rides, reservations)
      /\ RoutesOK(rides, reservations)
  BY Parts DEF MemoryOK, StateOK, JInv
<1>1. /\ inputs # << >>
      /\ DOMAIN inputs = 1 .. Len(inputs)
      /\ Len(inputs) \in Nat
  BY LegRequestsType, LenProperties DEF PlanOK
<1>2. ASSUME NEW k \in DOMAIN inputs
      PROVE  /\ inputs[k].ride \in DOMAIN rides
             /\ rides[inputs[k].ride].status = "ACTIVE"
             /\ LegSegments(inputs[k]) # {}
             /\ k > 1 => rides[inputs[k].ride].date = rides[inputs[1].ride].date
             /\ k > 1 => inputs[k - 1].destination = inputs[k].origin
             /\ \A s \in LegSegments(inputs[k]) :
                  s \notin Seen(inputs, k) /\ ~ (rides[inputs[k].ride].avail[s] < 1)
  <2>1. LegError(inputs, k) = "OK"
    BY DEF PlanOK
  <2> QED
    BY <2>1, LegGranted, LegRequestsType DEF LegError
<1>3. \A k \in DOMAIN inputs :
        /\ B!Segments(inputs[k]) = LegSegments(inputs[k])
        /\ inputs[k].ride \in DOMAIN cars
        /\ cars[inputs[k].ride].status = "ACTIVE"
        /\ cars[inputs[k].ride].date = rides[inputs[k].ride].date
        /\ cars[inputs[k].ride].capacity = rides[inputs[k].ride].capacity
  BY <1>2, SameSegments, Visible, CarsOfFacts
<1>4. B!Journey(inputs)
  <2>1. ASSUME NEW k \in DOMAIN inputs
        PROVE  cars[inputs[k].ride].date = cars[inputs[1].ride].date
    <3>1. 1 \in DOMAIN inputs /\ (k = 1 \/ k > 1)
      BY <1>1
    <3> QED
      BY <1>2, <1>3, <3>1
  <2> QED
    BY <1>1, <1>2, <1>3, <2>1 DEF B!Journey
<1>5. JourneyIn(rides, PlannedLegs(inputs))
  BY <1>0, GrantedJourney DEF RoutesOK
<1>6. ASSUME NEW k \in DOMAIN inputs
      PROVE  /\ k \in DOMAIN PlannedLegs(inputs)
             /\ PlannedLegs(inputs)[k].ride = inputs[k].ride
             /\ PlannedLegs(inputs)[k].segs = LegSegments(inputs[k])
             /\ LegSegments(inputs[k]) \subseteq DOMAIN rides[inputs[k].ride].avail
  <2>1. /\ k \in DOMAIN PlannedLegs(inputs)
        /\ PlannedLegs(inputs)[k].ride = inputs[k].ride
        /\ PlannedLegs(inputs)[k].segs = LegSegments(inputs[k])
    BY DEF PlannedLegs
  <2> QED
    BY <1>5, <2>1 DEF JourneyIn
<1>7. ASSUME NEW k \in DOMAIN inputs, NEW l \in DOMAIN inputs, k # l,
             inputs[k].ride = inputs[l].ride
      PROVE  LegSegments(inputs[k]) \cap LegSegments(inputs[l]) = {}
  <2>1. PlannedLegs(inputs)[k].ride = PlannedLegs(inputs)[l].ride
    BY <1>6, <1>7
  <2>2. PlannedLegs(inputs)[k].segs \cap PlannedLegs(inputs)[l].segs = {}
    BY <1>5, <1>6, <1>7, <2>1 DEF JourneyIn
  <2> QED
    BY <1>6, <2>2
<1>8. ASSUME NEW k \in DOMAIN inputs, NEW s \in LegSegments(inputs[k])
      PROVE  Cardinality(B!Riders(reservations, inputs[k].ride, s))
               < rides[inputs[k].ride].capacity
  <2> DEFINE r == inputs[k].ride
  <2>1. /\ r \in DOMAIN rides
        /\ rides[r].status = "ACTIVE"
        /\ s \in DOMAIN rides[r].avail
        /\ ~ (rides[r].avail[s] < 1)
    BY <1>2, <1>6, <1>8
  <2>2. rides[r] \in Ride
    BY <1>0, <2>1 DEF IsMap
  <2> HIDE DEF r
  <2>3. rides[r].avail[s] \in Int /\ rides[r].capacity \in Int
    BY <2>1, <2>2, LenProperties, ElementOfSeq DEF Ride
  <2>4. rides[r].avail[s] + Cardinality(RidePassengers(reservations, r, s)) = rides[r].capacity
    BY <1>0, <2>1 DEF Sound, Conserved
  <2>5. Cardinality(B!Riders(reservations, r, s)) < rides[r].capacity
    BY <1>0, <2>1, <2>3, <2>4, RidersSeated
  <2> QED
    BY <2>5 DEF r
<1>9. B!Seated(inputs)
  BY <1>3, <1>7, <1>8, Visible, SameCardinality DEF B!Seated
<1> QED
  BY <1>4, <1>9

\* A new booking.
LEMMA ConfirmReservationImplements ==
  ASSUME IInv, JInv, NEW p \in WithRole("PASSENGER"), NEW q \in RequestIds \cup {None},
         NEW inputs \in LegRequests, ConfirmReservation(p, q, inputs)
  PROVE  [B!Next]_B!vars
<1>0. /\ IsMap(rides, RideIds, Ride)
      /\ IndexExact
  BY Parts DEF MemoryOK, StateOK
<1>1. CASE \E op, code, id : Return(op, code, id)
  BY <1>1, ReturnImplements
<1>2. CASE ~ \E op, code, id : Return(op, code, id)
  <2>1. PICK id \in ResIds \ DOMAIN reservations : Book(p, q, inputs, id)
    BY <1>2 DEF ConfirmReservation
  <2>2. up /\ ~ Replayed(p, q) /\ PlanOK(inputs)
    BY <1>2 DEF ConfirmReservation
  <2> DEFINE legs == PlannedLegs(inputs)
             blegs == [k \in DOMAIN inputs |-> [ride |-> inputs[k].ride,
                                                segs |-> B!Segments(inputs[k])]]
  <2>3. /\ rides' = TakeSeats(legs)
        /\ reservations' = Put(reservations, id,
                               [passenger |-> p, requestId |-> q,
                                status |-> "CONFIRMED", legs |-> legs])
        /\ UNCHANGED <<up, users>>
    BY <2>1 DEF Book
  <2>4. blegs = legs
    <3>1. \A k \in DOMAIN inputs : inputs[k].ride \in DOMAIN rides
      BY <2>2, LegGranted, LegRequestsType
    <3>2. \A k \in DOMAIN inputs : B!Segments(inputs[k]) = LegSegments(inputs[k])
      BY <2>2, <3>1, SameSegments
    <3> QED
      BY <3>2 DEF PlannedLegs
  <2>5. CarsOf(rides') = CarsOf(rides)
    <3>1. legs \in Seq(Leg)
      BY <1>0, PlannedLegsType, LegRequestsType
    <3>2. /\ DOMAIN TakeSeats(legs) = DOMAIN rides
          /\ \A r \in DOMAIN rides : /\ LaterRide(rides[r], TakeSeats(legs)[r])
                                     /\ TakeSeats(legs)[r].status = rides[r].status
      BY <1>0, <3>1, TakeSeatsFacts
    <3> HIDE DEF legs
    <3> QED
      BY <2>3, <3>2, SameCars
  <2>6. q # None => \A i \in DOMAIN reservations :
                      reservations[i].passenger # p \/ reservations[i].requestId # q
    BY <1>0, <2>2 DEF IndexExact, Replayed
  <2>7. B!Journey(inputs) /\ B!Seated(inputs)
    BY <2>2, GrantedSeated
  <2>8. /\ accounts' = accounts /\ cars' = cars
        /\ bookings = reservations /\ bookings' = reservations'
    BY <2>2, <2>3, <2>5, Visible, VisibleNext
  <2>9. bookings' = Put(bookings, id, [passenger |-> p, requestId |-> q,
                                       status |-> "CONFIRMED", legs |-> blegs])
    BY <2>3, <2>4, <2>8
  <2> HIDE DEF legs
  <2>10. B!Book(p, q, id, inputs)
    BY <2>6, <2>7, <2>8, <2>9, SameDomain DEF B!Book
  <2>11. p \in B!With("PASSENGER")
    BY <2>2, Visible DEF B!With, WithRole
  <2> QED
    BY <2>10, <2>11 DEF B!Next
<1> QED
  BY <1>1, <1>2

\* Cancelling reservations is marking bookings.
LEMMA CancelMarks ==
  ASSUME NEW rs, NEW S
  PROVE  CancelAll(rs, S) = B!Mark(rs, S, "CANCELLED")
BY DEF CancelAll, B!Mark

\* A cancelled booking.
LEMMA CancelReservationImplements ==
  ASSUME IInv, NEW p \in WithRole("PASSENGER"), NEW id \in ResIds, CancelReservation(p, id)
  PROVE  [B!Next]_B!vars
<1>0. /\ IsMap(rides, RideIds, Ride)
      /\ IsMap(reservations, ResIds, Reservation)
  BY Parts DEF MemoryOK, StateOK
<1>1. CASE \E op, code, i : Return(op, code, i)
  BY <1>1, ReturnImplements
<1>2. CASE ~ \E op, code, i : Return(op, code, i)
  <2>1. /\ up /\ up' = up
        /\ id \in DOMAIN reservations
        /\ rides' = GiveSeatsBack(rides, reservations, {id})
        /\ reservations' = CancelAll(reservations, {id})
        /\ users' = users
    BY <1>2 DEF CancelReservation, Confirmed
  <2>2. CarsOf(rides') = CarsOf(rides)
    <3>1. {id} \in SUBSET DOMAIN reservations
      BY <2>1
    <3>2. /\ DOMAIN rides' = DOMAIN rides
          /\ \A r \in DOMAIN rides : /\ LaterRide(rides[r], rides'[r])
                                     /\ rides'[r].status = rides[r].status
      BY <1>0, <2>1, <3>1, GiveSeatsBackFacts
    <3> QED
      BY <3>2, SameCars
  <2>3. /\ accounts' = accounts /\ cars' = cars
        /\ bookings = reservations
        /\ bookings' = B!Mark(reservations, {id}, "CANCELLED")
    BY <2>1, <2>2, Visible, VisibleNext, CancelMarks
  <2> QED
    BY <2>1, <2>3 DEF B!Next, B!Cancel
<1> QED
  BY <1>1, <1>2

\* Marking confirmed users of a ride is marking all of its users.
LEMMA CancelUsers ==
  ASSUME NEW rs, IsMap(rs, ResIds, Reservation), NEW r
  PROVE  CancelAll(rs, UsersOfRide(rs, r)) =
           B!Mark(rs, {i \in DOMAIN rs : \E k \in DOMAIN rs[i].legs : rs[i].legs[k].ride = r},
                  "CANCELLED")
<1> DEFINE S == UsersOfRide(rs, r)
           T == {i \in DOMAIN rs : \E k \in DOMAIN rs[i].legs : rs[i].legs[k].ride = r}
           cancelled(i) == [rs[i] EXCEPT !.status = "CANCELLED"]
<1>1. ASSUME NEW i \in DOMAIN rs, rs[i].status # "CONFIRMED" PROVE cancelled(i) = rs[i]
  <2>1. rs[i] \in Reservation
    BY DEF IsMap
  <2>2. rs[i].status = "CANCELLED"
    BY <1>1, <2>1 DEF Reservation, ReservationStatuses
  <2> QED
    BY <2>1, <2>2 DEF Reservation
<1>2. ASSUME NEW i \in DOMAIN rs
      PROVE  (IF i \in S THEN cancelled(i) ELSE rs[i]) = (IF i \in T THEN cancelled(i) ELSE rs[i])
  <2>1. i \in S <=> i \in T /\ rs[i].status = "CONFIRMED"
    BY DEF UsersOfRide, Confirmed
  <2> HIDE DEF S, T, cancelled
  <2> QED
    BY <1>1, <2>1
<1> QED
  BY <1>2 DEF CancelAll, B!Mark

\* A withdrawn car.
LEMMA CancelRideImplements ==
  ASSUME IInv, NEW d \in WithRole("DRIVER"), NEW r \in RideIds, CancelRide(d, r)
  PROVE  [B!Next]_B!vars
<1>0. /\ IsMap(rides, RideIds, Ride)
      /\ IsMap(reservations, ResIds, Reservation)
  BY Parts DEF MemoryOK, StateOK
<1> DEFINE S == UsersOfRide(reservations, r)
           rd == [rides EXCEPT ![r].status = "CANCELLED"]
<1>1. CASE \E op, code, i : Return(op, code, i)
  BY <1>1, ReturnImplements
<1>2. CASE ~ \E op, code, i : Return(op, code, i)
  <2>1. /\ up /\ up' = up
        /\ r \in DOMAIN rides
        /\ rides' = GiveSeatsBack(rd, reservations, S)
        /\ reservations' = CancelAll(reservations, S)
        /\ users' = users
    BY <1>2 DEF CancelRide
  <2>2. CarsOf(rides') = B!Mark(CarsOf(rides), {r}, "CANCELLED")
    <3>1. S \in SUBSET DOMAIN reservations
      BY DEF UsersOfRide, Confirmed
    <3>2. /\ IsMap(rd, RideIds, Ride)
          /\ DOMAIN rd = DOMAIN rides
          /\ \A x \in DOMAIN rides :
               /\ LaterRide(rides[x], rd[x])
               /\ rd[x].status = IF x = r THEN "CANCELLED" ELSE rides[x].status
      BY <1>0, <2>1, RideMarked
    <3> HIDE DEF rd, S
    <3>3. /\ DOMAIN rides' = DOMAIN rd
          /\ \A x \in DOMAIN rd : /\ LaterRide(rd[x], rides'[x])
                                  /\ rides'[x].status = rd[x].status
      BY <1>0, <2>1, <3>1, <3>2, GiveSeatsBackFacts
    <3>4. \A x \in DOMAIN rides :
            /\ rides'[x].driver = rides[x].driver
            /\ rides'[x].cities = rides[x].cities
            /\ rides'[x].date = rides[x].date
            /\ rides'[x].capacity = rides[x].capacity
            /\ rides'[x].status = IF x \in {r} THEN "CANCELLED" ELSE rides[x].status
      BY <3>2, <3>3 DEF LaterRide
    <3>5. DOMAIN rides' = DOMAIN rides
      BY <3>2, <3>3
    <3> QED
      BY <3>4, <3>5, MarkedCars
  <2>3. /\ accounts' = accounts
        /\ cars = CarsOf(rides) /\ cars' = CarsOf(rides')
        /\ bookings = reservations /\ bookings' = CancelAll(reservations, S)
    BY <2>1, Visible, VisibleNext
  <2> HIDE DEF S
  <2>4. B!Withdraw(r)
    BY <1>0, <2>2, <2>3, CancelUsers DEF B!Withdraw, S
  <2>5. r \in DOMAIN cars
    BY <2>1, <2>3, CarsOfFacts
  <2> QED
    BY <2>4, <2>5 DEF B!Next
<1> QED
  BY <1>1, <1>2

\* After a crash callers meet what the file holds: some cancellations are
\* undone, and everybody still has a seat.
LEMMA CrashImplements ==
  ASSUME IInv, JInv, Crash
  PROVE  [B!Next]_B!vars
<1>0. /\ IsMap(rides, RideIds, Ride)
      /\ IsMap(reservations, ResIds, Reservation)
      /\ IsMap(disk.rides, RideIds, Ride)
      /\ IsMap(disk.reservations, ResIds, Reservation)
      /\ Sound(disk.rides, disk.reservations)
      /\ RoutesOK(disk.rides, disk.reservations)
  BY Parts DEF MemoryOK, FileOK, StateOK, JInv
<1>1. /\ up /\ ~up' /\ disk' = disk
      /\ disk.users = users
      /\ DOMAIN rides = DOMAIN disk.rides
      /\ DOMAIN reservations = DOMAIN disk.reservations
      /\ \A r \in DOMAIN disk.rides : LaterRide(disk.rides[r], rides[r])
      /\ \A i \in DOMAIN disk.reservations :
           LaterReservation(disk.reservations[i], reservations[i])
  BY Parts DEF Crash, CrashLosesOnlyCancellations, Extends
<1>2. /\ accounts' = accounts
      /\ cars = CarsOf(rides) /\ cars' = CarsOf(disk.rides)
      /\ bookings = reservations /\ bookings' = disk.reservations
  BY <1>1, Visible, VisibleNext
<1>3. cars' = B!Mark(cars, {r \in DOMAIN rides : disk.rides[r].status = "ACTIVE"}, "ACTIVE")
  <2> DEFINE S == {r \in DOMAIN rides : disk.rides[r].status = "ACTIVE"}
  <2>1. ASSUME NEW r \in DOMAIN rides
        PROVE  disk.rides[r].status = IF r \in S THEN "ACTIVE" ELSE rides[r].status
    <3>1. disk.rides[r] \in Ride /\ LaterRide(disk.rides[r], rides[r])
      BY <1>0, <1>1 DEF IsMap
    <3> QED
      BY <3>1 DEF Ride, RideStatuses, LaterRide
  <2>2. \A r \in DOMAIN rides :
          /\ disk.rides[r].driver = rides[r].driver
          /\ disk.rides[r].cities = rides[r].cities
          /\ disk.rides[r].date = rides[r].date
          /\ disk.rides[r].capacity = rides[r].capacity
    BY <1>1 DEF LaterRide
  <2> HIDE DEF S
  <2>3. CarsOf(disk.rides) = B!Mark(CarsOf(rides), S, "ACTIVE")
    BY <1>1, <2>1, <2>2, MarkedCars
  <2> QED
    BY <1>2, <2>3 DEF S
<1>4. bookings' = B!Mark(bookings, {i \in DOMAIN reservations :
                                      disk.reservations[i].status = "CONFIRMED"}, "CONFIRMED")
  <2> DEFINE S == {i \in DOMAIN reservations : disk.reservations[i].status = "CONFIRMED"}
             marked(i) == IF i \in S THEN [reservations[i] EXCEPT !.status = "CONFIRMED"]
                          ELSE reservations[i]
  <2>1. ASSUME NEW i \in DOMAIN reservations
        PROVE  disk.reservations[i] = marked(i)
    <3>1. /\ disk.reservations[i] \in Reservation /\ reservations[i] \in Reservation
          /\ LaterReservation(disk.reservations[i], reservations[i])
      BY <1>0, <1>1 DEF IsMap
    <3> QED
      BY <3>1 DEF Reservation, ReservationStatuses, LaterReservation
  <2>2. disk.reservations = [i \in DOMAIN reservations |-> disk.reservations[i]]
    BY <1>0, <1>1 DEF IsMap
  <2>3. B!Mark(reservations, S, "CONFIRMED") = [i \in DOMAIN reservations |-> marked(i)]
    BY DEF B!Mark
  <2> HIDE DEF marked, S
  <2>4. disk.reservations = B!Mark(reservations, S, "CONFIRMED")
    BY <2>1, <2>2, <2>3
  <2> QED
    BY <1>2, <2>4 DEF S
<1>5. B!Fits(cars', bookings')
  BY <1>0, <1>2, SoundFits
<1>6. DOMAIN cars = DOMAIN rides /\ DOMAIN bookings = DOMAIN reservations
  BY <1>2, CarsOfFacts
<1>7. B!Revive
  BY <1>2, <1>3, <1>4, <1>5, <1>6 DEF B!Revive
<1> QED
  BY <1>7 DEF B!Next

-----------------------------------------------------------------------------
\* Every step of Store is a step of Booking, or one its callers do not see.
LEMMA NextImplements ==
  ASSUME IInv, JInv, [Next]_vars
  PROVE  [B!Next]_B!vars
<1>1. CASE New
  BY <1>1, NewImplements
<1>2. CASE Crash
  BY <1>2, CrashImplements
<1>3. CASE \E req \in RegisterRequests : Register(req)
  BY <1>3, RegisterImplements
<1>4. CASE \E d \in WithRole("DRIVER") : \E req \in PublishRequests : PublishRide(d, req)
  BY <1>4, PublishRideImplements
<1>5. CASE \E d \in WithRole("DRIVER") : \E r \in RideIds : CancelRide(d, r)
  BY <1>5, CancelRideImplements
<1>6. CASE \E p \in WithRole("PASSENGER") :
             \E q \in RequestIds \cup {None}, inputs \in LegRequests :
               ConfirmReservation(p, q, inputs)
  BY <1>6, ConfirmReservationImplements
<1>7. CASE \E p \in WithRole("PASSENGER") : \E id \in ResIds : CancelReservation(p, id)
  BY <1>7, CancelReservationImplements
<1>8. CASE UNCHANGED vars
  BY <1>8 DEF vars, B!vars, accounts, cars, bookings, CarsOf
<1> QED
  BY <1>1, <1>2, <1>3, <1>4, <1>5, <1>6, <1>7, <1>8 DEF Next

\* The store, with its counters, its index, its file, failed writes and
\* crashes, is to its callers the store of Booking.
THEOREM Refinement == Spec => ImplementsBooking
<1>1. Init => B!Init
  BY InitImplements
<1>2. IInv /\ JInv /\ [Next]_vars => [B!Next]_B!vars
  BY NextImplements
<1> QED
  BY <1>1, <1>2, Invariant, JourneysInvariant, PTL DEF Spec, ImplementsBooking, B!Spec
=============================================================================

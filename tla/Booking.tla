------------------------------- MODULE Booking -------------------------------
(***************************************************************************)
(* What the store promises, without its machinery: accounts, cars and      *)
(* bookings, no counters of free seats, no index of requestIds, no file.   *)
(* A seat is free as long as there are fewer passengers than seats.        *)
(*                                                                         *)
(* A crash may revive what was cancelled, and does nothing worse.          *)
(***************************************************************************)
EXTENDS Domain

CONSTANTS
  Names, RideIds, ResIds, RequestIds, None,
  SeedUsers,       \* the accounts there are at first
  PublishRequests, \* the rides drivers offer
  LegRequests      \* the journeys passengers ask for

VARIABLES
  accounts, \* name -> role
  cars,     \* ride id -> driver, cities, date, capacity, status
  bookings  \* reservation id -> passenger, requestId, status, legs

vars == <<accounts, cars, bookings>>

Init ==
  /\ accounts = EmptyMap
  /\ cars = EmptyMap
  /\ bookings = EmptyMap

With(role) == {n \in DOMAIN accounts : accounts[n] = role}

-----------------------------------------------------------------------------
Found ==
  /\ accounts = EmptyMap
  /\ accounts' = SeedUsers
  /\ UNCHANGED <<cars, bookings>>

Open(name, role) ==
  /\ name \notin DOMAIN accounts
  /\ accounts' = Put(accounts, name, role)
  /\ UNCHANGED <<cars, bookings>>

\* A route of distinct cities and at least one seat.
Offer(d, r, req) ==
  /\ r \notin DOMAIN cars
  /\ Len(req.cities) >= 2
  /\ \A i, j \in DOMAIN req.cities : i # j => req.cities[i] # req.cities[j]
  /\ req.capacity >= 1
  /\ cars' = Put(cars, r, [driver |-> d, cities |-> req.cities, date |-> req.date,
                           capacity |-> req.capacity, status |-> "ACTIVE"])
  /\ UNCHANGED <<accounts, bookings>>

-----------------------------------------------------------------------------
Segments(leg) ==
  SegmentIndexesBetween(cars[leg.ride].cities, leg.origin, leg.destination)

\* Who sits in car r on segment s.
Riders(bs, r, s) ==
  {i \in DOMAIN bs : /\ bs[i].status = "CONFIRMED"
                     /\ \E k \in DOMAIN bs[i].legs :
                          bs[i].legs[k].ride = r /\ s \in bs[i].legs[k].segs}

\* The legs are rides of one day that take one from each stop to the next.
Journey(legs) ==
  /\ legs # << >>
  /\ \A k \in DOMAIN legs :
       /\ legs[k].ride \in DOMAIN cars
       /\ cars[legs[k].ride].status = "ACTIVE"
       /\ cars[legs[k].ride].date = cars[legs[1].ride].date
       /\ Segments(legs[k]) # {}
       /\ k > 1 => legs[k - 1].destination = legs[k].origin

\* There is a seat on every segment, and the journey needs no two of them.
Seated(legs) ==
  /\ \A k \in DOMAIN legs : \A s \in Segments(legs[k]) :
       Cardinality(Riders(bookings, legs[k].ride, s)) < cars[legs[k].ride].capacity
  /\ \A k, l \in DOMAIN legs :
       k # l /\ legs[k].ride = legs[l].ride => Segments(legs[k]) \cap Segments(legs[l]) = {}

\* A passenger's requestId books once.
Book(p, q, id, legs) ==
  /\ id \notin DOMAIN bookings
  /\ Journey(legs)
  /\ Seated(legs)
  /\ q # None => \A i \in DOMAIN bookings : bookings[i].passenger # p \/ bookings[i].requestId # q
  /\ bookings' = Put(bookings, id,
                     [passenger |-> p, requestId |-> q, status |-> "CONFIRMED",
                      legs |-> [k \in DOMAIN legs |-> [ride |-> legs[k].ride,
                                                       segs |-> Segments(legs[k])]]])
  /\ UNCHANGED <<accounts, cars>>

-----------------------------------------------------------------------------
\* The records of m whose key is in S, with another status.
Mark(m, S, status) ==
  [k \in DOMAIN m |-> IF k \in S THEN [m[k] EXCEPT !.status = status] ELSE m[k]]

Cancel(id) ==
  /\ bookings' = Mark(bookings, {id}, "CANCELLED")
  /\ UNCHANGED <<accounts, cars>>

\* A ride and every booking that uses it, at once.
Withdraw(r) ==
  /\ cars' = Mark(cars, {r}, "CANCELLED")
  /\ bookings' = Mark(bookings, {i \in DOMAIN bookings :
                                   \E k \in DOMAIN bookings[i].legs :
                                     bookings[i].legs[k].ride = r}, "CANCELLED")
  /\ UNCHANGED accounts

\* Nobody without a seat, nobody in a car that does not drive.
Fits(cs, bs) ==
  \A i \in DOMAIN bs : bs[i].status = "CONFIRMED" =>
    \A k \in DOMAIN bs[i].legs :
      LET r == bs[i].legs[k].ride
      IN  /\ cs[r].status = "ACTIVE"
          /\ \A s \in bs[i].legs[k].segs : Cardinality(Riders(bs, r, s)) <= cs[r].capacity

\* A crash: some cancellations are undone.
Revive ==
  /\ \E S \in SUBSET DOMAIN cars : cars' = Mark(cars, S, "ACTIVE")
  /\ \E S \in SUBSET DOMAIN bookings : bookings' = Mark(bookings, S, "CONFIRMED")
  /\ Fits(cars', bookings')
  /\ UNCHANGED accounts

-----------------------------------------------------------------------------
Next ==
  \/ Found
  \/ \E n \in Names, role \in Roles : Open(n, role)
  \/ \E d \in With("DRIVER"), r \in RideIds, req \in PublishRequests : Offer(d, r, req)
  \/ \E p \in With("PASSENGER"), q \in RequestIds \cup {None}, id \in ResIds,
        legs \in LegRequests : Book(p, q, id, legs)
  \/ \E id \in DOMAIN bookings : Cancel(id)
  \/ \E r \in DOMAIN cars : Withdraw(r)
  \/ Revive

Spec == Init /\ [][Next]_vars
=============================================================================

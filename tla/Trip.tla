-------------------------------- MODULE Trip --------------------------------
(***************************************************************************)
(* The terminals and the store: what passengers and drivers were shown     *)
(* last (cmd/passenger, cmd/driver), and what they do with it later.       *)
(*                                                                         *)
(* A search reserves nothing.  It works on a copy of the rides made under  *)
(* the read lock and walks it after the lock is released, so the answer is *)
(* old when it is read, however fast; here the whole search is the moment  *)
(* of the copy.  The passenger confirms any itinerary of the last answer,  *)
(* and both cancel any line of their last list, at any later time, after   *)
(* other calls, failed writes and restarts.                                *)
(***************************************************************************)
EXTENDS Store, Search, Money

CONSTANTS
  Queries, \* the searches passengers make, with the server's limits
  Forms    \* what drivers type to publish a ride, one price text a segment

ASSUME FormsType ==
  /\ Forms \subseteq [cities : Seq(Cities \cup {None}), date : Dates \cup {None},
                      capacity : Nat \ {0}, texts : Seq(Text)]
  /\ \A form \in Forms : Len(form.texts) = Len(form.cities) - 1

ASSUME QueriesType ==
  \A query \in Queries : query.transfers \in Nat /\ query.results \in Nat

ASSUME RanksType == RanksApart(RideIds) /\ RanksApart(Cities)

VARIABLES
  shown, \* lastSearch: what each passenger's client was answered last
  listed \* lastReservations or lastRides: the ids in the last list of a client

screens == <<shown, listed>>

tripVars == <<vars, screens>>

TripInit ==
  /\ Init
  /\ shown = [p \in Names |-> << >>]
  /\ listed = [u \in Names |-> {}]

-----------------------------------------------------------------------------
(***************************************************************************)
(* Menus.                                                                  *)
(***************************************************************************)
\* The legs a client sends back for an itinerary it was shown.
Inputs(it) ==
  [k \in DOMAIN it.legs |-> [ride |-> it.legs[k].ride, origin |-> it.legs[k].origin,
                             destination |-> it.legs[k].destination]]

\* opSearch and menu 1 of the passenger: an empty answer is kept as well.
SearchItineraries(p, query) ==
  /\ up
  /\ \E order \in Orders(DOMAIN rides) :
       shown' = [shown EXCEPT ![p] = Search(rides, order, query)]
  /\ UNCHANGED <<vars, listed>>

\* Menu 2 of the passenger.
ConfirmShown(p, q) ==
  /\ \E n \in DOMAIN shown[p] : ConfirmReservation(p, q, Inputs(shown[p][n]))
  /\ UNCHANGED screens

\* Menu 1 of the driver: every price is parsed on its own, and one that cannot
\* be parsed sends the driver back to the menu.
PublishTyped(d, form) ==
  /\ \A n \in DOMAIN form.texts : ParseBRLToCents(form.texts[n]) # Rejected
  /\ PublishRide(d, [cities |-> form.cities, date |-> form.date, capacity |-> form.capacity,
                     prices |-> [n \in DOMAIN form.texts |-> ParseBRLToCents(form.texts[n])]])
  /\ UNCHANGED screens

\* ListDriverRides and ListReservations: all that is the caller's, cancelled
\* or not.
Own(u) ==
  IF users[u] = "DRIVER"
  THEN {r \in DOMAIN rides : rides[r].driver = u}
  ELSE {i \in DOMAIN reservations : reservations[i].passenger = u}

\* "minhas caronas", "minhas reservas", and the other menus that pick from a
\* list when there is none (ensureRides, ensureReservations).
List(u) ==
  /\ up
  /\ listed' = [listed EXCEPT ![u] = Own(u)]
  /\ UNCHANGED <<vars, shown>>

\* Menu 4, with a line of the list that is on the screen, however old.
CancelListed(u) ==
  /\ \E id \in listed[u] : \/ users[u] = "DRIVER" /\ CancelRide(u, id)
                           \/ users[u] = "PASSENGER" /\ CancelReservation(u, id)
  /\ UNCHANGED screens

\* Menu 6: the next account on this client has been shown nothing.
Logout(u) ==
  /\ shown' = [shown EXCEPT ![u] = << >>]
  /\ listed' = [listed EXCEPT ![u] = {}]
  /\ UNCHANGED vars

\* The process stops and starts; other clients of the same accounts cancel.
Others ==
  /\ \/ New
     \/ Crash
     \/ \E d \in WithRole("DRIVER"), r \in RideIds : CancelRide(d, r)
     \/ \E p \in WithRole("PASSENGER"), id \in ResIds : CancelReservation(p, id)
  /\ UNCHANGED screens

TripNext ==
  \/ Others
  \/ \E d \in WithRole("DRIVER"), form \in Forms : PublishTyped(d, form)
  \/ \E p \in WithRole("PASSENGER") :
       \/ \E query \in Queries : SearchItineraries(p, query)
       \/ \E q \in RequestIds : ConfirmShown(p, q)
  \/ \E u \in DOMAIN users : List(u) \/ CancelListed(u) \/ Logout(u)

TripSpec == TripInit /\ [][TripNext]_tripVars

-----------------------------------------------------------------------------
ShownItineraries(p) == {shown[p][n] : n \in DOMAIN shown[p]}

\* However old an answer is, only seats and rides can be gone: a CONFIRM of it
\* is booked, refused with NO_SEATS or refused because a ride was cancelled,
\* never as unknown, malformed, disconnected, overlapping or of two days.
OnlySeatsGoStale ==
  up => \A p \in Names : \A it \in ShownItineraries(p) :
          \A k \in DOMAIN it.legs : LegError(Inputs(it), k) \in {"OK", "NO_SEATS", "CONFLICT"}

\* The legs a CONFIRM of itinerary it books are cut as they were shown, and
\* cost what was shown.
AsShown(it) ==
  LET legs == PlannedLegs(Inputs(it))
  IN  /\ \A k \in DOMAIN legs : legs[k].segs = it.legs[k].segs
      /\ it.total = TotalOf(rides, legs)

\* What a CONFIRM would book is what was shown, however long ago: search and
\* store cut the route into the same segments and add up the same prices.
BookedAsShown ==
  up => \A p \in Names : \A it \in ShownItineraries(p) : AsShown(it)

\* Whatever seats were sold and whichever rides were cancelled, each itinerary
\* that a search of the store may answer shows a journey there is.
AnswersAreJourneys ==
  \A query \in Queries, order \in Orders(DOMAIN rides) :
    LET found == Search(rides, order, query)
    IN  \A n \in DOMAIN found : \E jn \in Journeys(rides, query) : Shows(rides, found[n], jn)

\* A CONFIRM of itinerary it is well-formed and granted, and sells what is shown.
Bookable(it) == Inputs(it) \in Seq(LegInput) /\ PlanOK(Inputs(it)) /\ AsShown(it)

\* A passenger who confirms before anything else happens gets any itinerary of
\* the answer, as it was shown.
FreshIsBookable ==
  [][\A p \in Names : shown'[p] # shown[p] =>
       \A n \in DOMAIN shown'[p] : Bookable(shown'[p][n])]_tripVars

\* A line of a list can be picked however old it is: what it names is still
\* there, and still the user's, whatever was cancelled, failed or restarted
\* since.  So a pick never ends in NOT_FOUND or FORBIDDEN.
ListedStillThere ==
  up => \A u \in DOMAIN users : listed[u] \subseteq Own(u)

\* Ride ride is what a driver typed: the route, the day, and to the centavo
\* every price.
AsTyped(ride) ==
  \E form \in Forms :
    /\ form.cities = ride.cities
    /\ form.date = ride.date
    /\ \A s \in DOMAIN form.texts :
         /\ form.texts[s] # Garbage
         /\ Len(form.texts[s].frac) <= 2
         /\ Meant(form.texts[s]) = ride.prices[s]

\* Every price in the store is the one that was typed: where the centavos wrap
\* around behind the check of the reais, the store turns the price away.
PublishedAsTyped == \A r \in DOMAIN rides : AsTyped(rides[r])
=============================================================================

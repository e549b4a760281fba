------------------------------- MODULE Store --------------------------------
(***************************************************************************)
(* The in-memory store of the server and its state file                    *)
(* (src/internal/store).  Every mutating method runs from its first to its *)
(* last line under Store.mu.Lock, so one call is one action; the file is   *)
(* replaced by a rename, so a crash sees the old file or the new one.      *)
(*                                                                         *)
(* Every write of the file may fail (persistLocked returns an error), the  *)
(* process may stop between any two calls and be started again, and the    *)
(* caller learns of a call only by its reply.                              *)
(***************************************************************************)
EXTENDS Domain

CONSTANTS
  Names,            \* usernames; an account's user id is identified with its name
  Cities,           \* cities, one for each class of CitiesEqual
  Dates,            \* departure dates
  RideIds,          \* what newID("ride-") may return
  ResIds,           \* what newID("res-") may return
  RequestIds,       \* the requestId field of a CONFIRM
  None,             \* no name, no city, no date, no requestId, no id
  SeedUsers,        \* the demo accounts: a map from names to roles
  RegisterRequests, \* the arguments callers pass to Register, ...
  PublishRequests,  \* ... to PublishRide, ...
  LegRequests       \* ... and to ConfirmReservation

LegInput == [ride : RideIds, origin : Cities, destination : Cities]

PublishInput == [cities : Seq(Cities \cup {None}), date : Dates \cup {None},
                 capacity : Int, prices : Seq(Int)]

\* newID draws 8 random bytes.
ASSUME IdsFinite == IsFiniteSet(ResIds) /\ IsFiniteSet(RideIds)

ASSUME NoneIsNoValue ==
  None \notin Names \cup Cities \cup Dates \cup RideIds \cup ResIds \cup RequestIds

ASSUME SeedUsersType == IsMap(SeedUsers, Names, Roles) /\ SeedUsers # EmptyMap

ASSUME RegisterRequestsType ==
  RegisterRequests \subseteq [name : Names \cup {None}, role : Roles \cup {None}]

ASSUME PublishRequestsType == PublishRequests \subseteq PublishInput

ASSUME LegRequestsType == LegRequests \subseteq Seq(LegInput)

VARIABLES
  up,           \* the process runs and serves calls
  users,        \* Store.users (and usersByID): name -> role
  rides,        \* Store.rides: ride id -> ride
  reservations, \* Store.reservations: reservation id -> reservation
  confirmIndex, \* Store.confirmIndex: <<passenger, requestId>> -> reservation id
  disk,         \* the state file; exists = FALSE when there is none
  reply         \* what the last call returned: operation, code, id

memory == <<users, rides, reservations, confirmIndex>>

vars == <<up, users, rides, reservations, confirmIndex, disk, reply>>

-----------------------------------------------------------------------------
(***************************************************************************)
(* Types.  A file's confirmIndex is written and never read back, so the    *)
(* model's file leaves it out.                                             *)
(***************************************************************************)
Ride == [driver : Names, cities : Seq(Cities), date : Dates, capacity : Nat \ {0},
         status : RideStatuses, avail : Seq(Int), prices : Seq(Nat)]

Leg == [ride : RideIds, segs : SUBSET Nat]

Reservation == [passenger : Names, requestId : RequestIds \cup {None},
                status : ReservationStatuses, legs : Seq(Leg)]

Operations == {"New", "Register", "PublishRide", "CancelRide", "ConfirmReservation",
               "CancelReservation"}

Codes == {"OK", "VALIDATION", "NOT_FOUND", "FORBIDDEN", "CONFLICT", "NO_SEATS",
          "ALREADY_EXISTS", "INTERNAL"}

StateOK(us, rd, rs) ==
  /\ IsMap(us, Names, Roles)
  /\ IsMap(rd, RideIds, Ride)
  /\ IsMap(rs, ResIds, Reservation)

TypeOK ==
  /\ up \in BOOLEAN
  /\ StateOK(users, rides, reservations)
  /\ IsMap(confirmIndex, Names \X RequestIds, ResIds)
  /\ DOMAIN disk = {"exists", "users", "rides", "reservations"}
  /\ disk.exists \in BOOLEAN
  /\ StateOK(disk.users, disk.rides, disk.reservations)
  /\ reply \in [op : Operations, code : Codes,
                id : Names \cup RideIds \cup ResIds \cup {None}]

-----------------------------------------------------------------------------
(***************************************************************************)
(* Replies and the state file.                                             *)
(***************************************************************************)
Answer(op, code, id) == reply' = [op |-> op, code |-> code, id |-> id]

\* A call that returns early leaves memory and file as they are.
Return(op, code, id) == Answer(op, code, id) /\ UNCHANGED <<up, memory, disk>>

NoFile == [exists |-> FALSE, users |-> EmptyMap, rides |-> EmptyMap,
           reservations |-> EmptyMap]

\* A file that holds no account: loadOrSeed seeds it like a missing one.
BlankFile == [exists |-> TRUE, users |-> EmptyMap, rides |-> EmptyMap,
              reservations |-> EmptyMap]

\* Mutant: the error of the write is ignored, the caller goes on.
PersistErrorIgnored ==
  disk' \in {disk, [exists |-> TRUE, users |-> users', rides |-> rides',
                    reservations |-> reservations']}

\* Mutant: only confirmed reservations are worth a place in the file.
PersistConfirmedOnly ==
  disk' = [exists |-> TRUE, users |-> users', rides |-> rides',
           reservations |->
             [i \in {i \in DOMAIN reservations' : reservations'[i].status = "CONFIRMED"} |->
                reservations'[i]]]

\* persistLocked when the temporary file is written and renamed.
persistLocked ==
  disk' = [exists |-> TRUE, users |-> users', rides |-> rides',
           reservations |-> reservations']

\* Mutant: the index of the file is trusted, and it may be empty.
RebuildNothing(rs) == EmptyMap

\* Mutant: reservations without a requestId are indexed too.
RebuildAll(rs) ==
  [key \in {<<rs[i].passenger, rs[i].requestId>> : i \in DOMAIN rs} |->
     CHOOSE i \in DOMAIN rs : <<rs[i].passenger, rs[i].requestId>> = key]

\* confirmIndex as rebuilt from the reservations of the file (a map iteration
\* of the code picks among reservations with one key; Idempotent says there is
\* never a choice).
rebuildIndexesLocked(rs) ==
  LET keyed == {i \in DOMAIN rs : rs[i].requestId # None}
  IN  [key \in {<<rs[i].passenger, rs[i].requestId>> : i \in keyed} |->
         CHOOSE i \in keyed : <<rs[i].passenger, rs[i].requestId>> = key]

-----------------------------------------------------------------------------
(***************************************************************************)
(* Start and stop of the process.                                          *)
(***************************************************************************)
Init ==
  /\ up = FALSE
  /\ users = EmptyMap
  /\ rides = EmptyMap
  /\ reservations = EmptyMap
  /\ confirmIndex = EmptyMap
  /\ disk \in {NoFile, BlankFile}
  /\ reply = [op |-> "New", code |-> "OK", id |-> None]

\* New: load the file, or seed a missing or blank one.  When the file cannot be
\* read, or the seeds cannot be written, New fails and the process ends.
New ==
  /\ ~up
  /\ \/ /\ up' = TRUE
        /\ users' = IF disk.users = EmptyMap THEN SeedUsers ELSE disk.users
        /\ rides' = disk.rides
        /\ reservations' = disk.reservations
        /\ confirmIndex' = rebuildIndexesLocked(disk.reservations)
        /\ IF disk.users = EmptyMap THEN persistLocked ELSE UNCHANGED disk
        /\ Answer("New", "OK", None)
     \/ Return("New", "INTERNAL", None)

\* The process stops: what it held in memory is gone.
Crash ==
  /\ up
  /\ up' = FALSE
  /\ users' = EmptyMap
  /\ rides' = EmptyMap
  /\ reservations' = EmptyMap
  /\ confirmIndex' = EmptyMap
  /\ UNCHANGED <<disk, reply>>

-----------------------------------------------------------------------------
(***************************************************************************)
(* Accounts and rides.                                                     *)
(***************************************************************************)
RegisterError(req) ==
  IF req.name = None \/ req.role \notin Roles THEN "VALIDATION"
  ELSE IF req.name \in DOMAIN users THEN "ALREADY_EXISTS"
  ELSE "OK"

\* Mutant: a failed write leaves the account in memory.
RegisterNoUndo(req) ==
  /\ up
  /\ RegisterError(req) = "OK"
  /\ users' = Put(users, req.name, req.role)
  /\ UNCHANGED <<up, rides, reservations, confirmIndex>>
  /\ \/ persistLocked /\ Answer("Register", "OK", req.name)
     \/ UNCHANGED disk /\ Answer("Register", "INTERNAL", None)

\* A failed write takes the account out of both maps again.
Register(req) ==
  /\ up
  /\ \/ /\ RegisterError(req) # "OK"
        /\ Return("Register", RegisterError(req), None)
     \/ /\ RegisterError(req) = "OK"
        /\ users' = Put(users, req.name, req.role)
        /\ UNCHANGED <<up, rides, reservations, confirmIndex>>
        /\ persistLocked
        /\ Answer("Register", "OK", req.name)
     \/ /\ RegisterError(req) = "OK"
        /\ Return("Register", "INTERNAL", None)

PublishValid(req) ==
  /\ Len(req.cities) >= 2
  /\ \A i \in DOMAIN req.cities : req.cities[i] # None
  /\ \A i, j \in DOMAIN req.cities : i # j => req.cities[i] # req.cities[j]
  /\ req.capacity >= 1
  /\ Len(req.prices) = Len(req.cities) - 1
  /\ \A i \in DOMAIN req.prices : req.prices[i] >= 0
  /\ req.date # None

NewRide(driver, req) ==
  [driver |-> driver, cities |-> req.cities, date |-> req.date,
   capacity |-> req.capacity, status |-> "ACTIVE",
   avail |-> [s \in 1 .. (Len(req.cities) - 1) |-> req.capacity], prices |-> req.prices]

\* Mutant: a failed write leaves the ride in memory.
PublishRideNoUndo(driver, req) ==
  /\ up
  /\ PublishValid(req)
  /\ UNCHANGED <<up, users, reservations, confirmIndex>>
  /\ \E r \in RideIds \ DOMAIN rides :
       /\ rides' = Put(rides, r, NewRide(driver, req))
       /\ \/ persistLocked /\ Answer("PublishRide", "OK", r)
          \/ UNCHANGED disk /\ Answer("PublishRide", "INTERNAL", None)

\* A failed write takes the ride out of the map again.
PublishRide(driver, req) ==
  /\ up
  /\ \/ /\ ~PublishValid(req)
        /\ Return("PublishRide", "VALIDATION", None)
     \/ /\ PublishValid(req)
        /\ \E r \in RideIds \ DOMAIN rides :
             /\ rides' = Put(rides, r, NewRide(driver, req))
             /\ Answer("PublishRide", "OK", r)
        /\ UNCHANGED <<up, users, reservations, confirmIndex>>
        /\ persistLocked
     \/ /\ PublishValid(req)
        /\ Return("PublishRide", "INTERNAL", None)

-----------------------------------------------------------------------------
(***************************************************************************)
(* Seats.                                                                  *)
(***************************************************************************)
LegsOver(legs, r, s) == {k \in DOMAIN legs : legs[k].ride = r /\ s \in legs[k].segs}

\* The seats the reservations in S take on segment s of ride r, one for each
\* leg that covers the segment.
SeatsOf(rs, S, r, s) == UNION {{i} \X LegsOver(rs[i].legs, r, s) : i \in S}

Confirmed(rs) == {i \in DOMAIN rs : rs[i].status = "CONFIRMED"}

\* What ListRidePassengers shows the driver on segment s of ride r.
RidePassengers(rs, r, s) == SeatsOf(rs, Confirmed(rs), r, s)

TakeSeats(legs) ==
  [r \in DOMAIN rides |->
     [rides[r] EXCEPT !.avail =
        [s \in DOMAIN rides[r].avail |->
           rides[r].avail[s] - Cardinality(LegsOver(legs, r, s))]]]

\* restoreReservationLocked for every reservation in S: one seat back on each
\* covered segment of a ride that is active, never beyond its capacity.
GiveSeatsBack(rd, rs, S) ==
  [r \in DOMAIN rd |->
     IF rd[r].status = "ACTIVE"
     THEN [rd[r] EXCEPT !.avail =
             [s \in DOMAIN rd[r].avail |->
                LET n == rd[r].avail[s] + Cardinality(SeatsOf(rs, S, r, s))
                IN  IF n <= rd[r].capacity THEN n ELSE rd[r].capacity]]
     ELSE rd[r]]

CancelAll(rs, S) ==
  [i \in DOMAIN rs |-> IF i \in S THEN [rs[i] EXCEPT !.status = "CANCELLED"] ELSE rs[i]]

-----------------------------------------------------------------------------
(***************************************************************************)
(* ConfirmReservation.                                                     *)
(***************************************************************************)
LegSegments(in) ==
  IF in.ride \in DOMAIN rides
  THEN SegmentIndexesBetween(rides[in.ride].cities, in.origin, in.destination)
  ELSE {}

\* Mutant: repeated segments of one request are not looked for.
SeenNothing(inputs, i) == {}

\* Segments of the ride of leg i that earlier legs of the request use.
Seen(inputs, i) ==
  UNION {LegSegments(inputs[j]) : j \in {j \in 1 .. (i - 1) : inputs[j].ride = inputs[i].ride}}

\* A segment leg i cannot have, because of an earlier leg or of a full car.
Refused(inputs, i) ==
  {s \in LegSegments(inputs[i]) :
     s \in Seen(inputs, i) \/ rides[inputs[i].ride].avail[s] < 1}

\* Mutant: legs need not connect, nor be on one day.
LegErrorSeatsOnly(inputs, i) ==
  LET in == inputs[i]
  IN  IF in.ride \notin DOMAIN rides THEN "NOT_FOUND"
      ELSE IF rides[in.ride].status # "ACTIVE" THEN "CONFLICT"
      ELSE IF LegSegments(in) = {} THEN "VALIDATION"
      ELSE IF Refused(inputs, i) # {} THEN "NO_SEATS"
      ELSE "OK"

\* What planConfirmLocked finds wrong with leg i when the legs before it are
\* in order.
LegError(inputs, i) ==
  LET in == inputs[i]
      ride == rides[in.ride]
  IN  IF in.ride \notin DOMAIN rides THEN "NOT_FOUND"
      ELSE IF ride.status # "ACTIVE" THEN "CONFLICT"
      ELSE IF LegSegments(in) = {} THEN "VALIDATION"
      ELSE IF i > 1 /\ ride.date # rides[inputs[1].ride].date THEN "VALIDATION"
      ELSE IF Refused(inputs, i) # {}
           THEN IF First(Refused(inputs, i)) \in Seen(inputs, i)
                THEN "VALIDATION" ELSE "NO_SEATS"
      ELSE IF i > 1 /\ inputs[i - 1].destination # in.origin THEN "VALIDATION"
      ELSE "OK"

PlanOK(inputs) ==
  inputs # << >> /\ \A i \in DOMAIN inputs : LegError(inputs, i) = "OK"

\* Leg i is the first one in error.
FirstError(inputs, i) ==
  /\ \A j \in 1 .. (i - 1) : LegError(inputs, j) = "OK"
  /\ LegError(inputs, i) # "OK"

PlannedLegs(inputs) ==
  [i \in DOMAIN inputs |-> [ride |-> inputs[i].ride, segs |-> LegSegments(inputs[i])]]

\* A request that was answered before: same passenger, same requestId.
Replayed(p, q) ==
  /\ <<p, q>> \in DOMAIN confirmIndex
  /\ confirmIndex[<<p, q>>] \in DOMAIN reservations

\* Mutant: a failed write is answered with an error and not undone.
BookNoUndo(p, q, inputs, id) ==
  LET legs == PlannedLegs(inputs)
  IN  /\ rides' = TakeSeats(legs)
      /\ reservations' = Put(reservations, id,
                             [passenger |-> p, requestId |-> q,
                              status |-> "CONFIRMED", legs |-> legs])
      /\ confirmIndex' = IF q = None THEN confirmIndex
                         ELSE Put(confirmIndex, <<p, q>>, id)
      /\ UNCHANGED <<up, users>>
      /\ \/ persistLocked /\ Answer("ConfirmReservation", "OK", id)
         \/ UNCHANGED disk /\ Answer("ConfirmReservation", "INTERNAL", None)

\* The seats, the reservation and its key, all or none of them: when the file
\* cannot be written the code undoes the three.
Book(p, q, inputs, id) ==
  LET legs == PlannedLegs(inputs)
  IN  /\ rides' = TakeSeats(legs)
      /\ reservations' = Put(reservations, id,
                             [passenger |-> p, requestId |-> q,
                              status |-> "CONFIRMED", legs |-> legs])
      /\ confirmIndex' = IF q = None THEN confirmIndex
                         ELSE Put(confirmIndex, <<p, q>>, id)
      /\ UNCHANGED <<up, users>>
      /\ persistLocked
      /\ Answer("ConfirmReservation", "OK", id)

ConfirmReservation(p, q, inputs) ==
  /\ up
  /\ \/ /\ Replayed(p, q)
        /\ Return("ConfirmReservation", "OK", confirmIndex[<<p, q>>])
     \/ /\ ~Replayed(p, q)
        /\ inputs = << >>
        /\ Return("ConfirmReservation", "VALIDATION", None)
     \/ /\ ~Replayed(p, q)
        /\ \E i \in DOMAIN inputs :
             /\ FirstError(inputs, i)
             /\ Return("ConfirmReservation", LegError(inputs, i), None)
     \/ /\ ~Replayed(p, q)
        /\ PlanOK(inputs)
        /\ \E id \in ResIds \ DOMAIN reservations : Book(p, q, inputs, id)
     \/ /\ ~Replayed(p, q)
        /\ PlanOK(inputs)
        /\ Return("ConfirmReservation", "INTERNAL", None)

-----------------------------------------------------------------------------
(***************************************************************************)
(* Cancellations.  A failed write is reported, and the change stays in     *)
(* memory: neither method undoes it.                                       *)
(***************************************************************************)
\* The end of both methods: the caller hears OK only if the file was written.
PersistAndAnswer(op, id) ==
  \/ persistLocked /\ Answer(op, "OK", id)
  \/ UNCHANGED disk /\ Answer(op, "INTERNAL", None)

\* Mutant: cancelling twice gives the seats back twice.
CancelReservationTwice(p, id) ==
  /\ up
  /\ id \in DOMAIN reservations
  /\ reservations[id].passenger = p
  /\ rides' = GiveSeatsBack(rides, reservations, {id})
  /\ reservations' = CancelAll(reservations, {id})
  /\ UNCHANGED <<up, users, confirmIndex>>
  /\ PersistAndAnswer("CancelReservation", id)

CancelReservation(p, id) ==
  /\ up
  /\ \/ /\ id \notin DOMAIN reservations
        /\ Return("CancelReservation", "NOT_FOUND", None)
     \/ /\ id \in DOMAIN reservations
        /\ reservations[id].passenger # p
        /\ Return("CancelReservation", "FORBIDDEN", None)
     \/ /\ id \in DOMAIN reservations
        /\ reservations[id].passenger = p
        /\ reservations[id].status = "CANCELLED"
        /\ Return("CancelReservation", "OK", id)
     \/ /\ id \in Confirmed(reservations)
        /\ reservations[id].passenger = p
        /\ rides' = GiveSeatsBack(rides, reservations, {id})
        /\ reservations' = CancelAll(reservations, {id})
        /\ UNCHANGED <<up, users, confirmIndex>>
        /\ PersistAndAnswer("CancelReservation", id)

\* Mutant: only the first leg of an itinerary is looked at.
UsersOfRideFirstLeg(rs, r) ==
  {i \in Confirmed(rs) : rs[i].legs[1].ride = r}

\* reservationUsesRide, for the confirmed ones.
UsersOfRide(rs, r) ==
  {i \in Confirmed(rs) : \E k \in DOMAIN rs[i].legs : rs[i].legs[k].ride = r}

\* The ride is cancelled first, so its own segments get no seat back.
CancelRide(driver, r) ==
  /\ up
  /\ \/ /\ r \notin DOMAIN rides
        /\ Return("CancelRide", "NOT_FOUND", None)
     \/ /\ r \in DOMAIN rides
        /\ rides[r].driver # driver
        /\ Return("CancelRide", "FORBIDDEN", None)
     \/ /\ r \in DOMAIN rides
        /\ rides[r].driver = driver
        /\ rides[r].status = "CANCELLED"
        /\ Return("CancelRide", "OK", r)
     \/ /\ r \in DOMAIN rides
        /\ rides[r].driver = driver
        /\ rides[r].status = "ACTIVE"
        /\ LET S == UsersOfRide(reservations, r)
           IN  /\ rides' = GiveSeatsBack([rides EXCEPT ![r].status = "CANCELLED"],
                                         reservations, S)
               /\ reservations' = CancelAll(reservations, S)
        /\ UNCHANGED <<up, users, confirmIndex>>
        /\ PersistAndAnswer("CancelRide", r)

-----------------------------------------------------------------------------
\* Who may call: the server checks the role of the session's account.
WithRole(role) == {u \in DOMAIN users : users[u] = role}

Next ==
  \/ New
  \/ Crash
  \/ \E req \in RegisterRequests : Register(req)
  \/ \E d \in WithRole("DRIVER") :
       \/ \E req \in PublishRequests : PublishRide(d, req)
       \/ \E r \in RideIds : CancelRide(d, r)
  \/ \E p \in WithRole("PASSENGER") :
       \/ \E q \in RequestIds \cup {None}, inputs \in LegRequests :
            ConfirmReservation(p, q, inputs)
       \/ \E id \in ResIds : CancelReservation(p, id)

Spec == Init /\ [][Next]_vars

-----------------------------------------------------------------------------
(***************************************************************************)
(* Properties.  Those on rides and reservations are required of the memory *)
(* and of the file, which after a failed cancellation are not the same.    *)
(***************************************************************************)
Conserved(rd, rs) ==
  \A r \in DOMAIN rd : rd[r].status = "ACTIVE" =>
    \A s \in DOMAIN rd[r].avail :
      rd[r].avail[s] + Cardinality(RidePassengers(rs, r, s)) = rd[r].capacity

\* INV-3, INV-4, INV-8: on every segment of an active ride the free seats and
\* the seats of the passengers the driver is shown add up to the capacity,
\* whatever sequence of confirmations, cancellations, failed writes and
\* restarts led there.
SeatConservation ==
  Conserved(rides, reservations) /\ Conserved(disk.rides, disk.reservations)

Bounded(rd) ==
  \A r \in DOMAIN rd : \A s \in DOMAIN rd[r].avail :
    0 <= rd[r].avail[s] /\ rd[r].avail[s] <= rd[r].capacity

\* INV-1, INV-2 (invariantsLocked): no segment is sold more often than the car
\* has seats, and none gets back more seats than it has.
SeatBounds == Bounded(rides) /\ Bounded(disk.rides)

NobodyOnCancelledRide(rd, rs) ==
  \A i \in Confirmed(rs) : \A k \in DOMAIN rs[i].legs :
    /\ rs[i].legs[k].ride \in DOMAIN rd
    /\ rd[rs[i].legs[k].ride].status = "ACTIVE"

\* A confirmed reservation travels on rides that exist and are active only:
\* CancelRide reaches every reservation that uses the ride, in whichever leg.
NoPassengerLeftBehind ==
  /\ NobodyOnCancelledRide(rides, reservations)
  /\ NobodyOnCancelledRide(disk.rides, disk.reservations)

OncePerRequest(rs) ==
  \A i, j \in DOMAIN rs :
    /\ rs[i].requestId # None
    /\ rs[i].passenger = rs[j].passenger
    /\ rs[i].requestId = rs[j].requestId
    => i = j

\* A passenger's requestId sells at most one itinerary, also across restarts,
\* and while the process runs confirmIndex leads a retransmission to it.
Idempotent ==
  /\ OncePerRequest(reservations)
  /\ OncePerRequest(disk.reservations)
  /\ \A i \in DOMAIN reservations : reservations[i].requestId # None =>
       Replayed(reservations[i].passenger, reservations[i].requestId)
  /\ \A key \in DOMAIN confirmIndex : confirmIndex[key] \in DOMAIN reservations =>
       LET res == reservations[confirmIndex[key]]
       IN  key = <<res.passenger, res.requestId>>

\* The same itinerary or ride but for its status (and its seats), cancelled
\* wherever the older version is.
LaterReservation(old, new) ==
  /\ new.legs = old.legs
  /\ new.passenger = old.passenger
  /\ new.requestId = old.requestId
  /\ old.status = "CANCELLED" => new.status = "CANCELLED"

LaterRide(old, new) ==
  /\ new.driver = old.driver
  /\ new.cities = old.cities
  /\ new.date = old.date
  /\ new.capacity = old.capacity
  /\ new.prices = old.prices
  /\ old.status = "CANCELLED" => new.status = "CANCELLED"

SameAccount(old, new) == new = old

\* The second state knows all that the first does, and adds only what Later
\* allows to what both know.
Extends(map, later, Later(_, _)) ==
  DOMAIN map \subseteq DOMAIN later /\ \A k \in DOMAIN map : Later(map[k], later[k])

\* A crash at any moment loses no account, no ride and no reservation, and no
\* status other than a cancellation whose write failed: what is in memory and
\* on disk differs in nothing else.
CrashLosesOnlyCancellations ==
  up => /\ disk.exists
        /\ disk.users = users
        /\ DOMAIN rides = DOMAIN disk.rides
        /\ DOMAIN reservations = DOMAIN disk.reservations
        /\ Extends(disk.rides, rides, LaterRide)
        /\ Extends(disk.reservations, reservations, LaterReservation)

\* INV-10 for what creates something: an account, a ride or a reservation
\* that was answered with OK is in the file, also after a crash.
CreationPersisted ==
  reply.code = "OK" =>
    /\ reply.op = "Register" => reply.id \in DOMAIN disk.users
    /\ reply.op = "PublishRide" => reply.id \in DOMAIN disk.rides
    /\ reply.op = "ConfirmReservation" => reply.id \in DOMAIN disk.reservations

\* INV-10 for a cancelled reservation: OK means the cancellation is in the
\* file.  (It is not: see the early return of CancelReservation.)
CancelReservationPersisted ==
  reply.code = "OK" /\ reply.op = "CancelReservation" =>
    disk.reservations[reply.id].status = "CANCELLED"

\* INV-10 for a cancelled ride.  (It is not: see the early return of CancelRide.)
CancelRidePersisted ==
  reply.code = "OK" /\ reply.op = "CancelRide" =>
    disk.rides[reply.id].status = "CANCELLED"

\* The file never forgets: across writes, failures and restarts no account
\* changes, no ride or reservation vanishes, and a cancellation stays.
FileGrows ==
  /\ Extends(disk.users, disk'.users, SameAccount)
  /\ Extends(disk.rides, disk'.rides, LaterRide)
  /\ Extends(disk.reservations, disk'.reservations, LaterReservation)

\* The same, of every step.
FileOnlyGrows == [][FileGrows]_vars

\* First and last city of a leg.
LegFrom(rd, leg) == rd[leg.ride].cities[First(leg.segs)]

LegTo(rd, leg) == rd[leg.ride].cities[1 + Final(leg.segs)]

\* The legs make one journey: every leg rides on, each from where the one
\* before it ends, all on one day, and no segment is bought twice.
JourneyIn(rd, legs) ==
  \A k \in DOMAIN legs :
    /\ legs[k].ride \in DOMAIN rd
    /\ legs[k].segs # {}
    /\ legs[k].segs \subseteq DOMAIN rd[legs[k].ride].avail
    /\ rd[legs[k].ride].date = rd[legs[1].ride].date
    /\ k > 1 => LegTo(rd, legs[k - 1]) = LegFrom(rd, legs[k])
    /\ \A l \in DOMAIN legs :
         l # k /\ legs[l].ride = legs[k].ride => legs[l].segs \cap legs[k].segs = {}

\* A reservation is one journey, whatever became of its rides since.
OneJourney == \A i \in DOMAIN reservations : JourneyIn(rides, reservations[i].legs)

-----------------------------------------------------------------------------
(***************************************************************************)
(* The inductive invariant.  What holds of the memory holds of the file,   *)
(* because the file is always an earlier memory or the present one.        *)
(***************************************************************************)
Sound(rd, rs) ==
  /\ Conserved(rd, rs)
  /\ Bounded(rd)
  /\ NobodyOnCancelledRide(rd, rs)
  /\ OncePerRequest(rs)

\* confirmIndex holds the key of every reservation that has one, and no other.
IndexExact ==
  /\ \A i \in DOMAIN reservations :
       LET key == <<reservations[i].passenger, reservations[i].requestId>>
       IN  reservations[i].requestId # None =>
             key \in DOMAIN confirmIndex /\ confirmIndex[key] = i
  /\ \A key \in DOMAIN confirmIndex :
       /\ confirmIndex[key] \in DOMAIN reservations
       /\ key = <<reservations[confirmIndex[key]].passenger,
                  reservations[confirmIndex[key]].requestId>>

\* Strengthens every invariant above but OneJourney (see JInv): seats are
\* counted over confirmed reservations whose rides exist, and a key is exact
\* both ways.
IInv ==
  /\ TypeOK
  /\ Sound(rides, reservations)
  /\ Sound(disk.rides, disk.reservations)
  /\ ~disk.exists => disk.users = EmptyMap
  /\ IndexExact
  /\ CrashLosesOnlyCancellations
  /\ CreationPersisted

\* A counter of free seats for each segment of each route, and reservations
\* that are journeys.
RoutesOK(rd, rs) ==
  /\ \A r \in DOMAIN rd : DOMAIN rd[r].avail = 1 .. (Len(rd[r].cities) - 1)
  /\ \A i \in DOMAIN rs : JourneyIn(rd, rs[i].legs)

\* What makes OneJourney inductive: a crash brings back what the file holds.
JInv == RoutesOK(rides, reservations) /\ RoutesOK(disk.rides, disk.reservations)
=============================================================================

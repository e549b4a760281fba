----------------------------- MODULE TripProofs ------------------------------
(***************************************************************************)
(* Proofs about Trip for all rides, routes, forms and prices: what a list  *)
(* names stays there, what is published is what was typed, and of a shown  *)
(* itinerary only the seats go stale.                                      *)
(***************************************************************************)
EXTENDS Trip, StoreProofs, PathProofs

-----------------------------------------------------------------------------
(***************************************************************************)
(* Prices.                                                                 *)
(***************************************************************************)
\* The reais that pass the check are an int, and one real more of centavos
\* is the same number or, past the largest int, a negative one.
LEMMA AsIntNear ==
  ASSUME NEW n \in 0 .. MaxInt + 99
  PROVE  AsInt(n) = n \/ (AsInt(n) \in Int /\ AsInt(n) < 0)
<1>1. MaxInt \in Nat /\ MaxInt >= 127
  BY MaxIntAssumption
<1>2. Modulus \in Nat /\ Modulus > n
  BY <1>1 DEF Modulus
<1>3. n % Modulus = n
  BY <1>2
<1>4. AsInt(n) = IF n > MaxInt THEN n - Modulus ELSE n
  BY <1>3 DEF AsInt
<1> QED
  BY <1>1, <1>4 DEF Modulus

\* A text the terminal takes for a price that is not negative is that price.
LEMMA ParsedAsMeant ==
  ASSUME NEW text \in Text, ParseBRLToCents(text) # Rejected
  PROVE  /\ ParseBRLToCents(text) \in Int
         /\ ParseBRLToCents(text) >= 0 =>
              /\ text # Garbage
              /\ Len(text.frac) <= 2
              /\ Meant(text) = ParseBRLToCents(text)
<1>1. /\ text # Garbage
      /\ ~ (Len(text.frac) > 2)
      /\ ~ (text.whole > MaxInt \div 100)
      /\ ParseBRLToCents(text) = AsInt(AsInt(100 * text.whole) + Centavos(text.frac))
  BY DEF ParseBRLToCents
<1>2. text.whole \in Nat /\ text.frac \in Seq(0 .. 9)
  BY <1>1 DEF Text
<1>3. Len(text.frac) \in 0 .. 2
  <2> DEFINE n == Len(text.frac)
  <2>1. n \in Nat
    BY <1>2, LenProperties
  <2>2. ~ (n > 2)
    BY <1>1
  <2> HIDE DEF n
  <2>3. n \in 0 .. 2
    BY <2>1, <2>2
  <2> QED
    BY <2>3 DEF n
<1>4. Centavos(text.frac) \in 0 .. 99
  <2>1. \A k \in 1 .. Len(text.frac) : text.frac[k] \in 0 .. 9
    BY <1>2, ElementOfSeq
  <2>2. CASE Len(text.frac) = 0
    BY <2>2 DEF Centavos
  <2>3. CASE Len(text.frac) = 1
    <3>1. text.frac[1] \in 0 .. 9
      BY <2>1, <2>3
    <3>2. Centavos(text.frac) = 10 * text.frac[1]
      BY <2>3 DEF Centavos
    <3> QED
      BY <3>1, <3>2
  <2>4. CASE Len(text.frac) = 2
    <3>1. text.frac[1] \in 0 .. 9 /\ text.frac[2] \in 0 .. 9
      BY <2>1, <2>4
    <3>2. Centavos(text.frac) = 10 * text.frac[1] + text.frac[2]
      BY <2>4 DEF Centavos
    <3> QED
      BY <3>1, <3>2
  <2>5. Len(text.frac) = 0 \/ Len(text.frac) = 1 \/ Len(text.frac) = 2
    BY <1>3
  <2> QED
    BY <2>2, <2>3, <2>4, <2>5
<1>5. 100 * text.whole \in 0 .. MaxInt
  BY <1>1, <1>2, MaxIntAssumption
<1>6. AsInt(100 * text.whole) = 100 * text.whole
  <2>1. MaxInt \in Nat /\ Modulus = 2 * MaxInt + 2
    BY MaxIntAssumption DEF Modulus
  <2>2. (100 * text.whole) % Modulus = 100 * text.whole
    BY <1>5, <2>1
  <2> QED
    BY <1>5, <2>1, <2>2 DEF AsInt
<1>7. ParseBRLToCents(text) = AsInt(Meant(text))
  BY <1>1, <1>6 DEF Meant
<1>8. Meant(text) \in 0 .. MaxInt + 99
  <2>1. MaxInt \in Nat
    BY MaxIntAssumption
  <2> DEFINE w == 100 * text.whole
             c == Centavos(text.frac)
  <2>2. Meant(text) = w + c /\ w \in 0 .. MaxInt /\ c \in 0 .. 99
    BY <1>4, <1>5 DEF Meant
  <2> HIDE DEF w, c
  <2> QED
    BY <2>1, <2>2
<1> QED
  BY <1>1, <1>3, <1>7, <1>8, AsIntNear

-----------------------------------------------------------------------------
(***************************************************************************)
(* The inductive invariant.  It asks nothing of the legs of a reservation  *)
(* or of how many seats are free, so it does not depend on what a          *)
(* passenger was shown: whatever is confirmed, accounts, routes and owners *)
(* stay.                                                                   *)
(***************************************************************************)
RideFields == {"driver", "cities", "date", "capacity", "status", "avail", "prices"}

ReservationFields == {"passenger", "requestId", "status", "legs"}

\* A ride has its fields, its route is one of different cities with a counter
\* and a price for each segment, and it is what was typed.
RideKept(ride) ==
  /\ DOMAIN ride = RideFields
  /\ ride.cities \in Seq(Cities)
  /\ \A i, j \in DOMAIN ride.cities : ride.cities[i] = ride.cities[j] => i = j
  /\ DOMAIN ride.avail = 1 .. (Len(ride.cities) - 1)
  /\ DOMAIN ride.prices = 1 .. (Len(ride.cities) - 1)
  /\ AsTyped(ride)

Records(us, rd, rs) ==
  /\ DOMAIN us \subseteq Names
  /\ \A r \in DOMAIN rd : RideKept(rd[r])
  /\ \A i \in DOMAIN rs : DOMAIN rs[i] = ReservationFields

Kept ==
  /\ Records(users, rides, reservations)
  /\ Records(disk.users, disk.rides, disk.reservations)
  /\ ~disk.exists => disk.users = EmptyMap
  /\ CrashLosesOnlyCancellations

\* What a state with these accounts, rides and reservations lists for u.
OwnIn(us, rd, rs, u) ==
  IF us[u] = "DRIVER"
  THEN {r \in DOMAIN rd : rd[r].driver = u}
  ELSE {i \in DOMAIN rs : rs[i].passenger = u}

\* A list on a screen is one of the file, also while the server is down.
ListsKept ==
  /\ DOMAIN listed = Names
  /\ \A u \in Names : listed[u] # {} =>
       /\ u \in DOMAIN disk.users
       /\ listed[u] \subseteq OwnIn(disk.users, disk.rides, disk.reservations, u)

-----------------------------------------------------------------------------
(***************************************************************************)
(* What a call does to accounts, rides and reservations.                   *)
(***************************************************************************)
\* Other free seats, the same ride.
LEMMA OtherSeats ==
  ASSUME NEW ride, RideKept(ride), NEW avail, DOMAIN avail = DOMAIN ride.avail
  PROVE  LET ride2 == [ride EXCEPT !.avail = avail]
         IN  LaterRide(ride, ride2) /\ RideKept(ride2)
BY DEF LaterRide, RideKept, RideFields, AsTyped

\* A cancelled ride is the same ride.
LEMMA OtherStatus ==
  ASSUME NEW ride, RideKept(ride)
  PROVE  LET ride2 == [ride EXCEPT !.status = "CANCELLED"]
         IN  LaterRide(ride, ride2) /\ RideKept(ride2)
BY DEF LaterRide, RideKept, RideFields, AsTyped

\* Whatever legs are booked, rides lose nothing but seats.
LEMMA SeatsTaken ==
  ASSUME NEW legs, \A r \in DOMAIN rides : RideKept(rides[r])
  PROVE  LET rd2 == TakeSeats(legs)
         IN  /\ DOMAIN rd2 = DOMAIN rides
             /\ \A r \in DOMAIN rides : LaterRide(rides[r], rd2[r]) /\ RideKept(rd2[r])
<1> DEFINE rd2 == TakeSeats(legs)
<1>1. DOMAIN rd2 = DOMAIN rides
  BY DEF TakeSeats
<1>2. ASSUME NEW r \in DOMAIN rides
      PROVE  \E avail : /\ DOMAIN avail = DOMAIN rides[r].avail
                        /\ rd2[r] = [rides[r] EXCEPT !.avail = avail]
  <2> DEFINE left == rd2[r].avail
  <2>1. DOMAIN left = DOMAIN rides[r].avail /\ rd2[r] = [rides[r] EXCEPT !.avail = left]
    BY DEF TakeSeats, RideKept, RideFields
  <2> HIDE DEF left, rd2
  <2> QED
    BY <2>1
<1>3. ASSUME NEW r \in DOMAIN rides
      PROVE  LaterRide(rides[r], rd2[r]) /\ RideKept(rd2[r])
  <2> HIDE DEF rd2
  <2>1. PICK avail : /\ DOMAIN avail = DOMAIN rides[r].avail
                     /\ rd2[r] = [rides[r] EXCEPT !.avail = avail]
    BY <1>2
  <2> QED
    BY <2>1, OtherSeats
<1> QED
  BY <1>1, <1>3

\* Whatever reservations give seats back, rides change in nothing else.
LEMMA SeatsGiven ==
  ASSUME NEW rd, NEW rs, NEW S, \A r \in DOMAIN rd : RideKept(rd[r])
  PROVE  LET rd2 == GiveSeatsBack(rd, rs, S)
         IN  /\ DOMAIN rd2 = DOMAIN rd
             /\ \A r \in DOMAIN rd : LaterRide(rd[r], rd2[r]) /\ RideKept(rd2[r])
<1> DEFINE rd2 == GiveSeatsBack(rd, rs, S)
<1>1. DOMAIN rd2 = DOMAIN rd
  BY DEF GiveSeatsBack
<1>2. ASSUME NEW r \in DOMAIN rd
      PROVE  \/ rd2[r] = rd[r]
             \/ \E avail : /\ DOMAIN avail = DOMAIN rd[r].avail
                           /\ rd2[r] = [rd[r] EXCEPT !.avail = avail]
  <2> DEFINE left == rd2[r].avail
  <2>1. /\ DOMAIN left = DOMAIN rd[r].avail
        /\ rd2[r] = rd[r] \/ rd2[r] = [rd[r] EXCEPT !.avail = left]
    BY DEF GiveSeatsBack, RideKept, RideFields
  <2> HIDE DEF left, rd2
  <2> QED
    BY <2>1
<1>3. ASSUME NEW r \in DOMAIN rd
      PROVE  LaterRide(rd[r], rd2[r]) /\ RideKept(rd2[r])
  <2> HIDE DEF rd2
  <2>1. CASE rd2[r] = rd[r]
    BY <2>1 DEF LaterRide
  <2>2. ASSUME NEW avail, DOMAIN avail = DOMAIN rd[r].avail,
               rd2[r] = [rd[r] EXCEPT !.avail = avail]
        PROVE  LaterRide(rd[r], rd2[r]) /\ RideKept(rd2[r])
    BY <2>2, OtherSeats
  <2> QED
    BY <1>2, <2>1, <2>2
<1> QED
  BY <1>1, <1>3

\* Cancelling reservations changes their status.
LEMMA MarkedCancelled ==
  ASSUME NEW rs, NEW S, \A i \in DOMAIN rs : DOMAIN rs[i] = ReservationFields
  PROVE  LET rs2 == CancelAll(rs, S)
         IN  /\ DOMAIN rs2 = DOMAIN rs
             /\ \A i \in DOMAIN rs : /\ LaterReservation(rs[i], rs2[i])
                                     /\ DOMAIN rs2[i] = ReservationFields
BY DEF CancelAll, LaterReservation, ReservationFields

\* A memory that has grown, and a file that is that memory or was not written
\* when nothing was added, are kept as before.
LEMMA Grown ==
  ASSUME Kept, up, up', Records(users', rides', reservations'), MemoryGrows,
         \/ persistLocked
         \/ /\ UNCHANGED <<users, disk>>
            /\ DOMAIN rides' = DOMAIN rides
            /\ DOMAIN reservations' = DOMAIN reservations
  PROVE  Kept' /\ FileGrows
<1>1. /\ Records(disk.users, disk.rides, disk.reservations)
      /\ disk.exists /\ disk.users = users
      /\ DOMAIN rides = DOMAIN disk.rides
      /\ DOMAIN reservations = DOMAIN disk.reservations
      /\ Extends(disk.rides, rides, LaterRide)
      /\ Extends(disk.reservations, reservations, LaterReservation)
  BY DEF Kept, CrashLosesOnlyCancellations
<1>2. Extends(disk.rides, rides', LaterRide)
  BY <1>1 DEF MemoryGrows, Extends, LaterRide
<1>3. Extends(disk.reservations, reservations', LaterReservation)
  BY <1>1 DEF MemoryGrows, Extends, LaterReservation
<1>4. CASE persistLocked
  <2>1. /\ disk'.exists = TRUE /\ disk'.users = users' /\ disk'.rides = rides'
        /\ disk'.reservations = reservations'
    BY <1>4 DEF persistLocked
  <2>2. Extends(rides', rides', LaterRide)
    BY DEF Extends, LaterRide
  <2>3. Extends(reservations', reservations', LaterReservation)
    BY DEF Extends, LaterReservation
  <2>4. CrashLosesOnlyCancellations'
    BY <2>1, <2>2, <2>3 DEF CrashLosesOnlyCancellations
  <2>5. FileGrows
    BY <1>1, <1>2, <1>3, <2>1 DEF FileGrows, MemoryGrows
  <2> QED
    BY <2>1, <2>4, <2>5 DEF Kept
<1>5. CASE /\ UNCHANGED <<users, disk>>
           /\ DOMAIN rides' = DOMAIN rides
           /\ DOMAIN reservations' = DOMAIN reservations
  <2>1. CrashLosesOnlyCancellations'
    BY <1>1, <1>2, <1>3, <1>5 DEF CrashLosesOnlyCancellations
  <2>2. FileGrows
    BY <1>5 DEF FileGrows, Extends, SameAccount, LaterRide, LaterReservation
  <2> QED
    BY <1>1, <1>5, <2>1, <2>2 DEF Kept
<1> QED
  BY <1>4, <1>5

\* A step that leaves memory and file alone.
LEMMA Untouched ==
  ASSUME Kept, UNCHANGED <<up, memory, disk>>
  PROVE  Kept' /\ FileGrows
BY DEF Kept, memory, CrashLosesOnlyCancellations, FileGrows, Extends, SameAccount,
       LaterRide, LaterReservation

-----------------------------------------------------------------------------
(***************************************************************************)
(* Every step keeps it, and takes nothing away from the file.              *)
(***************************************************************************)
\* A start brings back what the file holds, or writes a first file.
LEMMA NewKept ==
  ASSUME Kept, New
  PROVE  Kept' /\ FileGrows
<1>1. CASE Return("New", "INTERNAL", None)
  BY <1>1, Untouched DEF Return
<1>2. CASE /\ up' = TRUE
           /\ users' = IF disk.users = EmptyMap THEN SeedUsers ELSE disk.users
           /\ rides' = disk.rides
           /\ reservations' = disk.reservations
           /\ IF disk.users = EmptyMap THEN persistLocked ELSE UNCHANGED disk
  <2>0. Records(disk.users, disk.rides, disk.reservations)
    BY DEF Kept
  <2>1. /\ disk'.exists
        /\ disk'.users = users' /\ disk'.rides = rides' /\ disk'.reservations = reservations'
        /\ disk'.rides = disk.rides /\ disk'.reservations = disk.reservations
        /\ disk.users # EmptyMap => users' = disk.users
    <3>1. CASE disk.users = EmptyMap
      BY <1>2, <3>1 DEF persistLocked
    <3>2. CASE disk.users # EmptyMap
      BY <1>2, <3>2 DEF Kept
    <3> QED
      BY <3>1, <3>2
  <2>2. Records(users', rides', reservations')
    BY <1>2, <2>0, <2>1, SeedUsersType DEF Records, IsMap
  <2>3. CrashLosesOnlyCancellations'
    BY <2>1 DEF CrashLosesOnlyCancellations, Extends, LaterRide, LaterReservation
  <2>4. FileGrows
    BY <2>1, EmptyMapType DEF FileGrows, Extends, SameAccount, LaterRide, LaterReservation
  <2> QED
    BY <2>1, <2>2, <2>3, <2>4 DEF Kept
<1> QED
  BY <1>1, <1>2 DEF New

\* A crash loses the memory only.
LEMMA CrashKept ==
  ASSUME Kept, Crash
  PROVE  Kept' /\ FileGrows
<1>1. Records(users', rides', reservations')
  BY EmptyMapType DEF Crash, Records
<1>2. CrashLosesOnlyCancellations' /\ FileGrows
  BY DEF Crash, CrashLosesOnlyCancellations, FileGrows, Extends, SameAccount, LaterRide,
         LaterReservation
<1> QED
  BY <1>1, <1>2 DEF Crash, Kept

\* A form that is published becomes a ride as it was typed.
LEMMA PublishKept ==
  ASSUME Kept, NEW d, NEW form \in Forms, PublishTyped(d, form)
  PROVE  Kept' /\ FileGrows
<1> DEFINE req == [cities |-> form.cities, date |-> form.date, capacity |-> form.capacity,
                   prices |-> [n \in DOMAIN form.texts |-> ParseBRLToCents(form.texts[n])]]
<1>1. /\ \A n \in DOMAIN form.texts : ParseBRLToCents(form.texts[n]) # Rejected
      /\ PublishRide(d, req)
  BY DEF PublishTyped
<1>2. CASE Return("PublishRide", "VALIDATION", None) \/ Return("PublishRide", "INTERNAL", None)
  BY <1>2, Untouched DEF Return
<1>3. CASE /\ PublishValid(req)
           /\ \E r \in RideIds \ DOMAIN rides :
                /\ rides' = Put(rides, r, NewRide(d, req))
                /\ Answer("PublishRide", "OK", r)
           /\ UNCHANGED <<up, users, reservations, confirmIndex>>
           /\ persistLocked
  <2>1. PICK r \in RideIds \ DOMAIN rides : rides' = Put(rides, r, NewRide(d, req))
    BY <1>3
  <2> DEFINE ride == NewRide(d, req)
  <2>2. form.cities \in Seq(Cities)
    <3>1. form.cities \in Seq(Cities \cup {None})
      BY FormsType
    <3>2. \A i \in DOMAIN form.cities : form.cities[i] # None
      BY <1>3 DEF PublishValid
    <3>3. form.cities \in [DOMAIN form.cities -> Cities]
      BY <3>1, <3>2, LenProperties
    <3> QED
      BY <3>1, <3>3, SeqOver
  <2>3. ASSUME NEW n \in DOMAIN form.texts
        PROVE  /\ form.texts[n] # Garbage
               /\ Len(form.texts[n].frac) <= 2
               /\ Meant(form.texts[n]) = req.prices[n]
    <3>1. form.texts \in Seq(Text)
      BY FormsType
    <3>2. form.texts[n] \in Text
      BY <3>1, ElementOfSeq, LenProperties
    <3>3. req.prices[n] = ParseBRLToCents(form.texts[n]) /\ req.prices[n] >= 0
      BY <1>3 DEF PublishValid
    <3> QED
      BY <1>1, <3>2, <3>3, ParsedAsMeant
  <2>4. /\ DOMAIN ride = RideFields
        /\ ride.cities = form.cities /\ ride.date = form.date /\ ride.prices = req.prices
        /\ DOMAIN ride.avail = 1 .. (Len(form.cities) - 1)
        /\ \A i, j \in DOMAIN form.cities : form.cities[i] = form.cities[j] => i = j
    BY <1>3 DEF NewRide, RideFields, PublishValid
  <2>10. DOMAIN req.prices = 1 .. (Len(form.cities) - 1)
    <3>1. form.texts \in Seq(Text) /\ Len(form.texts) = Len(form.cities) - 1
      BY FormsType
    <3> QED
      BY <3>1, LenProperties
  <2> HIDE DEF ride
  <2>5. RideKept(ride)
    <3> DEFINE Fits(f) == /\ f.cities = ride.cities
                          /\ f.date = ride.date
                          /\ \A s \in DOMAIN f.texts : /\ f.texts[s] # Garbage
                                                       /\ Len(f.texts[s].frac) <= 2
                                                       /\ Meant(f.texts[s]) = ride.prices[s]
    <3>0. Fits(form)
      BY <2>3, <2>4
    <3>1. AsTyped(ride)
      <4>1. \E f \in Forms : Fits(f)
        <5> HIDE DEF Fits
        <5> QED
          BY <3>0
      <4> QED
        BY <4>1 DEF AsTyped
    <3> QED
      BY <2>2, <2>4, <2>10, <3>1 DEF RideKept
  <2>6. /\ DOMAIN rides' = DOMAIN rides \cup {r}
        /\ rides'[r] = ride
        /\ \A x \in DOMAIN rides : rides'[x] = rides[x]
    BY <2>1 DEF Put, ride
  <2>7. Records(users', rides', reservations')
    BY <1>3, <2>5, <2>6 DEF Kept, Records
  <2>8. MemoryGrows
    BY <1>3, <2>6 DEF MemoryGrows, Extends, SameAccount, LaterRide, LaterReservation
  <2>9. up /\ up'
    BY <1>1, <1>3 DEF PublishRide
  <2> QED
    BY <1>3, <2>7, <2>8, <2>9, Grown
<1> QED
  BY <1>1, <1>2, <1>3 DEF PublishRide

\* A reservation is added, whatever its legs.
LEMMA ConfirmKept ==
  ASSUME Kept, NEW p, NEW q, NEW inputs, ConfirmReservation(p, q, inputs)
  PROVE  Kept' /\ FileGrows
<1>1. CASE UNCHANGED <<up, memory, disk>>
  BY <1>1, Untouched
<1>2. CASE \E id \in ResIds \ DOMAIN reservations : Book(p, q, inputs, id)
  <2>1. PICK id \in ResIds \ DOMAIN reservations : Book(p, q, inputs, id)
    BY <1>2
  <2> DEFINE legs == PlannedLegs(inputs)
             res == [passenger |-> p, requestId |-> q, status |-> "CONFIRMED", legs |-> legs]
  <2>2. /\ rides' = TakeSeats(legs)
        /\ reservations' = Put(reservations, id, res)
        /\ UNCHANGED <<up, users>>
        /\ persistLocked
    BY <2>1 DEF Book
  <2>3. DOMAIN res = ReservationFields
    BY DEF ReservationFields
  <2> HIDE DEF legs, res
  <2>4. /\ DOMAIN rides' = DOMAIN rides
        /\ \A r \in DOMAIN rides : LaterRide(rides[r], rides'[r]) /\ RideKept(rides'[r])
    BY <2>2, SeatsTaken DEF Kept, Records
  <2>5. /\ DOMAIN reservations' = DOMAIN reservations \cup {id}
        /\ reservations'[id] = res
        /\ \A i \in DOMAIN reservations : reservations'[i] = reservations[i]
    BY <2>2 DEF Put
  <2>6. Records(users', rides', reservations')
    BY <2>2, <2>3, <2>4, <2>5 DEF Kept, Records
  <2>7. MemoryGrows
    BY <2>2, <2>4, <2>5 DEF MemoryGrows, Extends, SameAccount, LaterReservation
  <2>8. up /\ up'
    BY <2>2 DEF ConfirmReservation
  <2> QED
    BY <2>2, <2>6, <2>7, <2>8, Grown
<1> QED
  BY <1>1, <1>2 DEF ConfirmReservation, Return

\* The common end of the two cancellations.
LEMMA CancelledKept ==
  ASSUME Kept, up, NEW op, NEW id, NEW rd, NEW S,
         DOMAIN rd = DOMAIN rides,
         \A r \in DOMAIN rides : LaterRide(rides[r], rd[r]) /\ RideKept(rd[r]),
         rides' = GiveSeatsBack(rd, reservations, S),
         reservations' = CancelAll(reservations, S),
         UNCHANGED <<up, users>>,
         PersistAndAnswer(op, id)
  PROVE  Kept' /\ FileGrows
<1>1. /\ DOMAIN rides' = DOMAIN rides
      /\ \A r \in DOMAIN rides : LaterRide(rd[r], rides'[r]) /\ RideKept(rides'[r])
  BY SeatsGiven
<1>2. /\ DOMAIN reservations' = DOMAIN reservations
      /\ \A i \in DOMAIN reservations :
           /\ LaterReservation(reservations[i], reservations'[i])
           /\ DOMAIN reservations'[i] = ReservationFields
  BY MarkedCancelled DEF Kept, Records
<1>3. Records(users', rides', reservations')
  BY <1>1, <1>2 DEF Kept, Records
<1>4. \A r \in DOMAIN rides : LaterRide(rides[r], rides'[r])
  BY <1>1 DEF LaterRide
<1>5. MemoryGrows
  BY <1>1, <1>2, <1>4 DEF MemoryGrows, Extends, SameAccount
<1> QED
  BY <1>1, <1>2, <1>3, <1>5, Grown DEF PersistAndAnswer

\* A cancelled reservation stays a reservation of the same passenger.
LEMMA CancelReservationKept ==
  ASSUME Kept, NEW p, NEW id, CancelReservation(p, id)
  PROVE  Kept' /\ FileGrows
<1>1. CASE UNCHANGED <<up, memory, disk>>
  BY <1>1, Untouched
<1>2. CASE /\ rides' = GiveSeatsBack(rides, reservations, {id})
           /\ reservations' = CancelAll(reservations, {id})
           /\ UNCHANGED <<up, users, confirmIndex>>
           /\ PersistAndAnswer("CancelReservation", id)
  <2>1. \A r \in DOMAIN rides : LaterRide(rides[r], rides[r]) /\ RideKept(rides[r])
    BY DEF Kept, Records, LaterRide
  <2>2. up
    BY DEF CancelReservation
  <2> QED
    BY <1>2, <2>1, <2>2, CancelledKept
<1> QED
  BY <1>1, <1>2 DEF CancelReservation, Return

\* A cancelled ride stays a ride of the same driver, and so do the
\* reservations that are cancelled with it.
LEMMA CancelRideKept ==
  ASSUME Kept, NEW d, NEW r, CancelRide(d, r)
  PROVE  Kept' /\ FileGrows
<1>1. CASE UNCHANGED <<up, memory, disk>>
  BY <1>1, Untouched
<1> DEFINE S == UsersOfRide(reservations, r)
           rd == [rides EXCEPT ![r].status = "CANCELLED"]
<1>2. CASE /\ r \in DOMAIN rides
           /\ rides' = GiveSeatsBack(rd, reservations, S)
           /\ reservations' = CancelAll(reservations, S)
           /\ UNCHANGED <<up, users, confirmIndex>>
           /\ PersistAndAnswer("CancelRide", r)
  <2>1. /\ DOMAIN rd = DOMAIN rides
        /\ rd[r] = [rides[r] EXCEPT !.status = "CANCELLED"]
        /\ \A x \in DOMAIN rides : x # r => rd[x] = rides[x]
    BY <1>2
  <2>2. LaterRide(rides[r], rd[r]) /\ RideKept(rd[r])
    BY <1>2, <2>1, OtherStatus DEF Kept, Records
  <2>3. \A x \in DOMAIN rides : LaterRide(rides[x], rd[x]) /\ RideKept(rd[x])
    BY <2>1, <2>2 DEF Kept, Records, LaterRide
  <2> HIDE DEF rd, S
  <2>4. up
    BY DEF CancelRide
  <2> QED
    BY <1>2, <2>1, <2>3, <2>4, CancelledKept
<1> QED
  BY <1>1, <1>2 DEF CancelRide, Return

\* Every step of the terminals and of the server.
LEMMA KeptStep ==
  ASSUME Kept, [TripNext]_tripVars
  PROVE  Kept' /\ FileGrows
<1>1. CASE UNCHANGED vars
  BY <1>1, Untouched DEF vars, memory
<1>2. CASE New
  BY <1>2, NewKept
<1>3. CASE Crash
  BY <1>3, CrashKept
<1>4. ASSUME NEW d, NEW r, CancelRide(d, r)
      PROVE  Kept' /\ FileGrows
  BY <1>4, CancelRideKept
<1>5. ASSUME NEW p, NEW id, CancelReservation(p, id)
      PROVE  Kept' /\ FileGrows
  BY <1>5, CancelReservationKept
<1>6. ASSUME NEW d, NEW form \in Forms, PublishTyped(d, form)
      PROVE  Kept' /\ FileGrows
  BY <1>6, PublishKept
<1>7. ASSUME NEW p, NEW q, ConfirmShown(p, q)
      PROVE  Kept' /\ FileGrows
  BY <1>7, ConfirmKept DEF ConfirmShown
<1> QED
  BY <1>1, <1>2, <1>3, <1>4, <1>5, <1>6, <1>7
  DEF TripNext, Others, SearchItineraries, List, CancelListed, Logout, tripVars

-----------------------------------------------------------------------------
(***************************************************************************)
(* Lists and prices.                                                       *)
(***************************************************************************)
\* What a user owns in a file stays the user's in every later file.
LEMMA OwnGrows ==
  ASSUME FileGrows, NEW u \in DOMAIN disk.users
  PROVE  /\ u \in DOMAIN disk'.users
         /\ OwnIn(disk.users, disk.rides, disk.reservations, u)
              \subseteq OwnIn(disk'.users, disk'.rides, disk'.reservations, u)
BY DEF FileGrows, Extends, SameAccount, LaterRide, LaterReservation, OwnIn

\* While the server is up, memory and file list the same.
LEMMA OwnInMemory ==
  ASSUME CrashLosesOnlyCancellations, up, NEW u \in DOMAIN users
  PROVE  /\ u \in DOMAIN disk.users
         /\ Own(u) = OwnIn(disk.users, disk.rides, disk.reservations, u)
BY DEF CrashLosesOnlyCancellations, Extends, LaterRide, LaterReservation, OwnIn, Own

\* The lists stay true: a new one is read while the server is up.
LEMMA ListsStep ==
  ASSUME Kept, ListsKept, [TripNext]_tripVars
  PROVE  ListsKept'
<1>0. FileGrows
  BY KeptStep
<1>1. ASSUME NEW u \in Names, listed[u] # {}
      PROVE  /\ u \in DOMAIN disk'.users
             /\ listed[u] \subseteq OwnIn(disk'.users, disk'.rides, disk'.reservations, u)
  BY <1>0, <1>1, OwnGrows DEF ListsKept
<1>2. CASE UNCHANGED listed
  BY <1>1, <1>2 DEF ListsKept
<1>3. ASSUME NEW u \in DOMAIN users, List(u)
      PROVE  ListsKept'
  <2>1. UNCHANGED disk /\ listed' = [listed EXCEPT ![u] = Own(u)] /\ up
    BY <1>3 DEF List, vars
  <2>2. /\ u \in DOMAIN disk.users
        /\ Own(u) = OwnIn(disk.users, disk.rides, disk.reservations, u)
    BY <2>1, OwnInMemory DEF Kept
  <2>3. DOMAIN listed' = Names /\ \A v \in Names : v # u => listed'[v] = listed[v]
    BY <2>1 DEF ListsKept
  <2>4. u \in Names => listed'[u] = Own(u)
    BY <2>1 DEF ListsKept
  <2> QED
    BY <1>1, <2>1, <2>2, <2>3, <2>4 DEF ListsKept
<1>4. ASSUME NEW u, Logout(u)
      PROVE  ListsKept'
  <2>1. listed' = [listed EXCEPT ![u] = {}]
    BY <1>4 DEF Logout
  <2>2. DOMAIN listed' = Names /\ \A v \in Names : listed'[v] = listed[v] \/ listed'[v] = {}
    BY <2>1 DEF ListsKept
  <2> QED
    BY <1>1, <2>2 DEF ListsKept
<1> QED
  BY <1>2, <1>3, <1>4
  DEF TripNext, Others, PublishTyped, SearchItineraries, ConfirmShown, CancelListed, screens,
      tripVars

\* Before the first start nothing is kept and nothing is listed.
LEMMA TripInitKept ==
  ASSUME TripInit
  PROVE  Kept /\ ListsKept
<1>1. /\ users = EmptyMap /\ rides = EmptyMap /\ reservations = EmptyMap
      /\ disk.users = EmptyMap /\ disk.rides = EmptyMap /\ disk.reservations = EmptyMap
  BY DEF TripInit, Init, NoFile, BlankFile
<1>2. Records(EmptyMap, EmptyMap, EmptyMap)
  BY EmptyMapType DEF Records
<1>3. CrashLosesOnlyCancellations
  BY DEF TripInit, Init, CrashLosesOnlyCancellations
<1> QED
  BY <1>1, <1>2, <1>3 DEF Kept, ListsKept, TripInit

\* The inductive invariant of the terminals.
THEOREM TripInvariant == TripSpec => [](Kept /\ ListsKept)
<1>1. TripInit => Kept /\ ListsKept
  BY TripInitKept
<1>2. (Kept /\ ListsKept) /\ [TripNext]_tripVars => (Kept /\ ListsKept)'
  BY KeptStep, ListsStep
<1> QED
  BY <1>1, <1>2, PTL DEF TripSpec

\* A line picked from a list, however old, names something that is there and
\* is the user's: it is never answered with NOT_FOUND or FORBIDDEN.
THEOREM ListsStay == TripSpec => []ListedStillThere
<1>1. Kept /\ ListsKept => ListedStillThere
  <2> SUFFICES ASSUME Kept, ListsKept, up, NEW u \in DOMAIN users
               PROVE  listed[u] \subseteq Own(u)
    BY DEF ListedStillThere
  <2>1. u \in Names
    BY DEF Kept, Records
  <2>2. Own(u) = OwnIn(disk.users, disk.rides, disk.reservations, u)
    BY OwnInMemory DEF Kept
  <2> QED
    BY <2>1, <2>2 DEF ListsKept
<1> QED
  BY <1>1, TripInvariant, PTL

\* The prices in the store are the prices that were typed, whatever the width
\* of the integers.
THEOREM Published == TripSpec => []PublishedAsTyped
<1>1. Kept => PublishedAsTyped
  BY DEF Kept, Records, RideKept, PublishedAsTyped
<1> QED
  BY <1>1, TripInvariant, PTL

\* What the file of a server with terminals holds, it never forgets.
THEOREM FileGrowsWithTerminals == TripSpec => [][FileGrows]_tripVars
<1>1. Kept /\ [TripNext]_tripVars => FileGrows
  BY KeptStep
<1> QED
  BY <1>1, TripInvariant, PTL DEF TripSpec

-----------------------------------------------------------------------------
(***************************************************************************)
(* Itineraries on the screen.  That the search answers journeys of the     *)
(* rides it is given is proved in PathProofs; what follows is what becomes *)
(* of them.                                                                *)
(***************************************************************************)
\* The segments of a leg on the routes of rd.
SegsIn(rd, in) == SegmentIndexesBetween(rd[in.ride].cities, in.origin, in.destination)

LegsIn(rd, inputs) ==
  [k \in DOMAIN inputs |-> [ride |-> inputs[k].ride, segs |-> SegsIn(rd, inputs[k])]]

\* On the routes of rd the legs are a trip, whatever seats are free and
\* whichever rides are cancelled.
Makes(rd, inputs) ==
  \A k \in DOMAIN inputs :
    /\ inputs[k].ride \in DOMAIN rd
    /\ SegsIn(rd, inputs[k]) # {}
    /\ k > 1 => /\ rd[inputs[k].ride].date = rd[inputs[1].ride].date
                /\ inputs[k - 1].destination = inputs[k].origin
    /\ \A j \in 1 .. (k - 1) : inputs[j].ride = inputs[k].ride =>
         SegsIn(rd, inputs[j]) \cap SegsIn(rd, inputs[k]) = {}

\* Itinerary it is a trip on the routes of rd, shown as it is.
ShownIn(rd, it) ==
  LET inputs == Inputs(it)
  IN  /\ inputs \in Seq(LegInput)
      /\ Makes(rd, inputs)
      /\ \A k \in DOMAIN inputs : SegsIn(rd, inputs[k]) = it.legs[k].segs
      /\ it.total = TotalOf(rd, LegsIn(rd, inputs))

\* What is on a screen is a trip on the routes of the file.
ShownKept ==
  /\ DOMAIN shown = Names
  /\ \A p \in Names : \A n \in DOMAIN shown[p] : ShownIn(disk.rides, shown[p][n])

\* The rides of rd are in rd2, with the same routes, days and prices.
SameTrips(rd, rd2) ==
  \A r \in DOMAIN rd : /\ r \in DOMAIN rd2
                       /\ rd2[r].cities = rd[r].cities
                       /\ rd2[r].date = rd[r].date
                       /\ rd2[r].prices = rd[r].prices

\* A trip depends on routes, days and prices only.
LEMMA ShownStays ==
  ASSUME NEW rd, NEW rd2, SameTrips(rd, rd2), NEW it, ShownIn(rd, it)
  PROVE  ShownIn(rd2, it)
<1> DEFINE inputs == Inputs(it)
<1>1. /\ inputs \in Seq(LegInput)
      /\ Makes(rd, inputs)
      /\ \A k \in DOMAIN inputs : SegsIn(rd, inputs[k]) = it.legs[k].segs
      /\ it.total = TotalOf(rd, LegsIn(rd, inputs))
  BY DEF ShownIn
<1> HIDE DEF inputs
<1>2. DOMAIN inputs = 1 .. Len(inputs) /\ Len(inputs) \in Nat
  BY <1>1, LenProperties
<1>3. ASSUME NEW k \in DOMAIN inputs
      PROVE  /\ inputs[k].ride \in DOMAIN rd /\ inputs[k].ride \in DOMAIN rd2
             /\ rd2[inputs[k].ride].cities = rd[inputs[k].ride].cities
             /\ rd2[inputs[k].ride].date = rd[inputs[k].ride].date
             /\ rd2[inputs[k].ride].prices = rd[inputs[k].ride].prices
             /\ SegsIn(rd2, inputs[k]) = SegsIn(rd, inputs[k])
  BY <1>1 DEF SameTrips, Makes, SegsIn
<1>4. Makes(rd2, inputs)
  <2> SUFFICES ASSUME NEW k \in DOMAIN inputs
               PROVE  /\ k > 1 => rd2[inputs[k].ride].date = rd2[inputs[1].ride].date
                      /\ \A j \in 1 .. (k - 1) : inputs[j].ride = inputs[k].ride =>
                           SegsIn(rd2, inputs[j]) \cap SegsIn(rd2, inputs[k]) = {}
    BY <1>1, <1>3 DEF Makes
  <2>1. 1 \in DOMAIN inputs /\ \A j \in 1 .. (k - 1) : j \in DOMAIN inputs
    BY <1>2
  <2> QED
    BY <1>1, <1>3, <2>1 DEF Makes
<1>5. LegsIn(rd2, inputs) = LegsIn(rd, inputs)
  BY <1>3 DEF LegsIn
<1>6. TotalOf(rd2, LegsIn(rd, inputs)) = TotalOf(rd, LegsIn(rd, inputs))
  <2> DEFINE legs == LegsIn(rd, inputs)
  <2>1. ASSUME NEW k \in DOMAIN legs
        PROVE  PriceOf(rd2, legs[k].ride, legs[k].segs) = PriceOf(rd, legs[k].ride, legs[k].segs)
    BY <1>3 DEF LegsIn, PriceOf
  <2> HIDE DEF legs
  <2>2. [k \in DOMAIN legs |-> PriceOf(rd2, legs[k].ride, legs[k].segs)]
          = [k \in DOMAIN legs |-> PriceOf(rd, legs[k].ride, legs[k].segs)]
    BY <2>1
  <2> QED
    BY <2>2 DEF TotalOf, legs
<1> QED
  BY <1>1, <1>3, <1>4, <1>5, <1>6 DEF ShownIn, inputs

\* What is bookable is a trip.
LEMMA BookableMakes ==
  ASSUME NEW it, Bookable(it)
  PROVE  ShownIn(rides, it)
<1> DEFINE inputs == Inputs(it)
<1>1. inputs \in Seq(LegInput) /\ PlanOK(inputs) /\ AsShown(it)
  BY DEF Bookable
<1>2. ASSUME NEW k \in DOMAIN inputs
      PROVE  /\ inputs[k].ride \in DOMAIN rides
             /\ LegSegments(inputs[k]) # {}
             /\ k > 1 => /\ rides[inputs[k].ride].date = rides[inputs[1].ride].date
                         /\ inputs[k - 1].destination = inputs[k].origin
             /\ Refused(inputs, k) = {}
  <2>1. LegError(inputs, k) = "OK"
    BY <1>1 DEF PlanOK
  <2> HIDE DEF inputs
  <2> QED
    BY <2>1 DEF LegError
<1>3. \A k \in DOMAIN inputs : LegSegments(inputs[k]) = SegsIn(rides, inputs[k])
  BY <1>2 DEF LegSegments, SegsIn
<1>4. ASSUME NEW k \in DOMAIN inputs, NEW j \in 1 .. (k - 1),
             inputs[j].ride = inputs[k].ride
      PROVE  SegsIn(rides, inputs[j]) \cap SegsIn(rides, inputs[k]) = {}
  <2> HIDE DEF inputs
  <2>1. LegSegments(inputs[j]) = SegsIn(rides, inputs[j])
    BY <1>2, <1>4 DEF LegSegments, SegsIn
  <2>2. LegSegments(inputs[j]) \subseteq Seen(inputs, k)
    BY <1>4 DEF Seen
  <2> QED
    BY <1>2, <1>3, <2>1, <2>2 DEF Refused
<1>5. PlannedLegs(inputs) = LegsIn(rides, inputs)
  BY <1>3 DEF PlannedLegs, LegsIn
<1>6. /\ \A k \in DOMAIN inputs : SegsIn(rides, inputs[k]) = it.legs[k].segs
      /\ it.total = TotalOf(rides, LegsIn(rides, inputs))
  BY <1>1, <1>5 DEF AsShown, LegsIn
<1>7. Makes(rides, inputs)
  BY <1>2, <1>3, <1>4 DEF Makes
<1> QED
  BY <1>1, <1>6, <1>7 DEF ShownIn

\* A trip on the routes of the memory can fail for a cancelled ride or a seat.
LEMMA OnlySeats ==
  ASSUME NEW inputs, Makes(rides, inputs), NEW k \in DOMAIN inputs,
         \A r \in DOMAIN rides : RideKept(rides[r])
  PROVE  LegError(inputs, k) \in {"OK", "NO_SEATS", "CONFLICT"}
<1>1. /\ inputs[k].ride \in DOMAIN rides
      /\ LegSegments(inputs[k]) # {}
      /\ LegSegments(inputs[k]) = SegsIn(rides, inputs[k])
      /\ k > 1 => /\ rides[inputs[k].ride].date = rides[inputs[1].ride].date
                  /\ inputs[k - 1].destination = inputs[k].origin
  BY DEF Makes, LegSegments, SegsIn
<1>2. LegSegments(inputs[k]) \cap Seen(inputs, k) = {}
  <2> SUFFICES ASSUME NEW j \in 1 .. (k - 1), inputs[j].ride = inputs[k].ride
               PROVE  LegSegments(inputs[k]) \cap LegSegments(inputs[j]) = {}
    BY DEF Seen
  <2>1. LegSegments(inputs[j]) = SegsIn(rides, inputs[j])
    BY <1>1 DEF LegSegments, SegsIn
  <2> QED
    BY <1>1, <2>1 DEF Makes
<1>3. LegSegments(inputs[k]) \in SUBSET Nat
  <2>1. rides[inputs[k].ride].cities \in Seq(Cities)
    BY <1>1 DEF RideKept
  <2> DEFINE cities == rides[inputs[k].ride].cities
             oi == CityIndex(cities, inputs[k].origin)
             di == CityIndex(cities, inputs[k].destination)
  <2>2. oi \in 0 .. Len(cities) /\ di \in 0 .. Len(cities) /\ Len(cities) \in Nat
    BY <2>1, CityIndexType, LenProperties
  <2>3. LegSegments(inputs[k]) = IF oi > 0 /\ di > 0 THEN oi .. (di - 1) ELSE {}
    BY <1>1 DEF SegsIn, SegmentIndexesBetween
  <2> HIDE DEF oi, di
  <2> QED
    BY <2>2, <2>3
<1>4. Refused(inputs, k) \in SUBSET LegSegments(inputs[k])
  BY DEF Refused
<1>5. Refused(inputs, k) # {} => First(Refused(inputs, k)) \notin Seen(inputs, k)
  BY <1>2, <1>3, <1>4, FirstIn
<1> QED
  BY <1>1, <1>5 DEF LegError

\* What the memory of a running server makes of what was shown.
LEMMA ShownInMemory ==
  ASSUME Kept, up, NEW it, ShownIn(disk.rides, it)
  PROVE  ShownIn(rides, it)
<1>1. SameTrips(disk.rides, rides)
  BY DEF Kept, CrashLosesOnlyCancellations, Extends, LaterRide, SameTrips
<1> QED
  BY <1>1, ShownStays

\* Screens keep showing trips, as long as every answer does when it is given.
LEMMA ShownStep ==
  ASSUME Kept, ShownKept, [TripNext]_tripVars,
         [\A p \in Names : shown'[p] # shown[p] =>
            \A n \in DOMAIN shown'[p] : Bookable(shown'[p][n])]_tripVars
  PROVE  ShownKept'
<1>1. SameTrips(disk.rides, disk'.rides)
  BY KeptStep DEF FileGrows, Extends, LaterRide, SameTrips
<1>2. ASSUME NEW p \in Names, NEW n \in DOMAIN shown[p]
      PROVE  ShownIn(disk'.rides, shown[p][n])
  BY <1>1, ShownStays DEF ShownKept
<1>3. CASE UNCHANGED shown
  BY <1>2, <1>3 DEF ShownKept
<1>4. ASSUME NEW u, Logout(u)
      PROVE  ShownKept'
  <2>1. shown' = [shown EXCEPT ![u] = << >>]
    BY <1>4 DEF Logout
  <2>2. DOMAIN shown' = Names /\ \A p \in Names : shown'[p] = shown[p] \/ shown'[p] = << >>
    BY <2>1 DEF ShownKept
  <2> QED
    BY <1>2, <2>2 DEF ShownKept
<1>5. ASSUME NEW p, NEW query, SearchItineraries(p, query), ~ UNCHANGED shown
      PROVE  ShownKept'
  <2>1. up /\ UNCHANGED vars /\ DOMAIN shown' = Names
    BY <1>5 DEF SearchItineraries, ShownKept
  <2>2. SameTrips(rides, disk'.rides)
    BY <2>1 DEF Kept, CrashLosesOnlyCancellations, Extends, LaterRide, SameTrips, vars
  <2>3. ASSUME NEW x \in Names, NEW n \in DOMAIN shown'[x]
        PROVE  ShownIn(disk'.rides, shown'[x][n])
    <3>1. CASE shown'[x] = shown[x]
      BY <1>2, <3>1
    <3>2. CASE shown'[x] # shown[x]
      <4>1. Bookable(shown'[x][n])
        BY <1>5, <3>2 DEF tripVars, screens
      <4> QED
        BY <2>2, <4>1, BookableMakes, ShownStays
    <3> QED
      BY <3>1, <3>2
  <2> QED
    BY <2>1, <2>3 DEF ShownKept
<1> QED
  BY <1>3, <1>4, <1>5
  DEF TripNext, Others, PublishTyped, ConfirmShown, List, CancelListed, screens, tripVars

\* The city at stop i of a route of different cities is found at i.
LEMMA StopFound ==
  ASSUME NEW ride, RideKept(ride), NEW i \in DOMAIN ride.cities
  PROVE  CityIndex(ride.cities, ride.cities[i]) = i
<1> DEFINE cities == ride.cities
           c == CityIndex(cities, cities[i])
<1>1. cities \in Seq(Cities) /\ \A m, n \in DOMAIN cities : cities[m] = cities[n] => m = n
  BY DEF RideKept
<1>2. DOMAIN cities = 1 .. Len(cities) /\ Len(cities) \in Nat
  BY <1>1, LenProperties
<1> HIDE DEF cities
<1>3. i \in DOMAIN cities /\ \A j \in 1 .. (i - 1) : cities[j] # cities[i]
  <2>1. i \in DOMAIN cities
    BY DEF cities
  <2> QED
    BY <1>1, <1>2, <2>1
<1>4. c \in DOMAIN cities /\ cities[c] = cities[i]
  <2>1. \E n \in DOMAIN cities : /\ cities[n] = cities[i]
                                /\ \A j \in 1 .. (n - 1) : cities[j] # cities[i]
    BY <1>3
  <2> QED
    BY <2>1 DEF CityIndex
<1> QED
  BY <1>1, <1>3, <1>4 DEF cities

\* A hop, and what a client sends back for it.
LEMMA HopLeg ==
  ASSUME IsMap(rides, RideIds, Ride), \A r \in DOMAIN rides : RideKept(rides[r]),
         NEW query, NEW h \in Hops(rides, query)
  PROVE  LET in == [ride |-> h.ride, origin |-> City(rides, h, h.i),
                    destination |-> City(rides, h, h.j)]
         IN  /\ in \in LegInput
             /\ h.ride \in DOMAIN rides
             /\ rides[h.ride].status = "ACTIVE" /\ rides[h.ride].date = query.date
             /\ h.i \in Nat /\ h.j \in Nat /\ h.i < h.j
             /\ h.i .. h.j \subseteq DOMAIN rides[h.ride].cities
             /\ LegSegments(in) = h.i .. (h.j - 1)
             /\ \A s \in h.i .. (h.j - 1) : ~ (rides[h.ride].avail[s] < 1)
<1> DEFINE in == [ride |-> h.ride, origin |-> City(rides, h, h.i),
                  destination |-> City(rides, h, h.j)]
           ride == rides[h.ride]
           cities == ride.cities
<1>1. /\ h.ride \in DOMAIN rides /\ h.i \in DOMAIN cities /\ h.j \in DOMAIN cities
      /\ h.i < h.j /\ ride.status = "ACTIVE" /\ ride.date = query.date
      /\ \A s \in h.i .. (h.j - 1) : ride.avail[s] > 0
  <2>1. PICK r \in DOMAIN rides :
          h \in [ride : {r}, i : DOMAIN rides[r].cities, j : DOMAIN rides[r].cities]
    BY DEF Hops
  <2> QED
    BY <2>1 DEF Hops
<1>2. /\ h.ride \in RideIds /\ RideKept(ride)
      /\ cities \in Seq(Cities) /\ ride.avail \in Seq(Int)
  BY <1>1 DEF IsMap, Ride
<1>3. /\ DOMAIN cities = 1 .. Len(cities) /\ Len(cities) \in Nat
      /\ DOMAIN ride.avail = 1 .. (Len(cities) - 1)
  BY <1>2, LenProperties DEF RideKept
<1>4. /\ City(rides, h, h.i) = cities[h.i] /\ City(rides, h, h.j) = cities[h.j]
      /\ cities[h.i] \in Cities /\ cities[h.j] \in Cities
  BY <1>1, <1>2, <1>3, ElementOfSeq DEF City
<1>5. in \in LegInput
  BY <1>2, <1>4 DEF LegInput
<1>6. CityIndex(cities, cities[h.i]) = h.i /\ CityIndex(cities, cities[h.j]) = h.j
  BY <1>1, <1>2, StopFound
<1>7. LegSegments(in) = SegmentIndexesBetween(cities, cities[h.i], cities[h.j])
  BY <1>1, <1>4 DEF LegSegments
<1> DEFINE i == h.i
           j == h.j
<1>8. i \in 1 .. Len(cities) /\ j \in 1 .. Len(cities) /\ i < j
  BY <1>1, <1>3
<1>9. SegmentIndexesBetween(cities, cities[i], cities[j]) = i .. (j - 1)
  <2> DEFINE oi == CityIndex(cities, cities[i])
             di == CityIndex(cities, cities[j])
  <2>1. oi = i /\ di = j
    BY <1>6
  <2>2. SegmentIndexesBetween(cities, cities[i], cities[j]) =
          IF oi > 0 /\ di > 0 THEN oi .. (di - 1) ELSE {}
    BY DEF SegmentIndexesBetween
  <2> HIDE DEF oi, di, i, j, cities
  <2>3. i > 0 /\ j > 0
    BY <1>3, <1>8
  <2> QED
    BY <2>1, <2>2, <2>3
<1>10. ASSUME NEW s \in i .. (j - 1) PROVE ~ (ride.avail[s] < 1)
  <2> HIDE DEF i, j, ride
  <2>1. ride.avail[s] > 0
    BY <1>1, <1>10 DEF i, j, ride
  <2>2. s \in DOMAIN ride.avail
    <3> HIDE DEF cities
    <3> QED
      BY <1>3, <1>8
  <2>3. ride.avail[s] \in Int
    BY <1>2, <2>2, LenProperties, ElementOfSeq DEF ride
  <2> QED
    BY <2>1, <2>3
<1>11. i .. j \subseteq DOMAIN cities /\ i \in Nat /\ j \in Nat
  <2> HIDE DEF i, j, cities
  <2> QED
    BY <1>3, <1>8
<1> QED
  BY <1>1, <1>5, <1>7, <1>9, <1>10, <1>11

\* Two hops of one ride that share a segment pass two cities both.
LEMMA SharedSegment ==
  ASSUME IsMap(rides, RideIds, Ride), \A r \in DOMAIN rides : RideKept(rides[r]),
         NEW query, NEW g \in Hops(rides, query), NEW h \in Hops(rides, query),
         g.ride = h.ride, NEW s \in (g.i .. (g.j - 1)) \cap (h.i .. (h.j - 1))
  PROVE  \E x, y : x # y /\ {x, y} \subseteq Passed(rides, g) \cap Passed(rides, h)
<1>1. /\ g.i \in Nat /\ g.j \in Nat /\ h.i \in Nat /\ h.j \in Nat
      /\ h.ride \in DOMAIN rides /\ h.i .. h.j \subseteq DOMAIN rides[h.ride].cities
  BY HopLeg
<1> DEFINE x == City(rides, h, s)
           y == City(rides, h, s + 1)
<1>2. /\ s \in g.i .. g.j /\ s + 1 \in g.i .. g.j
      /\ s \in h.i .. h.j /\ s + 1 \in h.i .. h.j /\ s # s + 1
  <2> DEFINE a == g.i
             b == g.j
             c == h.i
             d == h.j
  <2>1. a \in Nat /\ b \in Nat /\ c \in Nat /\ d \in Nat
        /\ s \in a .. (b - 1) /\ s \in c .. (d - 1)
    BY <1>1
  <2> HIDE DEF a, b, c, d
  <2>2. s \in a .. b /\ s + 1 \in a .. b /\ s \in c .. d /\ s + 1 \in c .. d /\ s # s + 1
    BY <2>1
  <2> QED
    BY <2>2 DEF a, b, c, d
<1>3. x = City(rides, g, s) /\ y = City(rides, g, s + 1)
  BY DEF City
<1>4. {x, y} \subseteq Passed(rides, g) /\ {x, y} \subseteq Passed(rides, h)
  <2> HIDE DEF x, y
  <2>1. x \in Passed(rides, g) /\ y \in Passed(rides, g)
    BY <1>2, <1>3 DEF Passed
  <2>2. x \in Passed(rides, h) /\ y \in Passed(rides, h)
    BY <1>2 DEF Passed, x, y
  <2> QED
    BY <2>1, <2>2
<1>5. x # y
  <2>1. /\ s \in DOMAIN rides[h.ride].cities /\ s + 1 \in DOMAIN rides[h.ride].cities
        /\ RideKept(rides[h.ride])
    BY <1>1, <1>2
  <2> QED
    BY <1>2, <2>1 DEF City, RideKept
<1> HIDE DEF x, y
<1> QED
  BY <1>4, <1>5

\* The store books every journey of its rides, as an answer shows it.
LEMMA JourneyBookable ==
  ASSUME IsMap(rides, RideIds, Ride), \A r \in DOMAIN rides : RideKept(rides[r]),
         NEW query \in Queries, NEW jn \in Journeys(rides, query),
         NEW it, Shows(rides, it, jn)
  PROVE  Bookable(it)
<1> DEFINE N == Len(jn)
           in(k) == [ride |-> jn[k].ride, origin |-> City(rides, jn[k], jn[k].i),
                     destination |-> City(rides, jn[k], jn[k].j)]
           segs(k) == jn[k].i .. (jn[k].j - 1)
           inputs == Inputs(it)
<1>1. /\ N \in Nat /\ N >= 1 /\ DOMAIN jn = 1 .. N
      /\ \A k \in 1 .. N : jn[k] \in Hops(rides, query)
  <2>1. PICK n \in 1 .. (query.transfers + 1) : jn \in [1 .. n -> Hops(rides, query)]
    BY DEF Journeys
  <2>2. n \in Nat /\ n >= 1
    BY QueriesType
  <2>3. jn \in Seq(Hops(rides, query)) /\ Len(jn) = n
    BY <2>1, <2>2
  <2> QED
    BY <2>1, <2>2, <2>3
<1>2. /\ \A k \in 2 .. N : /\ jn[k].ride # jn[k - 1].ride
                          /\ City(rides, jn[k], jn[k].i) = City(rides, jn[k - 1], jn[k - 1].j)
      /\ \A k, l \in 1 .. N : k < l =>
           Passed(rides, jn[k]) \cap Passed(rides, jn[l]) \subseteq
             IF l = k + 1 THEN {City(rides, jn[l], jn[l].i)} ELSE {}
  BY DEF Journeys
<1>3. it.legs = [k \in 1 .. N |->
                   [ride |-> jn[k].ride, segs |-> segs(k),
                    origin |-> City(rides, jn[k], jn[k].i),
                    destination |-> City(rides, jn[k], jn[k].j)]]
  BY <1>1 DEF Shows
<1>4. inputs = [k \in 1 .. N |-> in(k)]
  <2>1. /\ DOMAIN it.legs = 1 .. N
        /\ \A k \in 1 .. N : /\ it.legs[k].ride = jn[k].ride
                            /\ it.legs[k].origin = City(rides, jn[k], jn[k].i)
                            /\ it.legs[k].destination = City(rides, jn[k], jn[k].j)
    BY <1>3
  <2> QED
    BY <2>1 DEF Inputs
<1> HIDE DEF N, inputs
<1>5. DOMAIN inputs = 1 .. N /\ \A k \in 1 .. N : inputs[k] = in(k)
  BY <1>4
<1>6. ASSUME NEW k \in 1 .. N
      PROVE  /\ inputs[k] \in LegInput /\ inputs[k].ride = jn[k].ride
             /\ inputs[k].origin = City(rides, jn[k], jn[k].i)
             /\ inputs[k].destination = City(rides, jn[k], jn[k].j)
             /\ jn[k].ride \in DOMAIN rides
             /\ rides[jn[k].ride].status = "ACTIVE" /\ rides[jn[k].ride].date = query.date
             /\ LegSegments(inputs[k]) = segs(k) /\ segs(k) # {}
             /\ \A s \in segs(k) : ~ (rides[jn[k].ride].avail[s] < 1)
  <2>1. jn[k] \in Hops(rides, query) /\ inputs[k] = in(k)
    BY <1>1, <1>5
  <2>2. jn[k].i \in Nat /\ jn[k].j \in Nat /\ jn[k].i < jn[k].j
    BY <2>1, HopLeg
  <2>3. jn[k].i \in segs(k)
    BY <2>2
  <2>4. /\ in(k) \in LegInput /\ LegSegments(in(k)) = segs(k)
        /\ jn[k].ride \in DOMAIN rides
        /\ rides[jn[k].ride].status = "ACTIVE" /\ rides[jn[k].ride].date = query.date
        /\ \A s \in segs(k) : ~ (rides[jn[k].ride].avail[s] < 1)
    BY <2>1, HopLeg
  <2> QED
    BY <2>1, <2>3, <2>4
<1>7. inputs \in Seq(LegInput) /\ inputs # << >>
  <2>1. inputs \in [1 .. N -> LegInput]
    BY <1>4, <1>5, <1>6
  <2>2. 1 \in DOMAIN inputs
    BY <1>1, <1>5
  <2> QED
    BY <1>1, <2>1, <2>2
<1>8. ASSUME NEW k \in 1 .. N, NEW l \in 1 .. (k - 1), inputs[l].ride = inputs[k].ride
      PROVE  segs(l) \cap segs(k) = {}
  <2>1. l \in 1 .. N /\ l < k
    BY <1>1
  <2> SUFFICES ASSUME NEW s \in segs(l) \cap segs(k) PROVE FALSE
    OBVIOUS
  <2>2. /\ jn[l] \in Hops(rides, query) /\ jn[k] \in Hops(rides, query)
        /\ jn[l].ride = jn[k].ride
    BY <1>1, <1>6, <1>8, <2>1
  <2>3. PICK x, y : /\ x # y
                    /\ {x, y} \subseteq Passed(rides, jn[l]) \cap Passed(rides, jn[k])
    BY <2>2, SharedSegment
  <2>4. {x, y} \subseteq IF k = l + 1 THEN {City(rides, jn[k], jn[k].i)} ELSE {}
    BY <1>2, <2>1, <2>3
  <2> QED
    BY <2>3, <2>4
<1>9. ASSUME NEW k \in 1 .. N PROVE LegError(inputs, k) = "OK"
  <2>1. Seen(inputs, k) \cap segs(k) = {}
    <3> SUFFICES ASSUME NEW l \in 1 .. (k - 1), inputs[l].ride = inputs[k].ride
                 PROVE  LegSegments(inputs[l]) \cap segs(k) = {}
      BY DEF Seen
    <3>1. l \in 1 .. N
      BY <1>1
    <3>2. LegSegments(inputs[l]) = segs(l)
      BY <1>6, <3>1
    <3> HIDE DEF segs
    <3> QED
      BY <1>8, <3>2
  <2> HIDE DEF segs
  <2>2. Refused(inputs, k) = {}
    BY <1>6, <2>1 DEF Refused
  <2>3. k > 1 => /\ rides[inputs[k].ride].date = rides[inputs[1].ride].date
                 /\ inputs[k - 1].destination = inputs[k].origin
    <3> SUFFICES ASSUME k > 1
                 PROVE  /\ rides[inputs[k].ride].date = rides[inputs[1].ride].date
                        /\ inputs[k - 1].destination = inputs[k].origin
      OBVIOUS
    <3>1. k \in 2 .. N /\ 1 \in 1 .. N /\ k - 1 \in 1 .. N
      BY <1>1
    <3>2. rides[inputs[k].ride].date = query.date /\ rides[inputs[1].ride].date = query.date
      BY <1>6, <3>1
    <3>3. /\ inputs[k - 1].destination = City(rides, jn[k - 1], jn[k - 1].j)
          /\ inputs[k].origin = City(rides, jn[k], jn[k].i)
      BY <1>6, <3>1
    <3> QED
      BY <1>2, <3>1, <3>2, <3>3
  <2> QED
    BY <1>6, <2>2, <2>3 DEF LegError
<1>10. PlanOK(inputs)
  BY <1>5, <1>7, <1>9 DEF PlanOK
<1>11. AsShown(it)
  <2> DEFINE legs == PlannedLegs(inputs)
  <2>1. /\ DOMAIN legs = 1 .. N
        /\ \A k \in 1 .. N : legs[k].ride = jn[k].ride /\ legs[k].segs = segs(k)
    BY <1>5, <1>6 DEF PlannedLegs
  <2> HIDE DEF legs
  <2>2. \A k \in 1 .. N : it.legs[k].segs = segs(k)
    BY <1>3
  <2>3. [k \in DOMAIN legs |-> PriceOf(rides, legs[k].ride, legs[k].segs)] =
          [k \in DOMAIN jn |-> SumOver(rides[jn[k].ride].prices, jn[k].i .. (jn[k].j - 1))]
    <3>1. \A k \in 1 .. N : PriceOf(rides, legs[k].ride, legs[k].segs) =
                             SumOver(rides[jn[k].ride].prices, jn[k].i .. (jn[k].j - 1))
      BY <2>1 DEF PriceOf
    <3> QED
      BY <1>1, <2>1, <3>1
  <2>4. TotalOf(rides, legs) = Cost(rides, jn)
    BY <1>1, <2>1, <2>3 DEF TotalOf, Cost
  <2>5. it.total = TotalOf(rides, legs)
    BY <2>4 DEF Shows
  <2>6. \A k \in DOMAIN legs : legs[k].segs = it.legs[k].segs
    <3> HIDE DEF segs
    <3> QED
      BY <2>1, <2>2
  <2> QED
    BY <2>5, <2>6 DEF AsShown, legs, inputs
<1> QED
  BY <1>7, <1>10, <1>11 DEF Bookable, inputs

\* The rides of the store can be searched: routes of different cities, with a
\* counter and a price for each segment, and names that are told apart.
LEMMA StoreSearchable ==
  ASSUME IInv, Kept
  PROVE  Routes(rides) /\ Ranked(rides)
<1>1. IsMap(rides, RideIds, Ride) /\ \A r \in DOMAIN rides : RideKept(rides[r])
  BY Parts DEF MemoryOK, StateOK, Kept, Records
<1>2. IsFiniteSet(DOMAIN rides)
  BY <1>1, IdsFinite, FS_Subset DEF IsMap
<1>3. ASSUME NEW r \in DOMAIN rides PROVE Route(rides[r])
  <2> DEFINE ride == rides[r]
  <2>1. ride \in Ride /\ RideKept(ride)
    BY <1>1 DEF IsMap
  <2> HIDE DEF ride
  <2>2. /\ ride.cities \in Seq(Cities)
        /\ ride.avail \in Seq(Int) /\ ride.prices \in Seq(Nat)
        /\ DOMAIN ride.avail = 1 .. (Len(ride.cities) - 1)
        /\ DOMAIN ride.prices = 1 .. (Len(ride.cities) - 1)
        /\ \A i, j \in DOMAIN ride.cities : ride.cities[i] = ride.cities[j] => i = j
    BY <2>1 DEF Ride, RideKept
  <2>3. /\ Len(ride.cities) \in Nat
        /\ DOMAIN ride.cities = 1 .. Len(ride.cities)
        /\ DOMAIN ride.avail = 1 .. Len(ride.avail)
        /\ DOMAIN ride.prices = 1 .. Len(ride.prices)
    BY <2>2, LenProperties
  <2>4. \A s \in DOMAIN ride.avail : ride.avail[s] \in Int /\ ride.prices[s] \in Nat
    BY <2>2, <2>3, ElementOfSeq
  <2> QED
    BY <2>2, <2>3, <2>4 DEF Route, ride
<1>4. Ranked(rides)
  <2>1. DOMAIN rides \subseteq RideIds
    BY <1>1 DEF IsMap
  <2>2. ASSUME NEW r \in DOMAIN rides
        PROVE  {rides[r].cities[i] : i \in DOMAIN rides[r].cities} \subseteq Cities
    <3>1. rides[r].cities \in Seq(Cities)
      BY <1>1 DEF RideKept
    <3> QED
      BY <3>1, ElementOfSeq, LenProperties
  <2> QED
    BY <2>1, <2>2, RanksType DEF Ranked, RanksApart
<1> QED
  BY <1>2, <1>3, <1>4 DEF Routes

\* So what a search of them answers are journeys there are.
LEMMA StoreAnswers ==
  ASSUME IInv, Kept
  PROVE  AnswersAreJourneys
<1> SUFFICES ASSUME NEW query \in Queries, NEW order \in Orders(DOMAIN rides),
                    NEW n \in DOMAIN Search(rides, order, query)
             PROVE  \E jn \in Journeys(rides, query) :
                      Shows(rides, Search(rides, order, query)[n], jn)
  BY DEF AnswersAreJourneys
<1> QED
  BY StoreSearchable, QueriesType, SearchShowsJourneys

\* And an answer of journeys is an answer the store would book.
LEMMA FreshStep ==
  ASSUME IInv, Kept, ShownKept, [TripNext]_tripVars
  PROVE  [\A p \in Names : shown'[p] # shown[p] =>
            \A n \in DOMAIN shown'[p] : Bookable(shown'[p][n])]_tripVars
<1> SUFFICES ASSUME NEW x \in Names, shown'[x] # shown[x], NEW n \in DOMAIN shown'[x]
             PROVE  Bookable(shown'[x][n])
  OBVIOUS
<1>1. ASSUME NEW u, Logout(u)
      PROVE  FALSE
  <2>1. shown' = [shown EXCEPT ![u] = << >>]
    BY <1>1 DEF Logout
  <2>2. shown'[x] = << >>
    BY <2>1 DEF ShownKept
  <2>3. DOMAIN << >> = {}
    OBVIOUS
  <2> QED
    BY <2>2, <2>3
<1>2. ASSUME NEW p, NEW query \in Queries, SearchItineraries(p, query)
      PROVE  Bookable(shown'[x][n])
  <2>1. PICK order \in Orders(DOMAIN rides) :
          shown' = [shown EXCEPT ![p] = Search(rides, order, query)]
    BY <1>2 DEF SearchItineraries
  <2> DEFINE found == Search(rides, order, query)
  <2>2. shown'[x] = found
    BY <2>1 DEF ShownKept
  <2>3. \A m \in DOMAIN found : \E jn \in Journeys(rides, query) : Shows(rides, found[m], jn)
    BY StoreAnswers DEF AnswersAreJourneys
  <2> HIDE DEF found
  <2>4. PICK jn \in Journeys(rides, query) : Shows(rides, found[n], jn)
    BY <2>2, <2>3
  <2>5. IsMap(rides, RideIds, Ride) /\ \A r \in DOMAIN rides : RideKept(rides[r])
    BY Parts DEF MemoryOK, StateOK, Kept, Records
  <2>6. Bookable(found[n])
    BY <2>4, <2>5, JourneyBookable
  <2> QED
    BY <2>2, <2>6
<1> QED
  BY <1>1, <1>2
  DEF TripNext, Others, PublishTyped, ConfirmShown, List, CancelListed, screens, tripVars

\* What the terminals ask of the store keeps the store's invariant: they send
\* what the store takes, and name what it has.
LEMMA StoreStep ==
  ASSUME IInv, Kept, ListsKept, ShownKept, [TripNext]_tripVars
  PROVE  IInv'
<1>0. IsMap(rides, RideIds, Ride) /\ IsMap(reservations, ResIds, Reservation)
  BY Parts DEF MemoryOK, StateOK
<1>1. CASE UNCHANGED vars
  BY <1>1, StutterStep
<1>2. CASE New
  BY <1>2, NewStep
<1>3. CASE Crash
  BY <1>3, CrashStep
<1>4. ASSUME NEW d \in WithRole("DRIVER"), NEW r \in RideIds, CancelRide(d, r)
      PROVE  IInv'
  BY <1>4, CancelRideStep
<1>5. ASSUME NEW p \in WithRole("PASSENGER"), NEW id \in ResIds, CancelReservation(p, id)
      PROVE  IInv'
  BY <1>5, CancelReservationStep
<1>6. ASSUME NEW d \in WithRole("DRIVER"), NEW form \in Forms, PublishTyped(d, form)
      PROVE  IInv'
  <2> DEFINE prices == [n \in DOMAIN form.texts |-> ParseBRLToCents(form.texts[n])]
             req == [cities |-> form.cities, date |-> form.date, capacity |-> form.capacity,
                     prices |-> prices]
  <2>1. /\ \A n \in DOMAIN form.texts : ParseBRLToCents(form.texts[n]) # Rejected
        /\ PublishRide(d, req)
    BY <1>6 DEF PublishTyped
  <2>2. /\ form.cities \in Seq(Cities \cup {None})
        /\ form.date \in Dates \cup {None}
        /\ form.capacity \in Int
        /\ form.texts \in Seq(Text)
    BY FormsType
  <2>3. DOMAIN form.texts = 1 .. Len(form.texts) /\ Len(form.texts) \in Nat
    BY <2>2, LenProperties
  <2>4. ASSUME NEW n \in DOMAIN form.texts PROVE ParseBRLToCents(form.texts[n]) \in Int
    <3>1. form.texts[n] \in Text
      BY <2>2, <2>3, ElementOfSeq
    <3> QED
      BY <2>1, <3>1, ParsedAsMeant
  <2>5. prices \in Seq(Int)
    BY <2>3, <2>4, SeqOver
  <2> HIDE DEF prices
  <2>6. req \in PublishInput
    BY <2>2, <2>5 DEF PublishInput
  <2> HIDE DEF req
  <2> QED
    BY <2>1, <2>6, PublishRideStep
<1>7. ASSUME NEW p \in WithRole("PASSENGER"), NEW q \in RequestIds, ConfirmShown(p, q)
      PROVE  IInv'
  <2>1. PICK n \in DOMAIN shown[p] : ConfirmReservation(p, q, Inputs(shown[p][n]))
    BY <1>7 DEF ConfirmShown
  <2>2. p \in Names
    BY DEF WithRole, Kept, Records
  <2>3. Inputs(shown[p][n]) \in Seq(LegInput)
    BY <2>2 DEF ShownKept, ShownIn
  <2> QED
    BY <2>1, <2>3, ConfirmReservationStep
<1>8. ASSUME NEW u \in DOMAIN users, CancelListed(u)
      PROVE  IInv'
  <2>1. PICK id \in listed[u] : \/ users[u] = "DRIVER" /\ CancelRide(u, id)
                                \/ users[u] = "PASSENGER" /\ CancelReservation(u, id)
    BY <1>8 DEF CancelListed
  <2>2. up /\ u \in Names
    BY <2>1 DEF CancelRide, CancelReservation, Kept, Records
  <2>3. id \in Own(u)
    BY <2>2, OwnInMemory DEF Kept, ListsKept
  <2>4. CASE users[u] = "DRIVER" /\ CancelRide(u, id)
    <3>1. id \in RideIds /\ u \in WithRole("DRIVER")
      BY <1>0, <2>3, <2>4 DEF Own, IsMap, WithRole
    <3> QED
      BY <1>4, <2>4, <3>1
  <2>5. CASE users[u] = "PASSENGER" /\ CancelReservation(u, id)
    <3>1. users[u] # "DRIVER"
      BY <2>5
    <3>2. id \in ResIds /\ u \in WithRole("PASSENGER")
      BY <1>0, <2>3, <2>5, <3>1 DEF Own, IsMap, WithRole
    <3> QED
      BY <1>5, <2>5, <3>2
  <2> QED
    BY <2>1, <2>4, <2>5
<1> QED
  BY <1>1, <1>2, <1>3, <1>4, <1>5, <1>6, <1>7, <1>8
  DEF TripNext, Others, SearchItineraries, List, Logout, tripVars

\* The terminals start with a store that starts.
LEMMA TripStart ==
  ASSUME TripInit
  PROVE  IInv /\ Kept /\ ListsKept /\ ShownKept
BY InitInvariant, TripInitKept DEF TripInit, ShownKept

\* The store's own invariant holds with terminals in front of it, whatever they
\* send, and what is on a screen stays a trip of the server's routes for good.
THEOREM ShownInvariant == TripSpec => [](IInv /\ Kept /\ ListsKept /\ ShownKept)
<1>1. TripInit => IInv /\ Kept /\ ListsKept /\ ShownKept
  BY TripStart
<1>2. /\ IInv /\ Kept /\ ListsKept /\ ShownKept
      /\ [TripNext]_tripVars
      => (IInv /\ Kept /\ ListsKept /\ ShownKept)'
  BY FreshStep, StoreStep, KeptStep, ListsStep, ShownStep
<1> QED
  BY <1>1, <1>2, PTL DEF TripSpec

\* Whatever was sold, cancelled, lost or published before, every answer the
\* search of the store may give, in whichever order it meets the rides, shows
\* journeys of the day with a seat free on each segment, cut and priced as they
\* are.
THEOREM AnswersShowJourneys == TripSpec => []AnswersAreJourneys
BY ShownInvariant, StoreAnswers, PTL

\* A passenger who confirms at once gets any itinerary of the answer, as it was
\* shown, whatever was sold before the search.
THEOREM AnswersBookable == TripSpec => FreshIsBookable
<1>1. /\ IInv /\ Kept /\ ListsKept /\ ShownKept
      /\ [TripNext]_tripVars
      => [\A p \in Names : shown'[p] # shown[p] =>
            \A n \in DOMAIN shown'[p] : Bookable(shown'[p][n])]_tripVars
  BY FreshStep
<1> QED
  BY <1>1, ShownInvariant, PTL DEF TripSpec, FreshIsBookable

\* Of an answer only seats and rides can be gone, however old it is and
\* whatever happened since: no CONFIRM of it fails for any other reason.
THEOREM SeatsGoStale == TripSpec => []OnlySeatsGoStale
<1>1. Kept /\ ShownKept => OnlySeatsGoStale
  <2> SUFFICES ASSUME Kept, ShownKept, up, NEW p \in Names, NEW n \in DOMAIN shown[p],
                      NEW k \in DOMAIN shown[p][n].legs
               PROVE  LegError(Inputs(shown[p][n]), k) \in {"OK", "NO_SEATS", "CONFLICT"}
    BY DEF OnlySeatsGoStale, ShownItineraries
  <2>1. Makes(rides, Inputs(shown[p][n]))
    BY ShownInMemory DEF ShownKept, ShownIn
  <2>2. k \in DOMAIN Inputs(shown[p][n])
    BY DEF Inputs
  <2> QED
    BY <2>1, <2>2, OnlySeats DEF Kept, Records
<1> QED
  BY <1>1, ShownInvariant, PTL

\* What a CONFIRM of an old answer books is what was shown, to the segment and
\* to the centavo.
THEOREM SoldAsShown == TripSpec => []BookedAsShown
<1>1. Kept /\ ShownKept => BookedAsShown
  <2> SUFFICES ASSUME Kept, ShownKept, up, NEW p \in Names, NEW n \in DOMAIN shown[p]
               PROVE  AsShown(shown[p][n])
    BY DEF BookedAsShown, ShownItineraries
  <2> DEFINE it == shown[p][n]
             inputs == Inputs(it)
  <2>1. ShownIn(rides, it)
    BY ShownInMemory DEF ShownKept
  <2> HIDE DEF it
  <2>2. \A k \in DOMAIN inputs : LegSegments(inputs[k]) = SegsIn(rides, inputs[k])
    BY <2>1 DEF ShownIn, Makes, LegSegments, SegsIn
  <2>3. PlannedLegs(inputs) = LegsIn(rides, inputs)
    BY <2>2 DEF PlannedLegs, LegsIn
  <2>4. AsShown(it)
    BY <2>1, <2>3 DEF AsShown, ShownIn, LegsIn
  <2> QED
    BY <2>4 DEF it
<1> QED
  BY <1>1, ShownInvariant, PTL
=============================================================================
